-------------------------- MODULE WorkloadAdmission --------------------------
(***************************************************************************)
(* A submitted workload on its way into the store: the performance guard   *)
(* estimates it (compiler/safety.py, compiler/requests.py), the task       *)
(* definition is compiled and assembled, and its RunnerPlan fires.         *)
(*                                                                         *)
(* A workload has any number of Runners, at most one plan and at most one  *)
(* task definition.  A benchmark is reduced to its request plan, its       *)
(* limits and its token counts; prompt is the larger of the mean and the   *)
(* bytes of a literal prompt.                                              *)
(***************************************************************************)
EXTENDS CampaignCompiler, Recurrence

CONSTANTS
    Workloads,              \* the documents that may be submitted
    SchedulerSlots,         \* max_concurrent_runners
    ActorCapacity,          \* request_actor_capacity
    ActorConcurrency,       \* ray_actor_max_concurrency
    RuntimeWorkers,         \* concurrent_workers of the Runtime
    Limits,                 \* workload_limits of the guard, by metric
    CampaignAdmission       \* campaign_admission_enabled

VARIABLES
    workload,       \* the document
    phase,          \* submitted, rejected, admitted, compiled, created
    assessment,     \* what assess_workload returned
    table,          \* the compiled rows, by instance
    assembly,       \* the Runners of the task definition
    fires           \* what the plan has fired

vars == <<workload, phase, assessment, table, assembly, fires>>

None == [none |-> TRUE]
IsNone(x) == "none" \in DOMAIN x

-----------------------------------------------------------------------------
(* compiler/requests.py                                                    *)

\* RequestPlan.validate_graph: unique names, dependencies on earlier steps,
\* and no interval together with steps.
ValidRequestPlan(bm) ==
    /\ bm.every => bm.steps = <<>>
    /\ \A i \in DOMAIN bm.steps :
        LET earlier == {bm.steps[j].name : j \in 1..(i - 1)} IN
        /\ bm.steps[i].name \notin earlier
        /\ {d.step : d \in bm.steps[i].depends_on} \subseteq earlier

\* RequestPlan.expand: every repetition has names of its own.
ExpandRequests(bm) ==
    IF bm.steps = <<>>
    THEN [i \in 1..bm.repeat |->
            [name |-> <<ToString(i - 1)>>, deps |-> {}, sources |-> {}, prompt |-> bm.prompt]]
    ELSE LET n == Len(bm.steps)
             Prefix(r) == IF bm.repeat > 1 THEN <<ToString(r)>> ELSE <<>>
         IN [k \in 1..(bm.repeat * n) |->
                LET step == bm.steps[((k - 1) % n) + 1]
                    p == Prefix((k - 1) \div n)
                IN [name |-> Append(p, step.name),
                    deps |-> {Append(p, d.step) : d \in step.depends_on},
                    sources |-> {Append(p, d.step) :
                                    d \in {x \in step.depends_on : x.reuse_messages}},
                    prompt |-> step.prompt]]

PlannedWorkerCount(bm) ==
    IF ~IsNone(bm.cache_probe)
    THEN bm.cache_probe.trials * (1 + bm.cache_probe.repeats_after_prime)
    ELSE bm.repeat * IF bm.steps = <<>> THEN 1 ELSE Len(bm.steps)

\* What a request costs: the messages it reuses, its prompt and its answer.
StepTokens(history, prompt, output) == history + prompt + output

PlannedTokenBudget(bm) ==
    IF ~IsNone(bm.cache_probe) THEN PlannedWorkerCount(bm) * (bm.prompt + bm.output)
    ELSE IF bm.steps = <<>> THEN bm.repeat * StepTokens(0, bm.prompt, bm.output)
    ELSE LET tokens[i \in DOMAIN bm.steps] ==
                LET reused == {j \in 1..(i - 1) :
                        [step |-> bm.steps[j].name, reuse_messages |-> TRUE]
                            \in bm.steps[i].depends_on}
                IN StepTokens(SumOf([j \in 1..(i - 1) |-> IF j \in reused THEN tokens[j] ELSE 0]),
                              bm.steps[i].prompt, bm.output)
         IN bm.repeat * SumOf([i \in DOMAIN bm.steps |-> tokens[i]])

-----------------------------------------------------------------------------
(* TaskCompiler.estimate and estimate_token_budget.                        *)

CeilDiv(a, b) == (a + b - 1) \div b

BatchConcurrency(bm) ==
    Min({PlannedWorkerCount(bm)}
        \cup (IF bm.concurrent_workers > 0 THEN {bm.concurrent_workers} ELSE {})
        \cup (IF bm.every THEN {1} ELSE {}))

\* _validate_worker_template.
TemplateError(rows, bm) ==
    \/ /\ \E i \in DOMAIN rows : rows[i].execution_kind = "atomic"
       /\ bm.steps # <<>> \/ bm.repeat # 1
    \/ /\ \E i \in DOMAIN rows : rows[i].sources # {}
       /\ ~bm.messages_allowed

RowWeights(rows, width) ==
    [id \in Ids(rows) |->
        IF \E i \in DOMAIN rows : rows[i].id = id /\ rows[i].execution_kind = "batch"
        THEN width ELSE 1]

TotalWeight(rows, width) ==
    SumOf([i \in DOMAIN rows |-> IF rows[i].execution_kind = "batch" THEN width ELSE 1])

\* What the rows of each coordinate come to, width being that of a batch.
EstimateRows(recipe, bm, coordinates, rows, width) ==
    LET OverTrials(f) == SumOf(f) * recipe.trials
    IN [error |-> \E c \in DOMAIN rows : TemplateError(rows[c], bm),
        runners |-> OverTrials([c \in DOMAIN rows |-> Len(rows[c])]),
        requests |-> OverTrials([c \in DOMAIN rows |->
                                TotalWeight(rows[c], PlannedWorkerCount(bm))]),
        max_concurrency |-> MaxOr0(UNION {{RowWeights(rows[c], width)[id] : id \in Ids(rows[c])} :
                                            c \in DOMAIN rows}),
        peak_requests |-> OverTrials([c \in DOMAIN rows |->
                PeakOf(recipe, coordinates[c], RowWeights(rows[c], width))])]

\* The rows of the first trial of every coordinate, which stands for all of them.
FirstTrials(recipe, coordinates) ==
    [c \in DOMAIN coordinates |->
        ExpandGraph(recipe, InstanceContext(recipe, coordinates[c], 0)).rows]

EstimateAt(recipe, bm, coordinates) ==
    EstimateRows(recipe, bm, coordinates, FirstTrials(recipe, coordinates), BatchConcurrency(bm))

Estimate(recipe, bm) == EstimateAt(recipe, bm, SetToSeq(MatrixCoordinates(recipe)))

\* The tokens of the rows of an instance, with the messages they reuse.
InstanceTokens(recipe, bm, rows) ==
    LET prompt(i) == Max({bm.prompt, recipe.payloads[rows[i].payload].bytes})
        tokens[i \in DOMAIN rows] ==
            IF rows[i].execution_kind = "batch" THEN PlannedTokenBudget(bm)
            ELSE StepTokens(
                    SumOf([j \in 1..(i - 1) |->
                            IF rows[j].id \in rows[i].sources THEN tokens[j] ELSE 0]),
                    prompt(i), bm.output)
    IN SumOf([i \in DOMAIN rows |-> tokens[i]])

TokensOf(recipe, bm, rows) ==
    SumOf([c \in DOMAIN rows |-> InstanceTokens(recipe, bm, rows[c])]) * recipe.trials

EstimateTokenBudget(recipe, bm) ==
    TokensOf(recipe, bm, FirstTrials(recipe, SetToSeq(MatrixCoordinates(recipe))))

-----------------------------------------------------------------------------
(* compiler/safety.py                                                      *)

SchedulerCapacity == ActorCapacity * ActorConcurrency

\* _benchmark_cost
BenchmarkCost(bm) ==
    LET limit == IF bm.concurrent_workers > 0 THEN bm.concurrent_workers
                 ELSE SchedulerCapacity
        ordinary == Min({limit, PlannedWorkerCount(bm)})
    IN [requests |-> PlannedWorkerCount(bm),
        tokens |-> PlannedTokenBudget(bm),
        concurrency |-> IF ~IsNone(bm.cache_probe) THEN Min({limit, bm.cache_probe.trials})
                        ELSE IF bm.every THEN Min({ordinary, 1}) ELSE ordinary]

IntervalOccurrences(start, endsAt, every) == Max({0, ((endsAt - start) \div every) + 1})

\* _plan_occurrences: the closed form for an interval, a count of the preview
\* for a calendar.  The preview is given a start even when the plan has none, so
\* it does not see that such a plan fires at once.
PlanOccurrences(plan) ==
    IF plan.recurrence.kind = "interval"
    THEN Min({plan.max_occurrences,
              IntervalOccurrences(plan.start, plan.ends_at, plan.recurrence.every)})
    ELSE Len(Preview(plan.recurrence, plan.start, FALSE, plan.ends_at,
                     plan.max_occurrences))

\* The Runners and plan occurrences, as <<benchmark, how many of it>>.
OrdinaryWork(w) ==
    [i \in DOMAIN w.runners |-> <<w.runners[i], 1>>]
        \o IF IsNone(w.plan) THEN <<>> ELSE <<<<w.plan.benchmark, PlanOccurrences(w.plan)>>>>

\* The template of a task definition, with the limit the estimate gives it.
EstimatedBenchmark(bm) ==
    IF bm.concurrent_workers > 0 THEN bm
    ELSE [bm EXCEPT !.concurrent_workers = SchedulerCapacity]

NoEstimate == [error |-> FALSE, runners |-> 0, requests |-> 0, max_concurrency |-> 0,
               peak_requests |-> 0]

\* assess_workload: the metrics of ordinary work and of a task definition.
Metrics(work, task, tokens) ==
    LET Over(f(_)) == SumOf([i \in DOMAIN work |-> f(BenchmarkCost(work[i][1])) * work[i][2]])
        ordinary == SumOf([i \in DOMAIN work |-> work[i][2]])
        widest == MaxOr0({BenchmarkCost(work[i][1]).concurrency : i \in DOMAIN work})
        peak == ordinary * widest + task.peak_requests
        runners == ordinary + task.runners
        width == Max({widest, task.max_concurrency})
        requested == Min({peak, Min({runners, SchedulerSlots}) * width, RuntimeWorkers})
        effective == Min({requested, SchedulerCapacity})
    IN [error |-> task.error,
        planned_runners |-> runners,
        provider_requests |-> Over(LAMBDA c : c.requests) + task.requests,
        token_budget |-> Over(LAMBDA c : c.tokens) + tokens,
        max_runner_concurrency |-> width,
        effective_concurrency |-> effective,
        ray_actor_demand |-> CeilDiv(effective, ActorConcurrency)]

Assess(w) ==
    IF IsNone(w.task) THEN Metrics(OrdinaryWork(w), NoEstimate, 0)
    ELSE Metrics(OrdinaryWork(w),
                 Estimate(w.task.recipe, EstimatedBenchmark(w.task.benchmark)),
                 EstimateTokenBudget(w.task.recipe, w.task.benchmark))

CampaignBudgetMetrics == {"planned_runners", "provider_requests", "token_budget"}

\* blocking_risks: totals block only when the guard is told to admit Campaigns.
Blocked(metrics) ==
    \E m \in DOMAIN Limits :
        /\ metrics[m] > Limits[m]
        /\ m \notin CampaignBudgetMetrics \/ CampaignAdmission

-----------------------------------------------------------------------------
(* TaskCompiler.compile and TaskAssembler.assemble.                        *)

\* Rows of every instance; an instance is a coordinate and a trial.
Compile(recipe) ==
    [inst \in {<<dims, trial>> : dims \in MatrixCoordinates(recipe),
                                 trial \in 0..(recipe.trials - 1)} |->
        ExpandGraph(recipe, InstanceContext(recipe, inst[1], inst[2]))]

\* _runner_template: the seeds the Runner's benchmark is given.
RunnerTemplate(recipe, inst, row) ==
    [dataset_seed |-> row.seed,
     shared_prefix_seed |->
        IF row.execution_kind = "atomic" \/ recipe.prefix_seed_scope = "trial"
           \/ row.prefix_seed # NoSeed
        THEN row.prefix_seed
        ELSE FamilyPrefixSeed(InstanceContext(recipe, inst[1], inst[2])),
     message_sources |-> row.sources]

\* _assemble_node: a dispatch is known by its instance and its node.
Assemble(recipe, rowsOf) ==
    UNION {{[dispatch |-> <<inst, rowsOf[inst].rows[i].id>>,
             dependencies |-> {<<inst, d>> : d \in rowsOf[inst].rows[i].deps},
             after_seconds |-> rowsOf[inst].rows[i].after,
             template |-> RunnerTemplate(recipe, inst, rowsOf[inst].rows[i])] :
                i \in DOMAIN rowsOf[inst].rows} : inst \in DOMAIN rowsOf}

-----------------------------------------------------------------------------
Init ==
    /\ workload \in Workloads
    /\ phase = "submitted"
    /\ assessment = None
    /\ table = <<>>
    /\ assembly = {}
    /\ fires = <<>>

BenchmarksOf(w) ==
    ToSet(w.runners) \cup (IF IsNone(w.plan) THEN {} ELSE {w.plan.benchmark})
        \cup (IF IsNone(w.task) THEN {} ELSE {w.task.benchmark})

\* What the models of a submission validate.
ValidWorkload(w) ==
    /\ \A bm \in BenchmarksOf(w) : ValidRequestPlan(bm)
    /\ \/ IsNone(w.task)
       \/ ValidRecipe(w.task.recipe) /\ IsNone(w.task.benchmark.cache_probe)

\* What the guard makes of its estimate.
Admit(metrics) ==
    IF ~metrics.error /\ ~Blocked(metrics)
    THEN phase' = "admitted" /\ assessment' = metrics
    ELSE phase' = "rejected" /\ UNCHANGED assessment

\* A document is validated and estimated before anything is written.
Submit ==
    /\ phase = "submitted"
    /\ IF ValidWorkload(workload) THEN Admit(Assess(workload))
       ELSE phase' = "rejected" /\ UNCHANGED assessment
    /\ UNCHANGED <<workload, table, assembly, fires>>

\* create_campaign compiles the definition inside its transaction ...
CompileTask ==
    /\ phase = "admitted"
    /\ phase' = "compiled"
    /\ table' = IF IsNone(workload.task) THEN <<>> ELSE Compile(workload.task.recipe)
    /\ UNCHANGED <<workload, assessment, assembly, fires>>

\* ... and writes the assembled Runners.
AssembleTask ==
    /\ phase = "compiled"
    /\ phase' = "created"
    /\ assembly' = IF IsNone(workload.task) THEN {} ELSE Assemble(workload.task.recipe, table)
    /\ UNCHANGED <<workload, assessment, table, fires>>

\* The Planner fires the plan until its end or its last occurrence.
Fire ==
    /\ phase = "created"
    /\ ~IsNone(workload.plan)
    /\ LET p == workload.plan
           next == IF fires = <<>> THEN FirstFire(p.recurrence, p.start, p.immediate)
                   ELSE FireAfter(p.recurrence, p.start, Last(fires))
       IN /\ Len(fires) < p.max_occurrences
          /\ next <= Min({p.ends_at, Horizon})
          /\ fires' = Append(fires, next)
    /\ UNCHANGED <<workload, phase, assessment, table, assembly>>

Next == Submit \/ CompileTask \/ AssembleTask \/ Fire

Spec == Init /\ [][Next]_vars

-----------------------------------------------------------------------------
(* What the compiler and the guard promise, against definitions of their   *)
(* own.                                                                    *)

Created == phase = "created"
Tasked == ~IsNone(workload.task)

\* The order a tree stands for: of two children of a serial node everything in
\* the first comes before everything in the second.
RECURSIVE TreeOrder(_, _, _)
TreeOrder(node, dims, path) ==
    IF node.kind \in {"invoke", "run"}
    THEN [ids |-> {Append(path, node.name)}, before |-> {}]
    ELSE LET cs == Children(node, dims, path, 0)
             sub == [i \in DOMAIN cs |-> TreeOrder(cs[i].node, dims, cs[i].path)]
             across == UNION {sub[ij[1]].ids \X sub[ij[2]].ids :
                                ij \in {x \in (DOMAIN cs) \X (DOMAIN cs) : x[1] < x[2]}}
         IN [ids |-> UNION {sub[i].ids : i \in DOMAIN cs},
             before |-> UNION {sub[i].before : i \in DOMAIN cs}
                            \cup IF Serial(node) THEN across ELSE {}]

WorkflowOrder(recipe, dims) ==
    TreeOrder(SequenceOf("", recipe.workflow), dims, <<>>).before

\* The pairs of rows one of which waits for the other.
RowOrder(rows) ==
    UNION {{<<rows[j].id, rows[i].id>> : j \in Ancestors(rows, i)} : i \in DOMAIN rows}

\* Does some node of a tree name what it waits for?
RECURSIVE Explicit(_)
Explicit(node) ==
    \/ "depends_on" \in DOMAIN node /\ node.depends_on # {}
    \/ \E c \in ToSet(Below(node)) : Explicit(c)

\* Every instance that is compiled runs its rows in the order the workflow's tree
\* stands for, whatever repeats of zero, lanes and joins lie between them, and
\* the assembled Runners wait for Runners of their own instance alone.
GraphKeepsTheOrder ==
    Created /\ Tasked =>
        \A inst \in DOMAIN table :
            LET rows == table[inst].rows
                tree == {<<Tail(p[1]), Tail(p[2])>> :
                            p \in WorkflowOrder(workload.task.recipe, inst[1])}
            IN /\ ~table[inst].error
               /\ tree \subseteq RowOrder(rows)
               /\ \/ \E root \in ToSet(workload.task.recipe.workflow) : Explicit(root)
                  \/ RowOrder(rows) \subseteq tree
               /\ \A a \in assembly : a.dispatch[1] = inst =>
                    a.dependencies \subseteq {<<inst, id>> : id \in Ids(rows)}

\* The heaviest set of rows no one of which waits for another.
HeaviestOverlap(rows, weights) ==
    LET order == RowOrder(rows)
        free == {S \in SUBSET Ids(rows) : \A x, y \in S : <<x, y>> \notin order}
    IN MaxOr0({SumOf([i \in DOMAIN rows |->
                        IF rows[i].id \in S THEN weights[rows[i].id] ELSE 0]) : S \in free})

\* The plan has fired for the last time.
PlanIsOver ==
    \/ IsNone(workload.plan)
    \/ Len(fires) = workload.plan.max_occurrences
    \/ LET p == workload.plan
           next == IF fires = <<>> THEN FirstFire(p.recurrence, p.start, p.immediate)
                   ELSE FireAfter(p.recurrence, p.start, Last(fires))
       IN next > Min({p.ends_at, Horizon})

\* The fires the guard may have missed: the first one of a calendar plan without
\* starts_at, which it takes for a plan that waits for its first wall time.
Missed ==
    IF /\ ~IsNone(workload.plan) /\ fires # <<>>
       /\ workload.plan.immediate /\ workload.plan.recurrence.kind = "calendar"
    THEN {0, 1} ELSE {0}

\* The benchmarks of the Runners that were submitted and of those the plan fired,
\* but for the first ones of the plan.
OrdinaryBenchmarks(missed) ==
    workload.runners \o [i \in 1..(Len(fires) - missed) |-> workload.plan.benchmark]

\* The effective concurrency the guard admits a workload by is never less than
\* the requests its Runners can have in flight together: those of a set of rows
\* that do not wait for one another, in every instance at once, and of every
\* Runner that is submitted or that the plan fires until it is over, within the
\* slots, the Runtime and Ray.  Only the immediate first fire of a calendar plan
\* may be missing (_plan_occurrences).
ConcurrencyIsCovered ==
    Created /\ PlanIsOver =>
        LET others == OrdinaryBenchmarks(Max(Missed))
            bm == EstimatedBenchmark(workload.task.benchmark)
            weights(inst) == RowWeights(table[inst].rows, BatchConcurrency(bm))
            instances == SetToSeq(DOMAIN table)
            rowsAtOnce == SumOf([i \in DOMAIN instances |->
                HeaviestOverlap(table[instances[i]].rows, weights(instances[i]))])
            othersAtOnce == SumOf([i \in DOMAIN others |-> BenchmarkCost(others[i]).concurrency])
            widest == MaxOr0({BenchmarkCost(b).concurrency : b \in ToSet(others)}
                \cup UNION {{weights(inst)[id] : id \in Ids(table[inst].rows)} :
                                inst \in DOMAIN table})
        IN assessment.effective_concurrency
                >= Min({rowsAtOnce + othersAtOnce, SchedulerSlots * widest,
                        RuntimeWorkers, SchedulerCapacity})

\* How often the tokens of each request of a sequence are sent: with the request
\* itself, and again with every request that reuses its messages.
TimesSent(names, sources) ==
    LET times[i \in DOMAIN names] ==
            1 + SumOf([j \in 1..(Len(names) - i) |->
                        IF names[i] \in sources[i + j] THEN times[i + j] ELSE 0])
    IN times

\* What the expanded requests of a benchmark really send.
SentTokens(bm) ==
    LET requests == ExpandRequests(bm)
        times == TimesSent([i \in DOMAIN requests |-> requests[i].name],
                           [i \in DOMAIN requests |-> requests[i].sources])
    IN IF IsNone(bm.cache_probe)
       THEN SumOf([i \in DOMAIN requests |-> times[i] * (requests[i].prompt + bm.output)])
       ELSE PlannedWorkerCount(bm) * (bm.prompt + bm.output)

SentRequests(bm) ==
    IF IsNone(bm.cache_probe) THEN Len(ExpandRequests(bm)) ELSE PlannedWorkerCount(bm)

\* The rows of every trial, not of the first alone.
OverInstances(f(_)) ==
    LET instances == SetToSeq(DOMAIN table)
    IN SumOf([i \in DOMAIN instances |-> f(table[instances[i]].rows)])

TaskRequests(rows) == TotalWeight(rows, SentRequests(workload.task.benchmark))

TaskTokens(rows) ==
    LET bm == workload.task.benchmark
        payloads == workload.task.recipe.payloads
        times == TimesSent([i \in DOMAIN rows |-> rows[i].id],
                           [i \in DOMAIN rows |-> rows[i].sources])
    IN SumOf([i \in DOMAIN rows |->
            IF rows[i].execution_kind = "batch" THEN SentTokens(bm)
            ELSE times[i] * (Max({bm.prompt, payloads[rows[i].payload].bytes}) + bm.output)])

\* What the guard compares with its budgets is what the workload comes to: the
\* Runners that are created and fired, the requests their expanded steps send and
\* the tokens of the messages they reuse.  Repetitions, trials, coordinates and
\* occurrences are all counted, none twice; what is missing is at most the
\* immediate first fire of a calendar plan, as a whole.
EstimateIsExact ==
    Created /\ PlanIsOver =>
        \E missed \in Missed :
            LET others == OrdinaryBenchmarks(missed)
                Sum(f(_)) == SumOf([i \in DOMAIN others |-> f(others[i])])
            IN /\ assessment.planned_runners = Cardinality(assembly) + Len(others)
               /\ assessment.provider_requests = Sum(SentRequests) + OverInstances(TaskRequests)
               /\ assessment.token_budget = Sum(SentTokens) + OverInstances(TaskTokens)

Rows(inst) == ToSet(table[inst].rows)

\* The values of the loops of a tree, one row each.
RECURSIVE LoopValues(_)
LoopValues(node) ==
    (IF node.kind = "for_each" THEN ToSet(node.values) ELSE {})
        \cup UNION {LoopValues(c) : c \in ToSet(Below(node))}

\* Two Runners have the same prompts exactly where the author asked for it: the
\* requests of one payload within an instance, and the shared prefix of a family
\* across its trials.  Batches never share their suffixes, no trial repeats the
\* prompts of another, and a loop over prefix seeds uses each of them once.
SeedsAsAuthored ==
    Created /\ Tasked =>
        LET recipe == workload.task.recipe
            Row(a) == CHOOSE r \in Rows(a.dispatch[1]) : r.id = a.dispatch[2]
            Bound(inst, v) == {r \in Rows(inst) : r.prefix_seed = <<"explicit", v>>}
        IN /\ \A a, b \in assembly :
                a # b => (a.template.dataset_seed = b.template.dataset_seed
                            <=> /\ a.dispatch[1] = b.dispatch[1]
                                /\ Row(a).payload # "none" /\ Row(b).payload # "none"
                                /\ recipe.payloads[Row(a).payload].seed
                                        = recipe.payloads[Row(b).payload].seed)
           /\ \A a, b \in assembly :
                /\ recipe.prefix_seed_scope = "family"
                /\ a.dispatch[1][1] = b.dispatch[1][1]
                /\ Row(a).prefix_seed = NoSeed /\ Row(b).prefix_seed = NoSeed
                => a.template.shared_prefix_seed = b.template.shared_prefix_seed
           /\ \A root \in ToSet(recipe.workflow), inst \in DOMAIN table :
                \A v \in LoopValues(root) : Cardinality(Bound(inst, v)) = 1

=============================================================================
