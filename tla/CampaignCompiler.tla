-------------------------- MODULE CampaignCompiler --------------------------
(***************************************************************************)
(* The compiler of task definitions (compiler/tasks.py): the workflow of a *)
(* recipe is a tree of invoke, run, repeat, parallel, sequence and         *)
(* for_each nodes, expanded once per matrix coordinate and trial into rows *)
(* that carry their dependencies, delay and seeds.                         *)
(*                                                                         *)
(* A node of the tree is a record with its kind and name.  A node_id is    *)
(* the sequence of names the code joins with dots, and a reference of      *)
(* length one is a name without a dot.  A hash of named material is the    *)
(* tuple of that material: SHA-256 is taken to be injective.               *)
(***************************************************************************)
EXTENDS Integers, Functions, SequencesExt

CONSTANTS
    MAX_REPEAT_COUNT,
    MAX_GRAPH_DEPTH,
    MAX_NODES_PER_INSTANCE,
    MAX_INSTANCES_PER_DEFINITION,
    MAX_PLANNED_SPAN_SECONDS,
    SeedSpace       \* the number of unsigned seeds: 2^64

\* The largest member, 0 when there is none: max(..., default=0).
MaxOr0(S) == IF S = {} THEN 0 ELSE Max(S)
SumOf(s) == FoldLeft(LAMBDA a, x : a + x, 0, s)

-----------------------------------------------------------------------------
(* Scalars: a literal, or the name of a dimension or loop variable.  Every *)
(* use of a scalar refuses negative numbers, so one of them stands for the *)
(* unknown dimension that resolve refuses.                                 *)

Lit(n) == [literal |-> n]
Dim(d) == [dimension |-> d]
Unresolved == -1
IsDim(v) == "dimension" \in DOMAIN v

Resolve(v, dims) ==
    CASE "literal" \in DOMAIN v -> v.literal
      [] IsDim(v) /\ v.dimension \in DOMAIN dims -> dims[v.dimension]
      [] OTHER -> Unresolved

NonNegative(v, dims) == Resolve(v, dims) >= 0

-----------------------------------------------------------------------------
(* InstanceContext: the seeds of one matrix coordinate and trial.          *)

FamilyPrefixSeed(ctx) == <<"family-prefix-v1", ctx.seed, ctx.dims>>

BatchSeed(ctx, id) ==
    IF ctx.scope = "family"
    THEN <<"family-suffix-v1", FamilyPrefixSeed(ctx), ctx.trial, id>>
    ELSE <<"batch-v1", ctx.seed, ctx.dims, ctx.trial, id>>

PayloadSeed(ctx, payload) ==
    <<"payload", ctx.seed, ctx.dims, ctx.trial, ctx.payloads[payload].seed>>

NoSeed == <<"none">>

\* A number drawn from a digest: any function of the material will do.
Digest(material) == Len(material.id) + material.trial

\* resolve_prefix_seed: a draw from a pool, or a scalar; none if the node has none.
PrefixSeed(ctx, value, id) ==
    IF "none" \in DOMAIN value THEN NoSeed
    ELSE IF "pick" \in DOMAIN value
    THEN LET n == Digest([trial |-> ctx.trial, id |-> id]) % Len(value.pick)
         IN <<"explicit", value.pick[n + 1]>>
    ELSE <<"explicit", Resolve(value, ctx.dims)>>

\* A candidate of a pool, from a digest of the seed and the index.
PoolDigest(seed, index) == (seed * index) % SeedSpace

\* The next number that is not used yet, round the end of the seeds.
Unused(used, candidate) ==
    (candidate + Min({k \in 0..(SeedSpace - 1) :
                        (candidate + k) % SeedSpace \notin ToSet(used)})) % SeedSpace

\* GeneratedSeedPool.values.
GeneratedPool(seed, count) ==
    FoldLeft(LAMBDA used, i : Append(used, Unused(used, PoolDigest(seed, i - 1))),
             <<>>, [i \in 1..count |-> i])

-----------------------------------------------------------------------------
(* GraphBuilder: the rows so far, the frontier and whether the compiler    *)
(* has refused the graph.                                                  *)

EmptyBuilder == [rows |-> <<>>, out |-> <<>>, error |-> FALSE]
Ids(rows) == {rows[i].id : i \in DOMAIN rows}
Fail(b, condition) == [b EXCEPT !.error = @ \/ condition]

Emit(b, row) ==
    LET refused == \/ row.id \in Ids(b.rows)
                   \/ row.after < 0
                   \/ Len(b.rows) >= MAX_NODES_PER_INSTANCE
    IN [rows |-> IF refused THEN b.rows ELSE Append(b.rows, row),
        out |-> <<row.id>>,
        error |-> b.error \/ refused]

QualifiedReference(path, ref) == IF Len(ref) = 1 THEN path \o ref ELSE ref

Dependencies(frontier, path, depends) ==
    ToSet(frontier) \cup {QualifiedReference(path, d.step) : d \in depends}

\* InvokeNode.expand: one request with a payload.
ExpandInvoke(ctx, node, b, path, delay) ==
    LET known == node.payload \in DOMAIN ctx.payloads
        row == [id |-> Append(path, node.name),
                deps |-> Dependencies(b.out, path, node.depends_on),
                after |-> delay + Resolve(node.after, ctx.dims),
                payload |-> node.payload,
                seed |-> IF known THEN PayloadSeed(ctx, node.payload) ELSE NoSeed,
                sources |-> {QualifiedReference(path, d.step) :
                                d \in {x \in node.depends_on : x.reuse_messages}},
                execution_kind |-> "atomic",
                prefix_seed |-> NoSeed]
    IN Fail(Emit(b, row), ~known \/ ~NonNegative(node.after, ctx.dims))

\* RunNode.expand: one Runner of many Workers.
ExpandRun(ctx, node, b, path, delay) ==
    LET id == Append(path, node.name)
        prefix == PrefixSeed(ctx, node.prefix_seed, id)
        row == [id |-> id,
                deps |-> Dependencies(b.out, path, node.depends_on),
                after |-> delay + Resolve(node.after, ctx.dims),
                payload |-> "none",
                seed |-> BatchSeed(ctx, id),
                sources |-> {},
                execution_kind |-> "batch",
                prefix_seed |-> prefix]
    IN Fail(Emit(b, row), \/ ~NonNegative(node.after, ctx.dims)
                          \/ prefix = <<"explicit", Unresolved>>)

-----------------------------------------------------------------------------
(* The children of a composite node: each with its path and the delay it   *)
(* inherits.                                                               *)

Child(node, path, delay) == [node |-> node, path |-> path, delay |-> delay]

RepeatChildren(node, dims, path, delay) ==
    LET every == Resolve(node.every, dims) IN
    [i \in 1..Resolve(node.count, dims) |->
        Child(node.node, path \o <<node.name, ToString(i)>>,
              every + IF i = 1 THEN delay ELSE 0)]

RepeatError(node, dims) ==
    \/ Resolve(node.count, dims) \notin 0..MAX_REPEAT_COUNT
    \/ ~NonNegative(node.every, dims)

ParallelChildren(node, dims, path, delay) ==
    LET d == delay + Resolve(node.after, dims)
        inner == Append(path, node.name)
    IN IF "branches" \in DOMAIN node
       THEN [i \in DOMAIN node.branches |-> Child(node.branches[i], inner, d)]
       ELSE [i \in 1..Resolve(node.count, dims) |->
                Child(node.node, Append(inner, ToString(i)), d)]

ParallelError(node, dims) ==
    \/ ~NonNegative(node.after, dims)
    \/ /\ "count" \in DOMAIN node
       /\ Resolve(node.count, dims) \notin 1..MAX_NODES_PER_INSTANCE

\* The delay is for the first step alone.
SequenceChildren(node, dims, path, delay) ==
    [i \in DOMAIN node.steps |->
        Child(node.steps[i], Append(path, node.name),
              IF i = 1 THEN delay + Resolve(node.after, dims) ELSE 0)]

\* _bind_loop_value: the references to the variable become the value.
RECURSIVE BindLoopValue(_, _, _)
BindLoopValue(node, variable, value) ==
    [f \in DOMAIN node |->
        CASE f \in {"after", "every", "count", "prefix_seed"} ->
                IF node[f] = Dim(variable) THEN Lit(value) ELSE node[f]
          [] f = "node" -> BindLoopValue(node[f], variable, value)
          [] f \in {"branches", "steps"} ->
                [i \in DOMAIN node[f] |-> BindLoopValue(node[f][i], variable, value)]
          [] OTHER -> node[f]]

\* The nodes directly below a node of the tree.
Below(node) ==
    CASE "node" \in DOMAIN node -> <<node.node>>
      [] "branches" \in DOMAIN node -> node.branches
      [] "steps" \in DOMAIN node -> node.steps
      [] OTHER -> <<>>

\* The loop variables a tree uses: what _bind_loop_value and
\* _validate_loop_names look for.
RECURSIVE LoopVariables(_)
LoopVariables(node) ==
    (IF node.kind = "for_each" THEN {node.variable} ELSE {})
        \cup UNION {LoopVariables(c) : c \in ToSet(Below(node))}

SequenceOf(name, steps) ==
    [kind |-> "sequence", name |-> name, after |-> Lit(0), steps |-> steps]

LaneSize(n, lanes, k) == (n \div lanes) + IF k <= n % lanes THEN 1 ELSE 0

\* expanded_lanes: contiguous slices, the first ones longer by one.
ExpandedLanes(node) ==
    LET n == Len(node.values)
        lanes == Min({node.parallelism, n})
        offset == [k \in 1..lanes |-> SumOf([j \in 1..(k - 1) |-> LaneSize(n, lanes, j)])]
    IN [k \in 1..lanes |->
        SequenceOf("lane_" \o ToString(k),
            [m \in 1..LaneSize(n, lanes, k) |->
                SequenceOf("member_" \o ToString(m),
                    <<BindLoopValue(node.node, node.variable,
                                    node.values[offset[k] + m])>>)])]

ForEachChildren(node, dims, path, delay) ==
    LET lanes == ExpandedLanes(node) IN
    [k \in DOMAIN lanes |->
        Child(lanes[k], Append(path, node.name), delay + Resolve(node.after, dims))]

ForEachError(node, dims) ==
    ~NonNegative(node.after, dims) \/ node.variable \in LoopVariables(node.node)

Children(node, dims, path, delay) ==
    CASE node.kind = "repeat" -> RepeatChildren(node, dims, path, delay)
      [] node.kind = "parallel" -> ParallelChildren(node, dims, path, delay)
      [] node.kind = "sequence" -> SequenceChildren(node, dims, path, delay)
      [] node.kind = "for_each" -> ForEachChildren(node, dims, path, delay)

CompositeError(node, dims) ==
    CASE node.kind = "repeat" -> RepeatError(node, dims)
      [] node.kind = "parallel" -> ParallelError(node, dims)
      [] node.kind = "sequence" -> ~NonNegative(node.after, dims)
      [] node.kind = "for_each" -> ForEachError(node, dims)

Serial(node) == node.kind \in {"repeat", "sequence"}

-----------------------------------------------------------------------------
(* expand: a serial node threads the frontier through its children, the    *)
(* children of the others share the incoming one.                          *)

RECURSIVE Expand(_, _, _, _, _)

\* One child after the other.
ExpandSerial(ctx, children, b) ==
    FoldLeft(LAMBDA acc, c : Expand(ctx, c.node, acc, c.path, c.delay), b, children)

\* Variant: the frontier after the branches is the one of the last of them.
JoinLastBranch(ctx, children, b) ==
    FoldLeft(LAMBDA acc, c :
                Expand(ctx, c.node, [acc EXCEPT !.out = b.out], c.path, c.delay),
             [b EXCEPT !.out = <<>>], children)

\* All of them from the incoming frontier; their outgoing ones are joined.
ExpandFork(ctx, children, b) ==
    FoldLeft(LAMBDA acc, c :
                LET e == Expand(ctx, c.node, [acc EXCEPT !.out = b.out], c.path, c.delay)
                IN [e EXCEPT !.out = acc.out \o @],
             [b EXCEPT !.out = <<>>], children)

Expand(ctx, node, b, path, delay) ==
    IF b.error THEN b
    ELSE CASE node.kind = "invoke" -> ExpandInvoke(ctx, node, b, path, delay)
           [] node.kind = "run" -> ExpandRun(ctx, node, b, path, delay)
           [] CompositeError(node, ctx.dims) -> Fail(b, TRUE)
           [] OTHER ->
                LET children == Children(node, ctx.dims, path, delay) IN
                IF Serial(node) THEN ExpandSerial(ctx, children, b)
                                ELSE ExpandFork(ctx, children, b)

\* What the models refuse of a node: a batch that reuses messages, a loop that
\* takes a value twice, a parallel node of both forms or none.
RECURSIVE WellFormed(_)
WellFormed(node) ==
    /\ node.kind = "run" => \A d \in node.depends_on : ~d.reuse_messages
    /\ node.kind = "for_each" => IsInjective(node.values)
    /\ node.kind = "parallel" => ("branches" \in DOMAIN node) # ("count" \in DOMAIN node)
    /\ \A c \in ToSet(Below(node)) : WellFormed(c)

RECURSIVE Depth(_)
Depth(node) == 1 + MaxOr0({Depth(c) : c \in ToSet(Below(node))})

\* The rows before i that row i waits for, directly or not.
RECURSIVE Ancestors(_, _)
Ancestors(rows, i) ==
    LET direct == {j \in 1..(i - 1) : rows[j].id \in rows[i].deps}
    IN direct \cup UNION {Ancestors(rows, j) : j \in direct}

\* What TaskGraph.expand refuses of a row: a dependency that is not earlier, a
\* message source that is no ancestor or no single request.
RowError(rows, i) ==
    \/ ~(rows[i].deps \subseteq {rows[j].id : j \in 1..(i - 1)})
    \/ \E s \in rows[i].sources :
            ~\E j \in Ancestors(rows, i) :
                rows[j].id = s /\ rows[j].execution_kind = "atomic"

\* TaskGraph.from_recipe and TaskGraph.expand.
ExpandGraph(recipe, ctx) ==
    LET roots == recipe.workflow
        b == ExpandSerial(ctx, [i \in DOMAIN roots |-> Child(roots[i], <<>>, 0)],
                          EmptyBuilder)
        malformed == \/ \E i \in DOMAIN roots : Depth(roots[i]) > MAX_GRAPH_DEPTH
                     \/ \E i \in DOMAIN roots : ~WellFormed(roots[i])
                     \/ \E i \in DOMAIN roots :
                            LoopVariables(roots[i]) \cap DOMAIN recipe.matrix # {}
    IN Fail(b, malformed \/ \E i \in DOMAIN b.rows : RowError(b.rows, i))

-----------------------------------------------------------------------------
(* The whole recipe.                                                       *)

\* _matrix_coordinates: the product of the dimensions.
MatrixCoordinates(recipe) ==
    {c \in [DOMAIN recipe.matrix -> UNION {recipe.matrix[d] : d \in DOMAIN recipe.matrix}] :
        \A d \in DOMAIN recipe.matrix : c[d] \in recipe.matrix[d]}

InstanceCount(recipe) == Cardinality(MatrixCoordinates(recipe)) * recipe.trials

InstanceContext(recipe, dims, trial) ==
    [seed |-> recipe.seed, dims |-> dims, trial |-> trial,
     payloads |-> recipe.payloads, scope |-> recipe.prefix_seed_scope]

\* _planned_span: the latest instant a delay alone can put off a row to.
PlannedSpan(rows) ==
    LET offset[i \in DOMAIN rows] ==
            rows[i].after + MaxOr0({offset[j] : j \in {k \in 1..(i - 1) :
                                                rows[k].id \in rows[i].deps}})
    IN MaxOr0({offset[i] : i \in DOMAIN rows})

\* TaskCompiler.validate_recipe, on the first trial of every coordinate.
ValidRecipe(recipe) ==
    /\ InstanceCount(recipe) <= MAX_INSTANCES_PER_DEFINITION
    /\ \A dims \in MatrixCoordinates(recipe) :
        LET g == ExpandGraph(recipe, InstanceContext(recipe, dims, 0)) IN
        /\ ~g.error
        /\ \/ recipe.prefix_seed_scope = "trial"
           \/ \A i \in DOMAIN g.rows : g.rows[i].execution_kind = "batch"
        /\ PlannedSpan(g.rows) <= MAX_PLANNED_SPAN_SECONDS

\* Variant: the branches of a parallel node are taken to run one by one.
PeakOfLargestBranch(node, weights) == MaxOr0(ToSet(weights))

\* How the children of a node overlap.
Overlap(node, weights) ==
    IF Serial(node) THEN MaxOr0(ToSet(weights)) ELSE SumOf(weights)

\* _weighted_peak: a bound on what may run at the same time below a node.
RECURSIVE WeightedPeak(_, _, _, _)
WeightedPeak(node, dims, weights, path) ==
    IF node.kind \in {"invoke", "run"}
    THEN LET id == Append(path, node.name)
         IN IF id \in DOMAIN weights THEN weights[id] ELSE 0
    ELSE LET children == Children(node, dims, path, 0)
         IN Overlap(node, [i \in DOMAIN children |->
                WeightedPeak(children[i].node, dims, weights, children[i].path)])

PeakOf(recipe, dims, weights) ==
    MaxOr0({WeightedPeak(root, dims, weights, <<>>) : root \in ToSet(recipe.workflow)})

=============================================================================
