--------------------------- MODULE MCControlPlane ---------------------------
(***************************************************************************)
(* The services of ControlPlane, for TLC, and with them the admission and  *)
(* compilation of a workload, as one more part.                            *)
(***************************************************************************)
EXTENDS MCWorkloadAdmission, ControlPlane

CONSTANTS
    t1, t2, b1, b2,                                                     \* ArtifactCache
    pA, pB, AKey, BKey, OPENAI, k1, k2, k3, url1, url2, model1,         \* ProviderRegistry
    r1, r2,                                                             \* CampaignStatus
    u1, u2                                                              \* ProgressViews

-----------------------------------------------------------------------------
(* Small instances.                                                        *)

\* Two threads, in one process or in two that share the directory.
MCDeployments ==
    {[backend |-> t1 :> b1 @@ t2 :> b1, offline |-> {}],
     [backend |-> t1 :> b1 @@ t2 :> b2, offline |-> {}],
     [backend |-> t1 :> b1 @@ t2 :> b2, offline |-> {b2}]}

\* Provider files: keys in the file and in the environment, static and fetched
\* model lists, one profile that comes and goes, one that changes its address and
\* its key, and a document that is refused.
MCEnvironment == AKey :> k1 @@ BKey :> k2
Profile(base, key, from, mode, models, ttl) ==
    [base |-> base, key |-> key, source |-> from, dest |-> OPENAI, mode |-> mode,
     models |-> models, ttl |-> ttl]
MCDocuments ==
    {pA :> Profile(url1, Nothing, AKey, Nothing, {}, 1)
        @@ pB :> Profile(Nothing, Nothing, BKey, Nothing, {model1}, 1),
     pA :> Profile(url2, k3, Nothing, Nothing, {}, 1),
     pB :> Profile(url2, k3, BKey, Nothing, {}, 1)}

\* Where the Runners of a Campaign come from.
MCForms ==
    {[r \in Runners |-> IF r = r1 THEN x[1] ELSE x[2]] :
        x \in {<<"direct", "plan">>, <<"plan", "task">>, <<"task", "task">>,
               <<"direct", "added">>, <<"added", "task">>}}

\* Benchmarks of Runners that meet in the caches of an actor.
PromptInput(seed, tokens, prefix, mode, repeat, text, dataset) ==
    [seed |-> seed, tokens |-> tokens, prefix_tokens |-> prefix, mode |-> mode,
     repeat_count |-> repeat, text |-> text, dataset |-> dataset]
NoContext == [payload_seed |-> Unset, text |-> Unset, explicit_prefix |-> FALSE]
Payload(seed, text) == [NoContext EXCEPT !.payload_seed = seed, !.text = text]
PromptBenchmark(seed, prefix, requests, default, named, tokenizer, estimate) ==
    [seed |-> seed, prefix_seed |-> prefix, context |-> NoContext, contexts |-> <<>>,
     requests |-> requests, inputs |-> [default |-> default, n |-> named], probe |-> Unset,
     tokenizer |-> tokenizer, estimate |-> estimate]
Concat(size) == PromptInput("s", 9, size, "concatenate", 1, Unset, "data")
Sampled(k, dataset) == PromptInput("s", 9, 0, "sample", k, Unset, dataset)
SomeText == [text |-> "a"]
LiteralInput == PromptInput("s", 9, 0, "sample", 1, SomeText, Unset)

\* A dataset of two records: every other of the requests of an input draws the same.
MCDrawRecord(seed, dataset, tokens) ==
    [record |-> IF Len(seed) = 2 THEN seed[2] % 2 ELSE 0, of |-> dataset]

MCPrograms ==
    {<<PromptBenchmark(<<1>>, Unset, <<"default", "n", "default">>, Concat(2), Concat(3), "t1", TRUE),
       PromptBenchmark(<<1>>, p, <<"default", "n">>, Concat(2), x, tokenizer, TRUE)>> :
        p \in {Unset, <<5>>}, x \in {Concat(4), LiteralInput}, tokenizer \in {"t1", "t2"}}
    \cup   \* batches, and an invocation of a payload
    {<<PromptBenchmark(<<1>>, <<5>>, <<"default", "default">>, Concat(2), Concat(3), "t1", TRUE),
       [PromptBenchmark(<<2>>, <<5>>, <<"default", "n">>, Concat(2), Concat(2), "t1", TRUE)
            EXCEPT !.context.explicit_prefix = explicit],
       [PromptBenchmark(<<1>>, <<6>>, <<"default">>, Concat(2), Concat(3), "t1", TRUE)
            EXCEPT !.context = context]>> :
        explicit \in BOOLEAN, context \in {NoContext, Payload(<<8>>, Unset)}}
    \cup   \* invocations that share a Runner
    {<<[PromptBenchmark(<<1>>, Unset, <<"default", "default", "default">>, x, x, "t1", TRUE)
            EXCEPT !.contexts = <<Payload(<<8>>, Unset), y, Payload(<<8>>, Unset)>>]>> :
        x \in {Concat(2), Sampled(1, "data")},
        y \in {Payload(<<9>>, Unset), Payload(<<8>>, SomeText)}}
    \cup
    {<<PromptBenchmark(<<1>>, Unset, <<"default", "default", "n", "default">>, Sampled(k, dataset),
                       Sampled(1, dataset), "t1", estimate)>> :
        k \in {1, 2}, dataset \in {Unset, "data"}, estimate \in BOOLEAN}
    \cup
    {<<[PromptBenchmark(<<1>>, Unset, <<>>, Sampled(1, Unset), Sampled(1, Unset), "t1", TRUE)
            EXCEPT !.probe = [trials |-> 2, repeats |-> 2, exact |-> exact]]>> : exact \in BOOLEAN}

\* Two Runners of a Campaign, one with two Workers.
MCCampaignOf == [u \in Units |-> 1]
MCBenchmarkOf ==
    [u \in Units |-> [repeat |-> IF u = u1 THEN 2 ELSE 1, steps |-> IF u = u1 THEN 0 ELSE 1,
                      probe |-> Null]]

-----------------------------------------------------------------------------
(* The parts together.                                                     *)

WorkloadOff ==
    /\ workload = Off /\ phase = Off /\ assessment = Off /\ table = Off /\ assembly = Off
    /\ fires = Off

MCInit ==
    /\ part \in Services \cup {"workload"}
    /\ IF part = "workload" THEN Init ELSE WorkloadOff
    /\ ServicesInit

MCNext ==
    \/ ServicesNext /\ UNCHANGED <<part, vars>>
    \/ part = "workload" /\ Next /\ UNCHANGED <<part, serviceVars>>

MCSpec == MCInit /\ [][MCNext]_<<part, vars, serviceVars>> /\ ServicesFairness

-----------------------------------------------------------------------------
(* Properties.                                                             *)

\* The graph the compiler makes of a workflow has the order its author wrote
\* (sequence, parallel, repeat and for_each with empty branches and lanes), and
\* the seeds of its Runners repeat and differ as the recipe says (compiler/tasks.py).
CompiledAsAuthored == part = "workload" => GraphKeepsTheOrder /\ SeedsAsAuthored

\* The guard's estimate of Runners, requests, tokens and concurrency is what the
\* compiled workload comes to, or covers it (compiler/safety.py).
EstimateCovers == part = "workload" => EstimateIsExact /\ ConcurrencyIsCovered

\* The fires of a plan are the instants a reader of its recurrence expects,
\* across clock changes (runtime/planner.py).
PlanFiresAreExpected == part = "workload" => FiresAreExpected
=============================================================================
