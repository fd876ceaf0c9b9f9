---------------------------- MODULE ControlPlane ----------------------------
(***************************************************************************)
(* The services around the execution of Runners: the artifact caches, the  *)
(* Provider registry, the trusted keys, the status of a Campaign, and      *)
(* inside a Worker the probe queue, the request threads and the            *)
(* preparation of prompts, with the progress documents.                    *)
(*                                                                         *)
(* These services share no state.  A behaviour is one of a single service, *)
(* the one chosen at the start (part); the variables of the others stay    *)
(* Off.                                                                    *)
(***************************************************************************)
EXTENDS Integers, Sequences, FiniteSets

CONSTANTS
    Nothing, Off,
    \* ArtifactCache
    Threads, Backends, Commits, main, Deployments, MaxCalls, MaxFaults,
    \* ProviderRegistry
    Providers, Callers, Documents, Environment, MaxReloads,
    \* TrustedKeys
    FileKeys, ClientKeys, Admins, Bad, Grace, Interval, MaxTime, MaxWrites,
    \* CampaignStatus
    Runners, Forms, NoAnswer,
    \* ProbeQueue
    Families, Repeats, Slots, Idle, Claiming,
    \* RequestThreads
    Total, Chunk, Buffer, Senders,
    \* PromptPreparation
    Actors, Programs, MaxCalibrations, MaxPlans, MaxPrefixBytes, MaxRestarts, Unset,
    DrawRecord(_, _, _),
    \* ProgressViews
    Units, CampaignOf, BenchmarkOf, Null

VARIABLES
    part,
    kind, backend, offline, head, snap, ref, target, entries, holder, job, frozen, calls, faults,
    document, profiles, generation, names, error, cache, call, history,
    now, file, active, previous, nextCheck, noticed, user, row, transaction, lastWrite, writes,
    source, runner, node, stopping, plan, instance, client, poll, seen, emitted, answer,
    delayed, left, ready, skipped, inflight, queueClosed, timers, slot, slotEnded, results, failed,
    late,
    streamed, grouped, nextIndex, nextChunk, pending, prepared, sender, broken, stop, overdue,
    collected,
    benchmarks, calibrations, promptPlans, prefixBytes, prompt, restarts,
    unit, worker, handle, waiting, pool, sampled

\* Nothing and main are no commits, there is an oldest commit, and every thread of
\* a deployment runs in a process.
ASSUME ArtifactsAssumption ==
    /\ Commits \subseteq Nat /\ \E c \in Commits : \A d \in Commits : c <= d
    /\ Nothing \notin Commits /\ main \notin Commits
    /\ \A d \in Deployments : d.backend \in [Threads -> Backends]

\* Nothing is no key and no time, and there is a first key file.
ASSUME KeysAssumption ==
    /\ FileKeys # {} /\ Nothing \notin FileKeys /\ Nothing \notin Nat
    /\ Grace \in Nat /\ Interval \in Nat

\* A Campaign has finitely many Runners, each from one kind of source.
ASSUME StatusAssumption ==
    /\ IsFiniteSet(Runners)
    /\ \A f \in Forms : f \in [Runners -> {"direct", "added", "plan", "task"}]

\* A probe has finitely many families, and a thread.
ASSUME ProbesAssumption ==
    /\ IsFiniteSet(Families) /\ Families \subseteq Nat /\ Repeats \in Nat
    /\ IsFiniteSet(Slots) /\ Slots # {}
    /\ Idle # Claiming /\ {Idle, Claiming} \cap (Families \X (0..Repeats)) = {}

\* PreparedStream refuses an empty chunk or buffer, and there are as many threads as
\* requests or as num_concurrent_requests.
ASSUME ThreadsAssumption ==
    /\ Total \in Nat /\ Chunk \in Nat \ {0} /\ Buffer \in Nat \ {0}
    /\ Senders # {} \/ Total = 0

\* The caches hold an entry at least; a Runner's requests name its inputs, of which
\* one is the default, and its seed and those of payloads are those of no named
\* input; invocations that share a Runner have a payload each (GroupedBenchmarkConfig,
\* CompiledTaskContext).
ASSUME PromptsAssumption ==
    /\ MaxCalibrations \in Nat \ {0} /\ MaxPlans \in Nat \ {0} /\ MaxPrefixBytes \in Nat
    /\ \A p \in Programs : \A i \in DOMAIN p : LET b == p[i] IN
            /\ b.requests \in Seq(DOMAIN b.inputs) /\ "default" \in DOMAIN b.inputs
            /\ DOMAIN b.seed = {1}
            /\ b.context.payload_seed # Unset => DOMAIN b.context.payload_seed = {1}
            /\ b.contexts # <<>> =>
                /\ b.probe = Unset /\ DOMAIN b.contexts = DOMAIN b.requests
                /\ \A k \in DOMAIN b.contexts :
                    /\ b.contexts[k].payload_seed # Unset /\ ~b.contexts[k].explicit_prefix
                    /\ DOMAIN b.contexts[k].payload_seed = {1}
            /\ \A n \in DOMAIN b.inputs : b.inputs[n].prefix_tokens \in Nat

\* A Campaign has finitely many Runners, each with a benchmark that the configuration
\* accepts, and Null is none of the values it stands for the lack of.
ASSUME ViewsAssumption ==
    /\ IsFiniteSet(Units)
    /\ \A u \in Units : LET b == BenchmarkOf[u] IN
            /\ b.repeat \in Nat /\ b.steps \in Nat
            /\ b.probe # Null => b.probe.trials \in Nat /\ b.probe.repeats \in Nat
    /\ Null \notin {"queued", "running", "terminal"}
    /\ Null \notin [phase : {"creating", "submitting", "aggregating", "finished"},
                    created : Nat, admitted : BOOLEAN]
    /\ Null \notin [state : {"created", "submitted"}, at : BOOLEAN]

-----------------------------------------------------------------------------
(* The services.                                                           *)

A == INSTANCE ArtifactCache WITH None <- Nothing
P == INSTANCE ProviderRegistry WITH None <- Nothing
K == INSTANCE TrustedKeys WITH None <- Nothing
C == INSTANCE CampaignStatus
Q == INSTANCE ProbeQueue
T == INSTANCE RequestThreads
I == INSTANCE PromptPreparation
V == INSTANCE ProgressViews

Services ==
    {"artifacts", "providers", "keys", "status", "probes", "threads", "prompts", "views"}

ArtifactsOff ==
    /\ kind = Off /\ backend = Off /\ offline = Off /\ head = Off /\ snap = Off /\ ref = Off
    /\ target = Off /\ entries = Off /\ holder = Off /\ job = Off /\ frozen = Off /\ calls = Off
    /\ faults = Off
ProvidersOff ==
    /\ document = Off /\ profiles = Off /\ generation = Off /\ names = Off /\ error = Off
    /\ cache = Off /\ call = Off /\ history = Off
KeysOff ==
    /\ now = Off /\ file = Off /\ active = Off /\ previous = Off /\ nextCheck = Off /\ noticed = Off
    /\ user = Off /\ row = Off /\ transaction = Off /\ lastWrite = Off /\ writes = Off
StatusOff ==
    /\ source = Off /\ runner = Off /\ node = Off /\ stopping = Off /\ plan = Off /\ instance = Off
    /\ client = Off /\ poll = Off /\ seen = Off /\ emitted = Off /\ answer = Off
ProbesOff ==
    /\ delayed = Off /\ left = Off /\ ready = Off /\ skipped = Off /\ inflight = Off
    /\ queueClosed = Off /\ timers = Off /\ slot = Off /\ slotEnded = Off /\ results = Off
    /\ failed = Off /\ late = Off
ThreadsOff ==
    /\ streamed = Off /\ grouped = Off /\ nextIndex = Off /\ nextChunk = Off /\ pending = Off
    /\ prepared = Off /\ sender = Off /\ broken = Off /\ stop = Off /\ overdue = Off
    /\ collected = Off
PromptsOff ==
    /\ benchmarks = Off /\ calibrations = Off /\ promptPlans = Off /\ prefixBytes = Off
    /\ prompt = Off /\ restarts = Off
ViewsOff ==
    /\ unit = Off /\ worker = Off /\ handle = Off /\ waiting = Off /\ pool = Off /\ sampled = Off

ServicesInit ==
    /\ IF part = "artifacts" THEN A!Init ELSE ArtifactsOff
    /\ IF part = "providers" THEN P!Init ELSE ProvidersOff
    /\ IF part = "keys" THEN K!Init ELSE KeysOff
    /\ IF part = "status" THEN C!Init ELSE StatusOff
    /\ IF part = "probes" THEN Q!Init ELSE ProbesOff
    /\ IF part = "threads" THEN T!Init ELSE ThreadsOff
    /\ IF part = "prompts" THEN I!Init ELSE PromptsOff
    /\ IF part = "views" THEN V!Init ELSE ViewsOff

artifactVars ==
    <<kind, backend, offline, head, snap, ref, target, entries, holder, job, frozen, calls, faults>>
providerVars == <<document, profiles, generation, names, error, cache, call, history>>
keyVars ==
    <<now, file, active, previous, nextCheck, noticed, user, row, transaction, lastWrite, writes>>
statusVars ==
    <<source, runner, node, stopping, plan, instance, client, poll, seen, emitted, answer>>
probeVars ==
    <<delayed, left, ready, skipped, inflight, queueClosed, timers, slot, slotEnded, results,
      failed, late>>
threadVars ==
    <<streamed, grouped, nextIndex, nextChunk, pending, prepared, sender, broken, stop, overdue,
      collected>>
promptVars == <<benchmarks, calibrations, promptPlans, prefixBytes, prompt, restarts>>
viewVars == <<unit, worker, handle, waiting, pool, sampled>>
serviceVars ==
    <<artifactVars, providerVars, keyVars, statusVars, probeVars, threadVars, promptVars, viewVars>>

ServicesNext ==
    \/ part = "artifacts" /\ A!Next
       /\ UNCHANGED <<providerVars, keyVars, statusVars, probeVars, threadVars, promptVars, viewVars>>
    \/ part = "providers" /\ P!Next
       /\ UNCHANGED <<artifactVars, keyVars, statusVars, probeVars, threadVars, promptVars, viewVars>>
    \/ part = "keys" /\ K!Next
       /\ UNCHANGED <<artifactVars, providerVars, statusVars, probeVars, threadVars, promptVars, viewVars>>
    \/ part = "status" /\ C!Next
       /\ UNCHANGED <<artifactVars, providerVars, keyVars, probeVars, threadVars, promptVars, viewVars>>
    \/ part = "probes" /\ Q!Next
       /\ UNCHANGED <<artifactVars, providerVars, keyVars, statusVars, threadVars, promptVars, viewVars>>
    \/ part = "threads" /\ T!Next
       /\ UNCHANGED <<artifactVars, providerVars, keyVars, statusVars, probeVars, promptVars, viewVars>>
    \/ part = "prompts" /\ I!Next
       /\ UNCHANGED <<artifactVars, providerVars, keyVars, statusVars, probeVars, threadVars, viewVars>>
    \/ part = "views" /\ V!Next
       /\ UNCHANGED <<artifactVars, providerVars, keyVars, statusVars, probeVars, threadVars, promptVars>>

\* The fairness of ArtifactCache and CampaignStatus.
ServicesFairness ==
    /\ \A t \in Threads : WF_artifactVars(part = "artifacts" /\ A!Resolve(t))
    /\ WF_statusVars(part = "status" /\ C!PollCampaign)
    /\ WF_statusVars(part = "status" /\ (\E r \in Runners : C!PollRunner(r)))
    /\ WF_statusVars(part = "status" /\ C!ReturnRunners)

ServicesSpec ==
    /\ part \in Services /\ ServicesInit
    /\ [][ServicesNext /\ UNCHANGED part]_<<part, serviceVars>>
    /\ ServicesFairness

-----------------------------------------------------------------------------
(* Properties.                                                             *)

\* A Runner executes the content its revision was frozen with, although the
\* repository moves, directories vanish and two processes share the cache: a
\* resolved directory holds the commit that names it (artifacts/resolver.py).
FrozenIsExecuted == part = "artifacts" => A!FrozenIsExecuted /\ A!RevisionNamesContent

\* Every resolution ends: no error or crash leaves a key locked.
ResolvesEnd ==
    \A t \in Threads : (part = "artifacts" /\ ~A!At(t, "idle")) ~> (part = "artifacts" /\ A!At(t, "idle"))

\* A model list comes from the profile the registry holds for that Provider, or
\* held when the request began, and no Worker's environment holds the credential
\* of another Provider, of this or any earlier generation (providers/registry.py).
ProfilesAreKeptApart ==
    part = "providers" => P!ListsMatchTheProfile /\ P!CredentialsStayHome

\* A replaced bootstrap key is accepted for just its grace, unless it is replaced
\* again (api/auth.py), and the keys of a client are those that its last committed
\* change left it (upsert_trusted_client, revoke_trusted_client).
KeysExpireAsSaid ==
    part = "keys" => K!BootstrapGraceIsExact /\ K!ClientKeysFollowTheLastWrite

\* What a client that waits for a Campaign reports is true (_campaign_runtime,
\* wait_for_campaign, wait_for_runners).
AnswerIsTrue == part = "status" => C!AnswerIsTrue

\* A client that waits for a Campaign that ends is answered, unless something is
\* added to it; one that waits for the Runners it submitted is, in any case.
WaitEnds ==
    /\ (part = "status" /\ C!Over) ~> (part = "status" /\ (answer # NoAnswer \/ ~C!Over))
    /\ (part = "status" /\ client = "runners" /\ C!SubmissionEnded)
       ~> (part = "status" /\ answer # NoAnswer)

\* The requests of a probe family run in order and one at a time, and none is
\* lost between the queue, the timers and the threads (datasets/probes.py).
FamiliesInOrder == part = "probes" => Q!FamiliesInOrder

\* A benchmark that ends well has one result for every request, each with the
\* prompt of its index (throughput.py, datasets/preparation.py).
ResultsAreComplete == part = "threads" => T!ResultsAreComplete

\* A Worker's prompt depends on its recipe alone, never on the actor's caches, and
\* Workers draw with one seed just where the benchmark says so (runtime/worker_input.py).
PromptsAreReproducible == part = "prompts" => I!PromptsAreReproducible /\ I!WorkersDifferAsPlanned

\* The progress of a Campaign is the sum of its Runners' (api/progress.py).
CampaignViewIsTheSum == part = "views" => V!CampaignViewIsTheSum
=============================================================================
