-------------------------- MODULE PromptPreparation --------------------------
(***************************************************************************)
(* How the Workers of Runners get their prompts (runtime/worker_input.py): *)
(* worker_steps expands a benchmark into recipes, and the request actor    *)
(* that is granted a Worker prepares the prompt from its recipe, with the  *)
(* calibrations and plans that other Workers have left in its caches.      *)
(*                                                                         *)
(* A prompt that is put together to a size is what it is made from: seeds, *)
(* places and sources.  One that is an intact record of a dataset is that  *)
(* record, which other seeds may draw as well.  Seeds that the code        *)
(* derives by hashing are tuples, so that they differ when what they are   *)
(* derived from does.  A dataset has a record of each size asked for.      *)
(***************************************************************************)
EXTENDS Integers, Sequences, FiniteSets, SequencesExt

CONSTANTS
    Actors,             \* request actors
    Programs,           \* the Runners of a behaviour, a set of tuples of benchmarks
    MaxCalibrations,    \* 4
    MaxPlans,           \* 128
    MaxPrefixBytes,     \* 64 MiB
    MaxRestarts,        \* bound on the restarts of actors
    DrawRecord(_, _, _),    \* the record that a seed selects, of a dataset and a size
    Unset

VARIABLES
    benchmarks,         \* of the Runners
    calibrations,       \* of each actor, least recently used first
    promptPlans,        \* plans of each actor, in the same order
    prefixBytes,        \* prefix_bytes
    prompt,             \* what each Worker was given
    restarts

vars == <<benchmarks, calibrations, promptPlans, prefixBytes, prompt, restarts>>

-----------------------------------------------------------------------------
(* worker_steps.                                                           *)

\* named_index: the place of request i among those of its input.
NamedIndex(names, i) == Cardinality({j \in 1..(i - 1) : names[j] = names[i]})

IndexedSeed(seed, name) == <<seed, name>>

\* task_contexts[index] of parallel invocations that share a Runner, or task_context.
Context(b, i) == IF b.contexts # <<>> THEN b.contexts[i] ELSE b.context

\* An atomic context has the seed of a payload, and its text or none.
Atomic(context) == context.payload_seed # Unset

\* A named input has seeds of its own, unless the task gave the prefix seed.
InputSeed(b, context, name) ==
    LET base == IF Atomic(context) THEN context.payload_seed ELSE b.seed IN
    IF name = "default" THEN base ELSE <<base, b.inputs[name].seed, name>>
PrefixSeed(b, context, name) ==
    IF name = "default" \/ context.explicit_prefix \/ b.prefix_seed = Unset THEN b.prefix_seed
    ELSE IndexedSeed(b.prefix_seed, name)

\* The coordinates of a probe: family by family.
ProbeCoordinates(p) ==
    [i \in 1..(p.trials * (p.repeats + 1)) |->
        <<(i - 1) \div (p.repeats + 1), (i - 1) % (p.repeats + 1)>>]

\* The names of the inputs of the requests.
RequestInputs(b) ==
    IF b.probe = Unset THEN b.requests
    ELSE [i \in DOMAIN ProbeCoordinates(b.probe) |-> "default"]

WorkerSteps(b) ==
    LET names == RequestInputs(b)
        Step(i) ==
            LET name == names[i]
                input == b.inputs[name]
                context == Context(b, i)
                at == IF b.probe = Unset THEN <<0, 0>> ELSE ProbeCoordinates(b.probe)[i]
            IN [input |-> name, seed |-> InputSeed(b, context, name),
                prefix_seed |-> PrefixSeed(b, context, name),
                index |-> IF b.probe = Unset THEN NamedIndex(names, i) ELSE at[1],
                tokens |-> input.tokens, prefix_tokens |-> input.prefix_tokens,
                mode |-> input.mode, repeat_count |-> input.repeat_count,
                text |-> IF Atomic(context) THEN context.text ELSE input.text,
                dataset |-> input.dataset, tokenizer |-> b.tokenizer,
                calibrated |-> b.estimate /\ b.probe = Unset,
                atomic |-> Atomic(context),
                probe |-> b.probe, occurrence |-> at[2]]
    IN [i \in DOMAIN names |-> Step(i)]

-----------------------------------------------------------------------------
(* What a prompt is made from.                                             *)

CalibrationKey(r) == <<r.dataset, r.tokenizer>>

\* calibrate_corpus: the ratio measured on a sample of the corpus.
CalibrateCorpus(r) == [dataset |-> r.dataset, tokenizer |-> r.tokenizer]

\* Variant: recipes that differ in their prefix seed share a plan.
PlanKeyWithoutPrefix(r) ==
    <<r.tokens, r.prefix_tokens, r.atomic, r.input, r.dataset, r.tokenizer>>

\* cache_key: the recipe without its place; with a prefix seed, without its
\* own seed as well.
PlanKey(r) ==
    <<IF r.prefix_seed # Unset THEN r.prefix_seed ELSE r.seed, r.prefix_seed,
      r.tokens, r.prefix_tokens, r.atomic, r.input, r.dataset, r.tokenizer>>

\* calibrate: the prefix all prompts of a plan begin with.
Calibrate(r, calibration) ==
    [seed |-> IF r.prefix_seed # Unset THEN r.prefix_seed ELSE r.seed,
     tokens |-> r.prefix_tokens, dataset |-> r.dataset, by |-> calibration]

\* render_chunk: the prefix of the plan and a body of the request's own.
RenderChunk(r, prefix) ==
    [prefix |-> prefix, body |-> <<r.seed, r.index>>, tokens |-> r.tokens,
     seed |-> <<r.seed, r.index>>, changed |-> FALSE]

\* effective_mode: the bundled sonnet is always put together to a size.
EffectiveMode(r) == IF r.dataset = Unset THEN "concatenate" ELSE r.mode

\* The seed of an ordinary request; one of a payload has the payload's.
RequestSeed(r) == IF r.atomic THEN r.seed ELSE IndexedSeed(r.seed, r.index \div r.repeat_count)

\* concatenate_prompt_requests, for the one request.
ConcatenatePromptRequests(r, calibration) ==
    [prefix |-> [seed |-> IF r.prefix_seed # Unset THEN r.prefix_seed ELSE r.seed,
                 tokens |-> r.prefix_tokens, dataset |-> r.dataset, by |-> calibration],
     body |-> RequestSeed(r), tokens |-> r.tokens, seed |-> RequestSeed(r), changed |-> FALSE]

\* sample_prompt_requests, for the one request: every Worker draws on its own.
SamplePromptRequests(r) ==
    [prefix |-> Unset, body |-> DrawRecord(RequestSeed(r), r.dataset, r.tokens), tokens |-> Unset,
     seed |-> RequestSeed(r), changed |-> FALSE]

\* prepare_prompt_requests
PreparePromptRequests(r, calibration) ==
    IF EffectiveMode(r) = "sample" THEN SamplePromptRequests(r)
    ELSE ConcatenatePromptRequests(r, calibration)

\* A literal text, with the evidence that it is one.
Literal(text) ==
    [prefix |-> Unset, body |-> text, tokens |-> Unset, seed |-> Unset, changed |-> FALSE]

Planned(r) == r.calibrated /\ r.mode = "concatenate" /\ r.repeat_count = 1 /\ r.text = Unset

\* build_cache_probe_plan: a warm request of a mode other than exact_repeat has
\* one token replaced.
ProbePrompt(r, base) ==
    IF r.probe = Unset \/ r.occurrence = 0 \/ r.probe.exact THEN base
    ELSE [base EXCEPT !.changed = TRUE]

-----------------------------------------------------------------------------
(* WorkerInputPreparer.                                                    *)

Keys(cache) == {cache[i].key : i \in DOMAIN cache}
Place(cache, key) == CHOOSE i \in DOMAIN cache : cache[i].key = key
Entry(cache, key) == cache[Place(cache, key)]
MoveToEnd(cache, key) == Append(RemoveAt(cache, Place(cache, key)), Entry(cache, key))

Calibrated(cache, r) ==
    LET key == CalibrationKey(r)
        known == IF key \in Keys(cache) THEN cache
                 ELSE Append(cache, [key |-> key, ratio |-> CalibrateCorpus(r)])
        moved == MoveToEnd(known, key)
    IN IF Len(moved) > MaxCalibrations THEN Tail(moved) ELSE moved

Bytes(cache) == SumFunction([i \in DOMAIN cache |-> cache[i].bytes])

\* The eviction loop over cache, with bytes in prefix_bytes: the oldest plans go
\* until the rest fits, or is one.
BytesWithout(cache, bytes, k) == bytes - Bytes(SubSeq(cache, 1, k))
Fits(cache, bytes, k) ==
    \/ k = Len(cache) - 1
    \/ Len(cache) - k <= MaxPlans /\ BytesWithout(cache, bytes, k) <= MaxPrefixBytes
Evictions(cache, bytes) ==
    CHOOSE k \in 0..(Len(cache) - 1) :
        Fits(cache, bytes, k) /\ \A j \in 0..(k - 1) : ~Fits(cache, bytes, j)

\* The plans and prefix_bytes of an actor with a plan for r.
NewPlan(r, calibration) ==
    [key |-> PlanKey(r), prefix |-> Calibrate(r, calibration), bytes |-> r.prefix_tokens]
WithPlan(plans, bytes, r, calibration) ==
    IF PlanKey(r) \in Keys(plans) THEN [plans |-> MoveToEnd(plans, PlanKey(r)), bytes |-> bytes]
    ELSE LET cache == Append(plans, NewPlan(r, calibration))
             more == bytes + r.prefix_tokens
             k == Evictions(cache, more)
         IN [plans |-> SubSeq(cache, k + 1, Len(cache)), bytes |-> BytesWithout(cache, more, k)]

Init ==
    /\ benchmarks \in Programs
    /\ calibrations = [a \in Actors |-> <<>>]
    /\ promptPlans = [a \in Actors |-> <<>>]
    /\ prefixBytes = [a \in Actors |-> 0]
    /\ prompt = [i \in DOMAIN benchmarks |-> [w \in DOMAIN RequestInputs(benchmarks[i]) |-> Unset]]
    /\ restarts = 0

\* prepare, under the lock of the actor; a Worker past its deadline is refused
\* before the caches are touched, which is a stutter here.
Prepare(a, i, w) ==
    LET r == WorkerSteps(benchmarks[i])[w]
        known == IF r.calibrated THEN Calibrated(calibrations[a], r) ELSE calibrations[a]
        calibration == IF r.calibrated THEN Entry(known, CalibrationKey(r)).ratio ELSE Unset
    IN
    /\ prompt[i][w] = Unset
    /\ calibrations' = [calibrations EXCEPT ![a] = known]
    /\ \/ /\ r.text # Unset
          /\ prompt' = [prompt EXCEPT ![i][w] = Literal(r.text)]
          /\ UNCHANGED <<promptPlans, prefixBytes>>
       \/ /\ Planned(r)
          /\ LET after == WithPlan(promptPlans[a], prefixBytes[a], r, calibration) IN
             /\ promptPlans' = [promptPlans EXCEPT ![a] = after.plans]
             /\ prefixBytes' = [prefixBytes EXCEPT ![a] = after.bytes]
             /\ prompt' = [prompt EXCEPT ![i][w] =
                    ProbePrompt(r, RenderChunk(r, Entry(after.plans, PlanKey(r)).prefix))]
       \/ /\ r.text = Unset /\ ~Planned(r)
          /\ prompt' = [prompt EXCEPT ![i][w] =
                ProbePrompt(r, PreparePromptRequests(r, calibration))]
          /\ UNCHANGED <<promptPlans, prefixBytes>>
    /\ UNCHANGED <<benchmarks, restarts>>

\* The actor is replaced by a new one.
RestartActor(a) ==
    /\ restarts < MaxRestarts
    /\ restarts' = restarts + 1
    /\ calibrations' = [calibrations EXCEPT ![a] = <<>>]
    /\ promptPlans' = [promptPlans EXCEPT ![a] = <<>>]
    /\ prefixBytes' = [prefixBytes EXCEPT ![a] = 0]
    /\ UNCHANGED <<benchmarks, prompt>>

Next ==
    \E a \in Actors :
        \/ RestartActor(a)
        \/ \E i \in DOMAIN benchmarks : \E w \in DOMAIN prompt[i] : Prepare(a, i, w)

Spec == Init /\ [][Next]_vars

-----------------------------------------------------------------------------
(* Properties.                                                             *)

\* The prompt a new actor would prepare.
Alone(r) ==
    LET calibration == IF r.calibrated THEN CalibrateCorpus(r) ELSE Unset IN
    IF r.text # Unset THEN Literal(r.text)
    ELSE IF Planned(r) THEN RenderChunk(r, Calibrate(r, calibration))
    ELSE ProbePrompt(r, PreparePromptRequests(r, calibration))

\* A prompt depends on its recipe alone: whatever actor prepares it, in whatever
\* order and after whatever other Workers, it is the one that an actor with
\* empty caches prepares; and the caches keep their bounds, with prefix_bytes
\* the size of the plans that are cached (WorkerInputPreparer.prepare).
PromptsAreReproducible ==
    /\ \A i \in DOMAIN prompt : \A w \in DOMAIN prompt[i] :
            prompt[i][w] # Unset => prompt[i][w] = Alone(WorkerSteps(benchmarks[i])[w])
    /\ \A a \in Actors :
            /\ Len(calibrations[a]) <= MaxCalibrations /\ Len(promptPlans[a]) <= MaxPlans
            /\ prefixBytes[a] = Bytes(promptPlans[a])
            /\ prefixBytes[a] <= MaxPrefixBytes \/ Len(promptPlans[a]) = 1

\* What is sent of a prompt: all but the evidence of its seed.
Text(p) == <<p.prefix, p.body, p.tokens, p.changed>>

\* The requests of a payload have one place, unless they are rendered from a plan.
SamePlace(r, s) ==
    \/ r.atomic /\ ~Planned(r)
    \/ r.index \div r.repeat_count = s.index \div s.repeat_count

Generated(r) == r.text = Unset

\* Two Workers are meant to send the same text: a literal one, or one that is
\* generated for an input and payload they share, at the same place.
SameText(r, s) ==
    \/ ~Generated(r) /\ r.text = s.text
    \/ /\ Generated(r) /\ Generated(s)
       /\ r.input = s.input /\ r.seed = s.seed /\ SamePlace(r, s)
       /\ r.probe = Unset \/ r.probe.exact \/ (r.occurrence = 0 <=> s.occurrence = 0)

\* Within a Runner two Workers send the same text where the benchmark asks for it
\* (a literal text, a repeated record, a payload, the requests of a probe family);
\* where it does not, what they send is generated from another seed or with a token
\* changed, though two seeds may draw one record of a dataset; and the prompts put
\* together for an input begin with the same prefix, unless its payloads give it
\* others (worker_steps, prepare).
WorkersDifferAsPlanned ==
    \A i \in DOMAIN prompt : \A v, w \in DOMAIN prompt[i] :
        v # w /\ prompt[i][v] # Unset /\ prompt[i][w] # Unset =>
            LET r == WorkerSteps(benchmarks[i])[v]
                s == WorkerSteps(benchmarks[i])[w]
                p == prompt[i][v]
                q == prompt[i][w]
            IN /\ SameText(r, s) => Text(p) = Text(q)
               /\ Generated(r) /\ Generated(s) =>
                    (<<p.seed, p.changed>> = <<q.seed, q.changed>> => SameText(r, s))
               /\ /\ Generated(r) /\ Generated(s) /\ EffectiveMode(r) = "concatenate"
                  /\ r.input = s.input /\ (r.seed = s.seed \/ r.prefix_seed # Unset)
                  => p.prefix = q.prefix

-----------------------------------------------------------------------------
(* What the caches hold, for the proofs: each entry was made for a recipe. *)

Benchmarks == UNION {{p[i] : i \in DOMAIN p} : p \in Programs}
Recipes == UNION {{WorkerSteps(b)[w] : w \in DOMAIN RequestInputs(b)} : b \in Benchmarks}
CalibrationEntries == {[key |-> CalibrationKey(r), ratio |-> CalibrateCorpus(r)] : r \in Recipes}
PlanEntries == {NewPlan(r, CalibrateCorpus(r)) : r \in Recipes}

PromptsInvariant ==
    /\ benchmarks \in Programs
    /\ prompt = [i \in DOMAIN benchmarks |->
                    [w \in DOMAIN RequestInputs(benchmarks[i]) |-> prompt[i][w]]]
    /\ calibrations \in [Actors -> Seq(CalibrationEntries)]
    /\ promptPlans \in [Actors -> Seq(PlanEntries)]
    /\ prefixBytes \in [Actors -> Int]
    /\ PromptsAreReproducible
=============================================================================
