---------------------------- MODULE TaskInstance ----------------------------
(***************************************************************************)
(* One TaskInstance: the graph of its nodes, their Runners, and what the   *)
(* transactions that advance or cancel it do to each other.                *)
(*                                                                         *)
(* The coordinator decides from a snapshot, which may be old when it       *)
(* activates a node.  request_cancel_campaign locks first the Runners it   *)
(* sees and then the instance with its nodes: between the two, other       *)
(* transactions that need none of those Runners commit.  Every other       *)
(* transaction takes its row locks at once.  The execution of a Runner is  *)
(* reduced to its outcome (see RunnerLifecycle for how it gets one).       *)
(***************************************************************************)
EXTENDS Integers, FiniteSets

CONSTANTS
    Node,
    DependenciesOf,     \* lineage.dependencies
    DelayOf,            \* lineage.after_seconds
    PayloadOf,          \* payload_id: nodes with the same one replay it
    Payload,
    Batch,              \* the nodes of execution_kind "batch"
    Hash,               \* prompt_hash values; NoHash is an omitted one
    NoHash,
    MaxDelay            \* bound on delays; ages stop growing there

ASSUME ConstantsAssumption ==
    /\ Node # {}
    /\ DependenciesOf \in [Node -> SUBSET Node]
    /\ MaxDelay \in Nat
    /\ DelayOf \in [Node -> 0..MaxDelay]
    /\ PayloadOf \in [Node -> Payload]
    /\ Batch \subseteq Node
    /\ NoHash \notin Hash

VARIABLES
    instance,       \* BenchmarkTaskInstanceRecord.state
    node,           \* ExecutionNodeRecord.state
    runner,         \* the status of the node's Runner
    cancelRequested,\* cancel_requested of the Runners
    result,         \* lineage.terminal_status
    age,            \* the time since lineage.actual_completed_at
    lifetime,       \* the time since the instance was created
    promptHash,     \* outcome.nodes: the prompt_hash of each node
    hashes,         \* checkpoint.payload_hashes
    snapshot,       \* the ready nodes of the coordinator's snapshot
    cancelling,     \* is request_cancel_campaign between its locks?
    locked          \* the Runners that it has locked

rows == <<instance, node, runner, cancelRequested, result, promptHash, hashes>>
time == <<age, lifetime>>
locks == <<cancelling, locked>>
vars == <<rows, time, snapshot, locks>>

InstanceStates == {"planned", "active", "completed", "failed", "cancelled"}
NodeStates == {"blocked", "pending", "emitted", "cancelled"}
Outcomes == {"succeeded", "failed", "cancelled"}
RunnerStatuses == {"none", "queued", "running"} \cup Outcomes

Over == instance \in {"completed", "failed", "cancelled"}
Open(n) == node[n] \in {"blocked", "pending"}

\* A transaction that locks the Runners S is not blocked.
Free(S) == S \cap locked = {}

\* Rows, ages and locks keep their types, and a node has a Runner exactly when
\* it is emitted.
TypeOK ==
    /\ instance \in InstanceStates
    /\ node \in [Node -> NodeStates]
    /\ runner \in [Node -> RunnerStatuses]
    /\ cancelRequested \subseteq Node
    /\ result \in [Node -> {"none"} \cup Outcomes]
    /\ age \in [Node -> 0..MaxDelay]
    /\ lifetime \in 0..MaxDelay
    /\ promptHash \in [Node -> Hash \cup {NoHash}]
    /\ hashes \in [Payload -> Hash \cup {NoHash}]
    /\ snapshot \subseteq Node
    /\ cancelling \in BOOLEAN
    /\ locked \subseteq Node
    /\ \A n \in Node : node[n] = "emitted" <=> runner[n] # "none"

Init ==
    /\ instance = "planned"
    /\ node = [n \in Node |-> IF DependenciesOf[n] = {} THEN "pending" ELSE "blocked"]
    /\ runner = [n \in Node |-> "none"]
    /\ cancelRequested = {}
    /\ result = [n \in Node |-> "none"]
    /\ age = [n \in Node |-> 0]
    /\ lifetime = 0
    /\ promptHash = [n \in Node |-> NoHash]
    /\ hashes = [p \in Payload |-> NoHash]
    /\ snapshot = {}
    /\ cancelling = FALSE
    /\ locked = {}

Older(t) == IF t < MaxDelay THEN t + 1 ELSE t

Tick ==
    /\ lifetime' = Older(lifetime)
    /\ age' = [n \in Node |-> IF result[n] = "none" THEN 0 ELSE Older(age[n])]
    /\ time' # time
    /\ UNCHANGED <<rows, snapshot, locks>>

-----------------------------------------------------------------------------
(* The coordinator *)

\* Variant: any one finished dependency is enough.
SomeDependencyDone(n) ==
    DependenciesOf[n] = {} \/ \E d \in DependenciesOf[n] : result[d] = "succeeded"

\* Every dependency has a succeeded checkpoint.
DependenciesDone(n) == \A d \in DependenciesOf[n] : result[d] = "succeeded"

\* DependencyTrigger: the delay runs from the last completion, or from the
\* creation of the instance.
Due(n) == \A t \in {age[d] : d \in DependenciesOf[n]} \cup {lifetime} : t >= DelayOf[n]

\* runtime_snapshot and ready_nodes.
TakeSnapshot ==
    /\ snapshot' = {n \in Node : ~Over /\ Open(n) /\ DependenciesDone(n) /\ Due(n)}
    /\ snapshot' # snapshot
    /\ UNCHANGED <<rows, time, locks>>

Activatable(n) == Open(n) /\ ~Over

\* activate_node: the node and its instance are checked again, under locks.
Activate(n) ==
    /\ n \in snapshot
    /\ snapshot' = snapshot \ {n}
    /\ \/ /\ Activatable(n)
          /\ node' = [node EXCEPT ![n] = "emitted"]
          /\ runner' = [runner EXCEPT ![n] = "queued"]
          /\ instance' = "active"
       \/ /\ ~Activatable(n)
          /\ UNCHANGED <<node, runner, instance>>
    /\ UNCHANGED <<cancelRequested, result, promptHash, hashes, time, locks>>

-----------------------------------------------------------------------------
(* The Runner of a node *)

\* Variant: the instance is not looked at.
StartStatus(n) == "running"

\* Variant: the Runner of an instance that is over is only passed over.
PassOver(n) == IF Over THEN "queued" ELSE "running"

\* start_selected: a Runner of an instance that is over is cancelled instead.
AdmitOrDiscard(n) == IF Over THEN "cancelled" ELSE "running"

StartSelected(n) ==
    /\ runner[n] = "queued"
    /\ n \notin cancelRequested
    /\ Free({n})
    /\ runner' = [runner EXCEPT ![n] = AdmitOrDiscard(n)]
    /\ UNCHANGED <<instance, node, cancelRequested, result, promptHash, hashes, time,
                   snapshot, locks>>

Queued == {n \in Node : runner[n] = "queued"}

\* Variant: siblings stay as they are.
LeaveRest(n, outcome) ==
    /\ runner' = [runner EXCEPT ![n] = outcome]
    /\ cancelRequested' = cancelRequested
    /\ node' = node

\* _cancel_task_dispatches: with the end of node n, the queued Runners and the
\* open nodes of the instance are cancelled.
CancelRest(n, outcome) ==
    /\ runner' = [m \in Node |-> IF m = n THEN outcome
                                 ELSE IF m \in Queued THEN "cancelled" ELSE runner[m]]
    /\ cancelRequested' = cancelRequested \cup Queued
    /\ node' = [m \in Node |-> IF Open(m) THEN "cancelled" ELSE node[m]]

\* Variant: a replay may change the prompt.
OmittedHash(n, h) == n \notin Batch /\ h = NoHash

\* What the checkpoint of a succeeded request finds wrong with its prompt.
BadHash(n, h) ==
    n \notin Batch /\ (h = NoHash \/ hashes[PayloadOf[n]] \notin {NoHash, h})

\* No node is unfinished once n has succeeded.
AllSucceeded(n) ==
    \A m \in Node \ {n} : node[m] = "emitted" /\ result[m] = "succeeded"

\* The instance ended while the Runner of n was running.
Settled(n) == Over

Fails(n, outcome, h) == outcome # "succeeded" \/ BadHash(n, h)

\* _checkpoint_task_result, called when the Runner of n ends as outcome with
\* prompt hash h.  A request completed some time before its checkpoint, a
\* batch completes with it.
Checkpoint(n, outcome, h) ==
    /\ Free({n} \cup (IF ~Settled(n) /\ Fails(n, outcome, h) THEN Queued ELSE {}))
    /\ result' = [result EXCEPT ![n] = outcome]
    /\ promptHash' = [promptHash EXCEPT ![n] = h]
    /\ \E t \in IF n \in Batch THEN {0} ELSE 0..lifetime : age' = [age EXCEPT ![n] = t]
    /\ UNCHANGED lifetime
    /\ \/ /\ Settled(n)
          /\ runner' = [runner EXCEPT ![n] = outcome]
          /\ cancelRequested' = cancelRequested \cup ({n} \cap Queued)
          /\ UNCHANGED <<instance, node, hashes>>
       \/ /\ ~Settled(n)
          /\ Fails(n, outcome, h)
          /\ instance' = IF outcome = "cancelled" THEN "cancelled" ELSE "failed"
          /\ CancelRest(n, outcome)
          /\ UNCHANGED hashes
       \/ /\ ~Settled(n)
          /\ ~Fails(n, outcome, h)
          /\ instance' = IF AllSucceeded(n) THEN "completed" ELSE "active"
          /\ runner' = [runner EXCEPT ![n] = outcome]
          /\ hashes' = IF n \in Batch THEN hashes ELSE [hashes EXCEPT ![PayloadOf[n]] = h]
          /\ UNCHANGED <<node, cancelRequested>>

\* complete_runner: refused once a cancellation was requested.
CompleteRunner(n) ==
    /\ runner[n] = "running"
    /\ n \notin cancelRequested
    /\ \E outcome \in {"succeeded", "failed"}, h \in Hash \cup {NoHash} :
          Checkpoint(n, outcome, h)
    /\ UNCHANGED <<snapshot, locks>>

\* finish_runner: the cancelled or broken execution is recorded.
FinishRunner(n) ==
    /\ runner[n] = "running"
    /\ \E outcome \in {"failed"} \cup (IF n \in cancelRequested THEN {"cancelled"} ELSE {}) :
          Checkpoint(n, outcome, NoHash)
    /\ UNCHANGED <<snapshot, locks>>

-----------------------------------------------------------------------------
(* Cancellation *)

\* request_cancel
RequestCancel(n) ==
    /\ n \notin cancelRequested
    /\ \/ /\ runner[n] = "queued"
          /\ Checkpoint(n, "cancelled", NoHash)
       \/ /\ runner[n] = "running"
          /\ Free({n})
          /\ cancelRequested' = cancelRequested \cup {n}
          /\ UNCHANGED <<instance, node, runner, result, promptHash, hashes, time>>
    /\ UNCHANGED <<snapshot, locks>>

\* request_cancel_campaign: the rows of the Runners that exist now are locked.
LockRunners ==
    /\ ~cancelling
    /\ cancelling' = TRUE
    /\ locked' = {n \in Node : runner[n] # "none"}
    /\ UNCHANGED <<rows, time, snapshot>>

\* Then those of the instance and its nodes, and everything is written.
CancelCampaign ==
    /\ cancelling
    /\ runner' = [n \in Node |-> IF n \in locked \cap Queued THEN "cancelled" ELSE runner[n]]
    /\ cancelRequested' = cancelRequested \cup
           {n \in locked : runner[n] \in {"queued", "running"}}
    /\ instance' = IF Over THEN instance ELSE "cancelled"
    /\ node' = [n \in Node |-> IF Open(n) THEN "cancelled" ELSE node[n]]
    /\ cancelling' = FALSE
    /\ locked' = {}
    /\ UNCHANGED <<result, promptHash, hashes, time, snapshot>>

\* PostgreSQL resolves a deadlock with another transaction by aborting it.
AbortCancel ==
    /\ cancelling
    /\ cancelling' = FALSE
    /\ locked' = {}
    /\ UNCHANGED <<rows, time, snapshot>>

Next ==
    \/ Tick \/ TakeSnapshot
    \/ \E n \in Node : Activate(n) \/ StartSelected(n) \/ CompleteRunner(n)
                       \/ FinishRunner(n) \/ RequestCancel(n)
    \/ LockRunners \/ CancelCampaign \/ AbortCancel

Spec == Init /\ [][Next]_vars

\* The coordinator keeps passing, every Runner is claimed and its execution
\* ends (Coordinator and RunnerLifecycle), time passes, and a transaction that
\* waits for a row lock is served in its turn.
Fairness ==
    /\ WF_vars(Tick) /\ WF_vars(TakeSnapshot) /\ WF_vars(CancelCampaign \/ AbortCancel)
    /\ \A n \in Node :
          WF_vars(Activate(n)) /\ SF_vars(StartSelected(n))
          /\ SF_vars(CompleteRunner(n) \/ FinishRunner(n))

FairSpec == Spec /\ Fairness

-----------------------------------------------------------------------------
(* Properties *)

\* A node is emitted only after all its dependencies succeeded and its delay
\* has passed since the last of them, although the coordinator decided that
\* from a snapshot and activate_node does not look at dependencies.
DependenciesFirst ==
    \A n \in Node : node[n] = "emitted" =>
        /\ lifetime >= DelayOf[n]
        /\ \A d \in DependenciesOf[n] : result[d] = "succeeded" /\ age[d] >= DelayOf[n]

\* An instance is completed exactly when every node succeeded and nothing went
\* wrong; it cannot be missed by the checkpoint of the last of parallel nodes.
CompletedMeansAll ==
    /\ instance = "completed" => \A n \in Node : result[n] = "succeeded"
    /\ (\A n \in Node : result[n] = "succeeded") => Over

\* An instance that is over has no node left to activate, and one that failed
\* has no Runner left to start: what is queued or waits is cancelled with it.
FailureStopsTheRest ==
    /\ Over => \A n \in Node : ~Open(n)
    /\ instance = "failed" => Queued = {}

\* In a completed instance all requests of a payload sent the same prompt.
SamePromptPerPayload ==
    instance = "completed" =>
        \A m, n \in Node \ Batch :
            PayloadOf[m] = PayloadOf[n] => promptHash[m] = promptHash[n] /\ promptHash[n] # NoHash

\* What a completed instance stands for: all of it ran, and with one prompt per
\* payload (_checkpoint_task_result).
CompletionIsSound == CompletedMeansAll /\ SamePromptPerPayload

\* An instance that is over neither changes nor starts anything, whatever is on its
\* way: siblings that end later, an activation, a Runner whose activation committed
\* while request_cancel_campaign had already read the Runners.
OverIsOver ==
    [][Over => /\ instance' = instance
               /\ \A n \in Node : runner'[n] = "running" => runner[n] = "running"]_vars

\* Every instance ends, and so does every Runner it had.
InstanceEnds ==
    <>(Over /\ \A n \in Node : runner[n] \notin {"queued", "running"})

=============================================================================
