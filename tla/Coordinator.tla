---------------------------- MODULE Coordinator ----------------------------
(***************************************************************************)
(* RuntimeCoordinator and the admission loop of the Scheduler: durable     *)
(* Runners become an in-memory ready queue that rotates over the           *)
(* Campaigns, and one loop claims from it as admission permits allow.      *)
(*                                                                         *)
(* A Runner of a task is created when its node is activated; the Runners   *)
(* of any other Campaign exist from its submission on, perhaps in rounds.  *)
(* Which nodes are ready is the subject of TaskInstance: here any that is  *)
(* not yet emitted may be, until a failure ends its whole instance.        *)
(*                                                                         *)
(* A pass of reconcile reads the durable state in two statements, queues   *)
(* what it read and then activates nodes: everything else may happen in    *)
(* between.  Wakeups (ReconcileNotifier) only choose when a pass starts    *)
(* and which instance it reads.  The memory and health checks of the loop  *)
(* only delay it.                                                          *)
(***************************************************************************)
EXTENDS Integers, Sequences, FiniteSets, SequencesExt

CONSTANTS
    Runner, Campaign,
    CampaignOf,     \* the Campaign of each Runner
    RoundOf,        \* metadata.runner_round.index, or 0
    TaskRunner,     \* the Runners of task nodes: one instance per Campaign
    MaxRunners,     \* max_concurrent_runners
    ReadyCapacity,  \* ready_capacity
    MaxFaults,      \* bound on database failures and restarts together
    Slot,           \* names the admission loop in the permits
    NoRunner

ASSUME ConstantsAssumption ==
    /\ CampaignOf \in [Runner -> Campaign]
    /\ RoundOf \in [Runner -> Nat]
    /\ TaskRunner \subseteq Runner
    /\ \A r \in TaskRunner : RoundOf[r] = 0    \* expand_rounds is for the others
    /\ IsFiniteSet(Runner)
    /\ MaxRunners \in Nat \ {0} /\ ReadyCapacity \in Nat \ {0}
    /\ MaxFaults \in Nat
    /\ Slot \notin Runner /\ NoRunner \notin Runner

VARIABLES
    submitted,      \* the Campaigns submitted so far
    status,         \* BenchmarkRunnerRecord.status
    created,        \* the Runner rows, in the order of created_at
    queue, order,   \* the ready queues and the turns of the Campaigns
    admitted,       \* Runners that reconcile must not queue again
    pass,           \* the pass of reconcile
    claim,          \* the admission loop
    supervised,     \* Runners with an execution task
    active,         \* RunnerAdmission.active
    free,           \* RunnerAdmission.capacity
    faults

vars == <<submitted, status, created, queue, order, admitted, pass, claim,
          supervised, active, free, faults>>
durable == <<submitted, status, created>>
ready == <<queue, order, admitted>>
permits == <<active, free>>

Statuses == {"absent", "queued", "running", "succeeded", "ended"}
Stages == {"idle", "rounds", "enqueue", "activate"}
ClaimStages == {"waiting", "admitting", "claiming", "starting"}

Ended(r) == status[r] \in {"succeeded", "ended"}

Siblings(r) == {q \in TaskRunner : r \in TaskRunner /\ CampaignOf[q] = CampaignOf[r]}

\* The places of the ready queues, and how many they are.
PlacesIn(q) == UNION {{c} \X DOMAIN q[c] : c \in Campaign}
TotalOf(q) == Cardinality(PlacesIn(q))

\* Queues, marks, permits and stages keep their types.
TypeOK ==
    /\ submitted \subseteq Campaign
    /\ status \in [Runner -> Statuses]
    /\ created \in Seq(Runner) /\ IsInjective(created)
    /\ Range(created) = {r \in Runner : status[r] # "absent"}
    /\ queue \in [Campaign -> Seq(Runner)]
    /\ TotalOf(queue) <= ReadyCapacity
    /\ order \in Seq(Campaign)
    /\ admitted \subseteq Runner
    /\ pass \in [stage : Stages, runners : SUBSET Runner, nodes : SUBSET TaskRunner]
    /\ claim \in [stage : ClaimStages, runner : Runner \cup {NoRunner}]
    /\ supervised \subseteq Runner
    /\ active \subseteq Runner \cup {Slot}
    /\ free \in 0..MaxRunners
    /\ faults \in 0..MaxFaults

Resting == [stage |-> "idle", runners |-> {}, nodes |-> {}]
Waiting == [stage |-> "waiting", runner |-> NoRunner]

Init ==
    /\ submitted = {}
    /\ status = [r \in Runner |-> "absent"]
    /\ created = <<>>
    /\ queue = [c \in Campaign |-> <<>>]
    /\ order = <<>>
    /\ admitted = {}
    /\ pass = Resting
    /\ claim = Waiting
    /\ supervised = {}
    /\ active = {}
    /\ free = MaxRunners
    /\ faults = 0

-----------------------------------------------------------------------------
(* The API *)

\* create_campaign_workload: all Runners of a Campaign in one transaction.
Submit(c) ==
    LET new == {r \in Runner \ TaskRunner : CampaignOf[r] = c} IN
    /\ c \notin submitted
    /\ submitted' = submitted \cup {c}
    /\ status' = [r \in Runner |-> IF r \in new THEN "queued" ELSE status[r]]
    /\ created' = created \o SetToSeq(new)
    /\ UNCHANGED <<ready, pass, claim, supervised, permits, faults>>

\* The end of a Runner; a failure in a task cancels its queued siblings too.
EndWith(r, outcome) ==
    status' = [q \in Runner |->
        IF q = r THEN outcome
        ELSE IF outcome = "ended" /\ q \in Siblings(r) /\ status[q] = "queued" THEN "ended"
        ELSE status[q]]

\* request_cancel of a queued Runner.
RequestCancel(r) ==
    /\ status[r] = "queued"
    /\ EndWith(r, "ended")
    /\ UNCHANGED <<submitted, created, ready, pass, claim, supervised, permits, faults>>

-----------------------------------------------------------------------------
(* reconcile *)

\* The first statement of runtime_snapshot: the queued Runners.
ReadQueued ==
    /\ pass.stage = "idle"
    /\ pass' = [stage |-> "rounds", nodes |-> {},
                runners |-> {r \in Runner : status[r] = "queued"}]
    /\ UNCHANGED <<durable, ready, claim, supervised, permits, faults>>

\* A pass for the wakeup of one Runner reads only the instance of that Runner.
ReadInstance ==
    /\ pass.stage = "idle"
    /\ \E r \in TaskRunner : Ended(r)
    /\ pass' = [Resting EXCEPT !.stage = "rounds"]
    /\ UNCHANGED <<durable, ready, claim, supervised, permits, faults>>

\* The Runners of the Campaign that are in rounds: its round_states.
InRounds(r) == {q \in Runner : CampaignOf[q] = CampaignOf[r] /\ RoundOf[q] > 0}

\* Variant: rounds look only at what is still queued.
EarlierQueued(r) ==
    \A q \in InRounds(r) : status[q] = "queued" => RoundOf[r] <= RoundOf[q]

\* Variant: a Runner waits for its own round.
BeforeEveryRound(r) ==
    \A q \in InRounds(r) : status[q] \in {"queued", "running"} => RoundOf[r] < RoundOf[q]

\* ready_round_runners: no unfinished Runner of the Campaign has a smaller
\* round, and at least one is unfinished in this one.
InEarliestRound(r) ==
    /\ \A q \in InRounds(r) : status[q] \in {"queued", "running"} => RoundOf[r] <= RoundOf[q]
    /\ \E q \in InRounds(r) : status[q] \in {"queued", "running"} /\ RoundOf[q] = RoundOf[r]

\* A node not yet emitted, in an instance that is not over.
Activatable(n) ==
    /\ CampaignOf[n] \in submitted
    /\ status[n] = "absent"
    /\ \A q \in Siblings(n) : status[q] # "ended"

\* The later statements: round_states, and the ready nodes of the instances read.
ReadRounds ==
    /\ pass.stage = "rounds"
    /\ \E ready_nodes \in SUBSET {n \in TaskRunner : Activatable(n)} :
         pass' = [stage |-> "enqueue", nodes |-> ready_nodes,
                  runners |-> {r \in pass.runners : RoundOf[r] = 0 \/ InEarliestRound(r)}]
    /\ UNCHANGED <<durable, ready, claim, supervised, permits, faults>>

\* One turn of the loop in _enqueue_runners.
Enqueued(r, q) ==
    LET c == CampaignOf[r] IN
    IF TotalOf(q.queue) >= ReadyCapacity \/ r \in q.admitted THEN q
    ELSE [queue |-> [q.queue EXCEPT ![c] = Append(@, r)],
          order |-> IF q.queue[c] = <<>> THEN Append(q.order, c) ELSE q.order,
          admitted |-> q.admitted \cup {r}]

Ready == [queue |-> queue, order |-> order, admitted |-> admitted]
Publish(q) == queue' = q.queue /\ order' = q.order /\ admitted' = q.admitted

\* The loop of _enqueue_runners, under the condition, oldest first: what it has
\* made of the ready queue after each of the rows.
Turns(rs) ==
    LET turn[i \in 0..Len(created)] ==
            IF i = 0 THEN Ready
            ELSE IF created[i] \in rs THEN Enqueued(created[i], turn[i - 1])
            ELSE turn[i - 1]
    IN turn

EnqueueRunners(rs) == Publish(Turns(rs)[Len(created)])

Enqueue ==
    /\ pass.stage = "enqueue"
    /\ EnqueueRunners(pass.runners)
    /\ pass' = [pass EXCEPT !.stage = "activate", !.runners = {}]
    /\ UNCHANGED <<durable, claim, supervised, permits, faults>>

\* activate_node checks the node and its instance again.  The pass goes on, or
\* ends because its interval is over.
Activate(n) ==
    /\ pass.stage = "activate"
    /\ n \in pass.nodes
    /\ TotalOf(queue) < ReadyCapacity
    /\ \/ /\ Activatable(n)
          /\ status' = [status EXCEPT ![n] = "queued"]
          /\ created' = Append(created, n)
          /\ Publish(Enqueued(n, Ready))
       \/ /\ ~Activatable(n)
          /\ UNCHANGED <<status, created, ready>>
    /\ \/ pass' = [pass EXCEPT !.nodes = @ \ {n}]
       \/ pass' = Resting
    /\ UNCHANGED <<submitted, claim, supervised, permits, faults>>

EndPass ==
    /\ pass.stage = "activate"
    /\ pass.nodes = {} \/ TotalOf(queue) >= ReadyCapacity
    /\ pass' = Resting
    /\ UNCHANGED <<durable, ready, claim, supervised, permits, faults>>

\* A statement of the pass fails; _run tries again after its interval.
PassFails ==
    /\ pass.stage # "idle"
    /\ faults < MaxFaults
    /\ faults' = faults + 1
    /\ pass' = Resting
    /\ UNCHANGED <<durable, ready, claim, supervised, permits>>

-----------------------------------------------------------------------------
(* The admission loop: Scheduler._worker.  Nobody else claims, so the queue  *)
(* it saw non-empty still is when it has its permit.                          *)

Acquire(name) ==
    /\ free > 0
    /\ active' = active \cup {name}
    /\ free' = free - 1

\* RunnerAdmission.release: nothing happens without a permit.
Release(name) ==
    /\ active' = active \ {name}
    /\ free' = IF name \in active THEN free + 1 ELSE free

WaitReady ==
    /\ claim.stage = "waiting"
    /\ order # <<>>
    /\ claim' = [claim EXCEPT !.stage = "admitting"]
    /\ UNCHANGED <<durable, ready, pass, supervised, permits, faults>>

AcquireAdmission ==
    /\ claim.stage = "admitting"
    /\ Acquire(Slot)
    /\ claim' = [claim EXCEPT !.stage = "claiming"]
    /\ UNCHANGED <<durable, ready, pass, supervised, faults>>

\* The Campaign goes to the end of the order if it has more Runners.
TurnsAfter(c) == IF Len(queue[c]) > 1 THEN Append(Tail(order), c) ELSE Tail(order)

\* claim_ready_runner, up to the transaction.
TakeRunner ==
    LET c == Head(order) IN
    /\ claim.stage = "claiming"
    /\ claim' = [stage |-> "starting", runner |-> Head(queue[c])]
    /\ queue' = [queue EXCEPT ![c] = Tail(@)]
    /\ order' = TurnsAfter(c)
    /\ UNCHANGED <<durable, admitted, pass, supervised, permits, faults>>

\* start_selected admits the Runner; its permit passes from the loop to the
\* execution task.
Start ==
    LET r == claim.runner IN
    /\ claim.stage = "starting"
    /\ status[r] = "queued"
    /\ status' = [status EXCEPT ![r] = "running"]
    /\ supervised' = supervised \cup {r}
    /\ active' = (active \ {Slot}) \cup {r}
    /\ claim' = Waiting
    /\ UNCHANGED <<submitted, created, ready, pass, free, faults>>

Forget(r) == admitted' = admitted \ {r}

\* start_selected returns None: the Runner was cancelled in the meantime.
StartRefused ==
    LET r == claim.runner IN
    /\ claim.stage = "starting"
    /\ status[r] # "queued"
    /\ Forget(r)
    /\ Release(Slot)
    /\ claim' = Waiting
    /\ UNCHANGED <<durable, queue, order, pass, supervised, faults>>

\* start_selected raises: rolled back, or committed with its reply lost.
StartFails ==
    LET r == claim.runner IN
    /\ claim.stage = "starting"
    /\ faults < MaxFaults
    /\ faults' = faults + 1
    /\ \/ UNCHANGED status
       \/ status[r] = "queued" /\ status' = [status EXCEPT ![r] = "running"]
    /\ Forget(r)
    /\ Release(Slot)
    /\ claim' = Waiting
    /\ UNCHANGED <<submitted, created, queue, order, pass, supervised>>

-----------------------------------------------------------------------------
(* The execution task of a Runner *)

\* A Runner that only waits for a timer gives its permit back...
Cool(r) ==
    /\ r \in supervised \cap active
    /\ status[r] = "running"
    /\ Release(r)
    /\ UNCHANGED <<durable, ready, pass, claim, supervised, faults>>

\* ...and takes one before it submits again.
Resume(r) ==
    /\ r \in supervised \ active
    /\ status[r] = "running"
    /\ Acquire(r)
    /\ UNCHANGED <<durable, ready, pass, claim, supervised, faults>>

\* complete_runner or finish_runner commits.
Finish(r) ==
    /\ r \in supervised
    /\ status[r] = "running"
    /\ \E outcome \in {"succeeded", "ended"} : EndWith(r, outcome)
    /\ UNCHANGED <<submitted, created, ready, pass, claim, supervised, permits, faults>>

\* The finally blocks of _execute and _supervise.
Leave(r) ==
    /\ supervised' = supervised \ {r}
    /\ Forget(r)
    /\ Release(r)
    /\ UNCHANGED <<durable, queue, order, pass, claim>>

EndExecution(r) ==
    /\ r \in supervised
    /\ Ended(r)
    /\ Leave(r)
    /\ UNCHANGED faults

\* The terminal status could not be written: the row stays running.
EndUnrecorded(r) ==
    /\ r \in supervised
    /\ status[r] = "running"
    /\ faults < MaxFaults
    /\ faults' = faults + 1
    /\ Leave(r)

\* The process stops or dies; the next one ends what was running (requeue_stale)
\* and starts with nothing in memory.
Restart ==
    /\ faults < MaxFaults
    /\ faults' = faults + 1
    /\ status' = [r \in Runner |->
           IF \/ status[r] = "running"
              \/ status[r] = "queued" /\ \E q \in Siblings(r) : status[q] = "running"
           THEN "ended" ELSE status[r]]
    /\ queue' = [c \in Campaign |-> <<>>]
    /\ order' = <<>>
    /\ admitted' = {}
    /\ pass' = Resting
    /\ claim' = Waiting
    /\ supervised' = {}
    /\ active' = {}
    /\ free' = MaxRunners
    /\ UNCHANGED <<submitted, created>>

Next ==
    \/ \E c \in Campaign : Submit(c)
    \/ ReadQueued \/ ReadRounds
    \/ ReadInstance
    \/ Enqueue \/ EndPass \/ PassFails
    \/ \E n \in TaskRunner : Activate(n)
    \/ WaitReady \/ AcquireAdmission \/ TakeRunner
    \/ Start \/ StartRefused \/ StartFails
    \/ \E r \in Runner :
          \/ RequestCancel(r) \/ Cool(r) \/ Resume(r)
          \/ Finish(r) \/ EndExecution(r) \/ EndUnrecorded(r)
    \/ Restart

Spec == Init /\ [][Next]_vars

\* The event loop runs every task.  A pass for everything starts at least once
\* an interval, whatever wakeups arrive (next_reconcile_at), and the semaphore
\* of the admission serves its waiters in order.
Fairness ==
    /\ SF_vars(ReadQueued) /\ WF_vars(ReadRounds)
    /\ WF_vars(Enqueue) /\ WF_vars(EndPass)
    /\ WF_vars(\E n \in TaskRunner : Activate(n))
    /\ WF_vars(WaitReady) /\ SF_vars(AcquireAdmission) /\ WF_vars(TakeRunner)
    /\ WF_vars(Start \/ StartRefused)
    /\ \A r \in Runner : WF_vars(Finish(r)) /\ WF_vars(EndExecution(r))

FairSpec == Spec /\ Fairness

-----------------------------------------------------------------------------
(* Properties *)

\* A round starts when every Runner of the earlier ones has ended, although the
\* pass that queued it read the statuses long before start_selected, which does
\* not look at rounds.
RoundBarrier ==
    \A r, q \in Runner :
        q \in InRounds(r) /\ RoundOf[q] < RoundOf[r] /\ status[r] = "running" => Ended(q)

Places(r) ==
    Cardinality({i \in DOMAIN queue[CampaignOf[r]] : queue[CampaignOf[r]][i] = r})
    + (IF claim.stage = "starting" /\ claim.runner = r THEN 1 ELSE 0)
    + (IF r \in supervised THEN 1 ELSE 0)

\* A Runner is marked as admitted exactly while it is in one place: a ready
\* queue, the claim or an execution task.  A mark left behind would keep it
\* from ever being queued again, a missing one would let it be claimed twice.
AdmittedInOnePlace ==
    \A r \in Runner : Places(r) = (IF r \in admitted THEN 1 ELSE 0)

\* The order names each Campaign with a non-empty queue once: a Campaign
\* missing from it would never be served, an extra turn would find no Runner.
TurnsMatchQueues ==
    /\ IsInjective(order)
    /\ Range(order) = {c \in Campaign : queue[c] # <<>>}

\* Every permit is free or held by the loop or a Runner, also after the loop
\* passed its permit on and whichever way the execution ended.
PermitsAccounted ==
    /\ Cardinality(active) + free = MaxRunners
    /\ Slot \in active <=> claim.stage \in {"claiming", "starting"}
    /\ active \ {Slot} \subseteq supervised

\* Marks, turns and permits agree with where the Runners are and the rounds stay
\* apart, through failing transactions and restarts: the facts above.
AdmissionInvariant ==
    TypeOK /\ RoundBarrier /\ AdmittedInOnePlace /\ TurnsMatchQueues /\ PermitsAccounted

\* A Runner that stays running without an execution task until the next start.
Orphan(r) == status[r] = "running" /\ r \notin supervised

\* A queued Runner is started or cancelled, with a ready queue smaller than the
\* backlog and failing passes and claims; only a Runner that nobody supervises
\* any more holds the later rounds of its Campaign back.
QueuedIsServed ==
    \A r \in Runner :
        status[r] = "queued" ~>
            \/ status[r] # "queued"
            \/ \E q \in Runner : CampaignOf[q] = CampaignOf[r] /\ Orphan(q)

-----------------------------------------------------------------------------
(* What AdmissionInvariant rests on.                                       *)

\* The Runners that the loop or an execution task has.
Claimed == IF claim.stage = "starting" THEN {claim.runner} ELSE {}
Elsewhere == Claimed \cup supervised
Queued(q) == UNION {Range(q[c]) : c \in Campaign}

\* A ready queue in which each Runner stands once, with its own Campaign; the marks
\* are those of the Runners in it and of the Runners elsewhere.
Consistent(q) ==
    /\ q \in [queue : [Campaign -> Seq(Runner)], order : Seq(Campaign), admitted : SUBSET Runner]
    /\ \A c \in Campaign : /\ IsInjective(q.queue[c])
                           /\ \A i \in DOMAIN q.queue[c] : CampaignOf[q.queue[c][i]] = c
    /\ IsInjective(q.order) /\ Range(q.order) = {c \in Campaign : q.queue[c] # <<>>}
    /\ IsFiniteSet(PlacesIn(q.queue)) /\ TotalOf(q.queue) <= ReadyCapacity
    /\ q.admitted = Queued(q.queue) \cup Elsewhere
    /\ Queued(q.queue) \cap Elsewhere = {}

ReadyInvariant ==
    /\ Consistent(Ready)
    /\ supervised \subseteq Runner /\ claim \in [stage : ClaimStages, runner : Runner \cup {NoRunner}]
    /\ claim.stage = "starting" => claim.runner \in Runner \ supervised
    /\ claim.stage \in {"admitting", "claiming"} => order # <<>>

\* The rows, and what a pass has read of them.
RowsInvariant ==
    /\ submitted \subseteq Campaign
    /\ status \in [Runner -> Statuses]
    /\ created \in Seq(Runner) /\ IsInjective(created)
    /\ Range(created) = {r \in Runner : status[r] # "absent"}
    /\ \A r \in Runner \ TaskRunner : CampaignOf[r] \in submitted <=> status[r] # "absent"
    /\ pass \in [stage : Stages, runners : SUBSET Runner, nodes : SUBSET TaskRunner]
    /\ \A r \in pass.runners : status[r] # "absent"
    /\ faults \in 0..MaxFaults

\* The rounds before that of r are over.
Clear(r) == \A q \in InRounds(r) : RoundOf[q] < RoundOf[r] => Ended(q)

\* They are when r is running, and were already when it was chosen.
RoundsInvariant ==
    /\ \A r \in Runner : status[r] = "running" \/ r \in admitted => Clear(r)
    /\ pass.stage = "enqueue" => \A r \in pass.runners : Clear(r)

PermitsInvariant ==
    /\ IsFiniteSet(active) /\ active \subseteq Runner \cup {Slot} /\ free \in 0..MaxRunners
    /\ PermitsAccounted

CoordinatorInvariant == ReadyInvariant /\ RowsInvariant /\ RoundsInvariant /\ PermitsInvariant
=============================================================================
