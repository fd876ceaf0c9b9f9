----------------------------- MODULE RunnerPlan -----------------------------
(***************************************************************************)
(* The RunnerPlans of one Campaign, the Planners that turn their           *)
(* occurrences into queued Runners, and the operators who pause, resume    *)
(* and cancel plans or the Campaign.                                       *)
(*                                                                         *)
(* Several Backends poll: materialize_due_work is one transaction of a     *)
(* Planner in two steps, the locks it takes (FOR UPDATE SKIP LOCKED, at    *)
(* its own now()) and its writes, so that other transactions commit in     *)
(* between.  request_cancel_campaign has two steps as well: it locks the   *)
(* Runners it sees, then waits for the plans.  All other transactions are  *)
(* single steps.                                                           *)
(***************************************************************************)
EXTENDS Recurrence

CONSTANTS
    Plans,          \* the RunnerPlans
    Planners,       \* the Planners of all Backends
    Timing,         \* RunnerPlanTiming of each plan
    BatchSize,      \* planner.batch_size
    MaxRollbacks    \* bound: transactions that fail

NoTime == -1

ASSUME PlanAssumption ==
    /\ IsFiniteSet(Plans)
    /\ BatchSize \in Nat \ {0}
    /\ MaxRollbacks \in Nat
    /\ \A p \in Plans : /\ Timing[p].startsAt \in Instant \cup {NoTime}
                        /\ Timing[p].endsAt \in Instant \cup {Never}
                        /\ Timing[p].maxOccurrences \in Nat \ {0}
                        /\ Timing[p].grace \in Nat
                        /\ Timing[p].overlap \in {"queue", "skip"}
                        /\ LET rec == Timing[p].recurrence IN
                           rec.kind = "interval" => rec.every \in Nat \ {0}

VARIABLES
    databaseNow,    \* the clock of the database
    planRow,        \* BenchmarkRunnerPlanRecord
    dispatches,     \* the execution nodes of a plan: their occurrence and state
    runners,        \* the Runners of a plan, in order of emission
    tx,             \* the open materialize_due_work of each Planner: its now()
                    \* and the plan rows it read and locked
    cancel,         \* request_cancel_campaign: its stage, the Runners it locked
    stopped,        \* ghost: the plans the Campaign's cancellation covered
    rollbacks

vars == <<databaseNow, planRow, dispatches, runners, tx, cancel, stopped, rollbacks>>

Active == {"queued", "running"}
RunnerStatuses == Active \cup {"ended", "cancelled"}

NoTx == [now |-> NoTime, rows |-> <<>>]

Absent == [status |-> "absent", start |-> NoTime, next |-> NoTime, last |-> NoTime,
           cursor |-> 0, skipped |-> 0, emitted |-> 0]

Init ==
    /\ databaseNow = 0
    /\ planRow = [p \in Plans |-> Absent]
    /\ dispatches = [p \in Plans |-> <<>>]
    /\ runners = [p \in Plans |-> <<>>]
    /\ tx = [w \in Planners |-> NoTx]
    /\ cancel = [stage |-> "idle", seen |-> {}]
    /\ stopped = {}
    /\ rollbacks = 0

Locked == UNION {DOMAIN tx[w].rows : w \in Planners}

Immediate(p) == Timing[p].startsAt = NoTime

-----------------------------------------------------------------------------
\* _new_runner_plan, within create_runner_plan or create_campaign_workload.
CreatePlan(p) ==
    LET start == IF Immediate(p) THEN databaseNow ELSE Timing[p].startsAt
        first == FirstFire(Timing[p].recurrence, start, Immediate(p))
        ended == first > Timing[p].endsAt
    IN /\ planRow[p].status = "absent"
       /\ planRow' = [planRow EXCEPT ![p] =
                    [@ EXCEPT !.status = IF ended THEN "completed" ELSE "active",
                              !.start = start,
                              !.next = IF ended THEN NoTime ELSE first]]
       /\ UNCHANGED <<databaseNow, dispatches, runners, tx, cancel, stopped, rollbacks>>

\* change_runner_plan; the row lock waits for a Planner that holds the plan.
PausePlan(p) ==
    /\ planRow[p].status = "active" /\ p \notin Locked
    /\ planRow' = [planRow EXCEPT ![p].status = "paused"]
    /\ UNCHANGED <<databaseNow, dispatches, runners, tx, cancel, stopped, rollbacks>>

ResumePlan(p) ==
    /\ planRow[p].status = "paused" /\ p \notin Locked
    /\ planRow' = [planRow EXCEPT ![p].status = "active"]
    /\ UNCHANGED <<databaseNow, dispatches, runners, tx, cancel, stopped, rollbacks>>

CancelledNodes(ds) ==
    [i \in DOMAIN ds |-> IF ds[i].state = "pending" THEN [ds[i] EXCEPT !.state = "cancelled"]
                         ELSE ds[i]]

\* Variant: the row is read and written without its lock.
CancelPlanUnlocked(p) ==
    /\ planRow[p].status \in {"active", "paused"}
    /\ planRow' = [planRow EXCEPT ![p].status = "cancelled"]
    /\ dispatches' = [dispatches EXCEPT ![p] = CancelledNodes(@)]
    /\ UNCHANGED <<databaseNow, runners, tx, cancel, stopped, rollbacks>>

CancelPlan(p) ==
    /\ planRow[p].status \in {"active", "paused"} /\ p \notin Locked
    /\ planRow' = [planRow EXCEPT ![p].status = "cancelled"]
    /\ dispatches' = [dispatches EXCEPT ![p] = CancelledNodes(@)]
    /\ UNCHANGED <<databaseNow, runners, tx, cancel, stopped, rollbacks>>

-----------------------------------------------------------------------------
\* Variant: only a fire of this very moment is due.
DueExactly(p, t) == planRow[p].status = "active" /\ planRow[p].next = t

Due(p, t) == planRow[p].status = "active" /\ planRow[p].next <= t

Claimable == {p \in Plans : Due(p, databaseNow) /\ p \notin Locked}

\* The SELECT of due plans: the earliest ones, as many as a batch takes.
LockDuePlans(w) ==
    /\ tx[w] = NoTx /\ Claimable # {}
    /\ \E ps \in SUBSET Claimable :
        /\ Cardinality(ps) = Min({BatchSize, Cardinality(Claimable)})
        /\ \A p \in ps, q \in Claimable \ ps : planRow[p].next <= planRow[q].next
        /\ tx' = [tx EXCEPT ![w] = [now |-> databaseNow, rows |-> [p \in ps |-> planRow[p]]]]
    /\ UNCHANGED <<databaseNow, planRow, dispatches, runners, cancel, stopped, rollbacks>>

\* Variant: an exhausted plan is found one occurrence late.
ExhaustedLate(p, r) == r.cursor > Timing[p].maxOccurrences

Exhausted(p, r) == r.cursor >= Timing[p].maxOccurrences

\* The plan after an occurrence: the next one, or the end of the plan.
Advance(p, r, planned) ==
    LET moved == [r EXCEPT !.cursor = @ + 1]
        fire == FireAfter(Timing[p].recurrence, r.start, planned)
    IN IF Exhausted(p, moved) \/ fire > Timing[p].endsAt
       THEN [moved EXCEPT !.status = "completed", !.next = NoTime]
       ELSE [moved EXCEPT !.next = fire]

\* One turn of the misfire loop: an occurrence before the grace boundary is
\* skipped.
SkipMisfire(p, r, t) ==
    IF r.status = "active" /\ r.next < t - Timing[p].grace
    THEN [Advance(p, r, r.next) EXCEPT !.skipped = @ + 1]
    ELSE r

\* The plan after each turn of the loop, which ends within the horizon.
Misfires(p, row, t) ==
    LET turn[i \in 0..(Horizon + 1)] ==
            IF i = 0 THEN row ELSE SkipMisfire(p, turn[i - 1], t)
    IN turn

AfterMisfires(p, row, t) == Misfires(p, row, t)[Horizon + 1]

\* Variant: only Runners that execute count.
RunningRunners(p) == {i \in DOMAIN runners[p] : runners[p][i].status = "running"}

\* The Runners of the plan that keep the next occurrence from being emitted.
ActiveRunners(p) == {i \in DOMAIN runners[p] : runners[p][i].status \in Active}

ShouldEmit(p) ==
    Timing[p].overlap = "skip" =>
        /\ ActiveRunners(p) = {}
        /\ \A i \in DOMAIN dispatches[p] : dispatches[p][i].state # "pending"

\* _materialize_plan: the plan, and whether it leaves a pending node.
Materialized(p, row, t) ==
    LET r == AfterMisfires(p, row, t)
        emit == ShouldEmit(p)
        fired == [Advance(p, r, r.next) EXCEPT
                    !.last = r.next,
                    !.skipped = IF emit THEN @ ELSE @ + 1]
    IN IF r.status = "completed" \/ r.next > t
       THEN [plan |-> r, nodes |-> <<>>]
       ELSE [plan |-> fired,
             nodes |-> IF emit THEN <<[occurrence |-> r.cursor, due |-> r.next, state |-> "pending"]>>
                       ELSE <<>>]

\* The places of a sequence kept for each plan.
Places(s) == UNION {{p} \X DOMAIN s[p] : p \in Plans}

\* The plans and the nodes that the transaction writes.
Results(w) == [p \in DOMAIN tx[w].rows |-> Materialized(p, tx[w].rows[p], tx[w].now)]

WithNodes(result) ==
    [p \in Plans |-> IF p \in DOMAIN result THEN dispatches[p] \o result[p].nodes
                     ELSE dispatches[p]]

\* The second SELECT: the pending nodes of any plan that are due.
Pending(ds, t) ==
    {d \in Places(ds) : ds[d[1]][d[2]].state = "pending" /\ ds[d[1]][d[2]].due <= t}

\* Its LIMIT.
EmissionLimit(w) == BatchSize

\* The k-th smallest of a set of numbers.
Nth(S, k) == CHOOSE i \in S : Cardinality({j \in S : j <= i}) = k

\* _emit_dispatch for the nodes es of a plan, in their order.
QueuedRunner(node, t) ==
    [occurrence |-> node.occurrence, due |-> node.due, at |-> t,
     status |-> "queued", cancelRequested |-> FALSE]

EmittedIn(p, nodes, es) == {i \in DOMAIN nodes : <<p, i>> \in es}

NewRunners(p, nodes, es, t) ==
    [k \in 1..Cardinality(EmittedIn(p, nodes, es)) |->
        QueuedRunner(nodes[Nth(EmittedIn(p, nodes, es), k)], t)]

\* The writes of the transaction: the plans move on, then the earliest pending
\* nodes of any plan become Runners, and all of it commits.
Materialize(w) ==
    LET result == Results(w)
        ds == WithNodes(result)
        pending == Pending(ds, tx[w].now)
    IN /\ tx[w] # NoTx
       /\ \E es \in SUBSET pending :
            /\ Cardinality(es) = Min({EmissionLimit(w), Cardinality(pending)})
            /\ \A d \in es, e \in pending \ es : ds[d[1]][d[2]].due <= ds[e[1]][e[2]].due
            /\ dispatches' = [p \in Plans |-> [i \in DOMAIN ds[p] |->
                    IF <<p, i>> \in es THEN [ds[p][i] EXCEPT !.state = "emitted"]
                    ELSE ds[p][i]]]
            /\ runners' = [p \in Plans |-> runners[p] \o NewRunners(p, ds[p], es, tx[w].now)]
            /\ planRow' = [p \in Plans |->
                    LET r == IF p \in DOMAIN result THEN result[p].plan ELSE planRow[p]
                    IN [r EXCEPT !.emitted = @ + Cardinality(EmittedIn(p, ds[p], es))]]
       /\ tx' = [tx EXCEPT ![w] = NoTx]
       /\ UNCHANGED <<databaseNow, cancel, stopped, rollbacks>>

\* The transaction fails and is rolled back; Planner._run logs it and polls on.
MaterializeFails(w) ==
    /\ tx[w] # NoTx /\ rollbacks < MaxRollbacks
    /\ rollbacks' = rollbacks + 1
    /\ tx' = [tx EXCEPT ![w] = NoTx]
    /\ UNCHANGED <<databaseNow, planRow, dispatches, runners, cancel, stopped>>

-----------------------------------------------------------------------------
\* start_selected: a row that the cancellation has locked waits for its end.
StartRunner(p, i) ==
    /\ runners[p][i].status = "queued" /\ ~runners[p][i].cancelRequested
    /\ <<p, i>> \notin cancel.seen
    /\ runners' = [runners EXCEPT ![p][i].status = "running"]
    /\ UNCHANGED <<databaseNow, planRow, dispatches, tx, cancel, stopped, rollbacks>>

\* complete_runner or finish_runner.
EndRunner(p, i) ==
    /\ runners[p][i].status = "running" /\ <<p, i>> \notin cancel.seen
    /\ runners' = [runners EXCEPT ![p][i].status = "ended"]
    /\ UNCHANGED <<databaseNow, planRow, dispatches, tx, cancel, stopped, rollbacks>>

\* request_cancel_campaign: first the Runners of the Campaign are locked ...
LockRunners ==
    /\ cancel.stage = "idle"
    /\ cancel' = [stage |-> "runners", seen |-> Places(runners)]
    /\ UNCHANGED <<databaseNow, planRow, dispatches, runners, tx, stopped, rollbacks>>

Cancelled(r) ==
    CASE r.status = "queued" -> [r EXCEPT !.status = "cancelled", !.cancelRequested = TRUE]
      [] r.status = "running" -> [r EXCEPT !.cancelRequested = TRUE]
      [] OTHER -> r

\* ... then its plans and nodes, once no Planner holds one, and all that was
\* read is cancelled.
CancelCampaign ==
    /\ cancel.stage = "runners" /\ Locked = {}
    /\ planRow' = [p \in Plans |-> IF planRow[p].status \in {"active", "paused"}
                                THEN [planRow[p] EXCEPT !.status = "cancelled"] ELSE planRow[p]]
    /\ dispatches' = [p \in Plans |-> CancelledNodes(dispatches[p])]
    /\ runners' = [p \in Plans |-> [i \in DOMAIN runners[p] |->
                    IF <<p, i>> \in cancel.seen THEN Cancelled(runners[p][i]) ELSE runners[p][i]]]
    /\ stopped' = {p \in Plans : planRow[p].status # "absent"}
    /\ cancel' = [stage |-> "done", seen |-> {}]
    /\ UNCHANGED <<databaseNow, tx, rollbacks>>

Tick ==
    /\ databaseNow < Horizon
    /\ databaseNow' = databaseNow + 1
    /\ UNCHANGED <<planRow, dispatches, runners, tx, cancel, stopped, rollbacks>>

Next ==
    \/ Tick
    \/ \E p \in Plans : CreatePlan(p) \/ PausePlan(p) \/ ResumePlan(p) \/ CancelPlan(p)
    \/ \E w \in Planners : LockDuePlans(w) \/ Materialize(w) \/ MaterializeFails(w)
    \/ \E p \in Plans : \E i \in DOMAIN runners[p] : StartRunner(p, i) \/ EndRunner(p, i)
    \/ LockRunners
    \/ CancelCampaign

Spec == Init /\ [][Next]_vars

\* Time passes, Planners poll again after every error, and the transactions of
\* Planners and of a cancellation end.
Fairness ==
    /\ WF_vars(Tick)
    /\ \A w \in Planners : WF_vars(LockDuePlans(w)) /\ []<>(tx[w] = NoTx)
    /\ WF_vars(CancelCampaign)

FairSpec == Spec /\ Fairness

-----------------------------------------------------------------------------
PlanStatuses == {"absent", "active", "paused", "completed", "cancelled"}
PlanRows == [status : PlanStatuses, start : Instant \cup {NoTime},
             next : Instant \cup {NoTime, Never}, last : Instant \cup {NoTime},
             cursor : Nat, skipped : Nat, emitted : Nat]
Nodes == [occurrence : Nat, due : Instant, state : {"pending", "emitted", "cancelled"}]
RunnerRows == [occurrence : Nat, due : Instant, at : Instant, status : RunnerStatuses,
               cancelRequested : BOOLEAN]

\* Plans, nodes, Runners and open transactions keep their types, and a plan that
\* goes on has a next fire.
TypeOK ==
    /\ databaseNow \in Instant
    /\ planRow \in [Plans -> PlanRows]
    /\ \A p \in Plans : planRow[p].status \in {"active", "paused"} => planRow[p].next # NoTime
    /\ dispatches \in [Plans -> Seq(Nodes)]
    /\ runners \in [Plans -> Seq(RunnerRows)]
    /\ \A w \in Planners :
        /\ tx[w].now \in Instant \cup {NoTime}
        /\ DOMAIN tx[w].rows \subseteq Plans
        /\ \A p \in DOMAIN tx[w].rows : tx[w].rows[p] \in PlanRows
    /\ cancel \in [stage : {"idle", "runners", "done"}, seen : SUBSET (Plans \X Nat)]
    /\ stopped \subseteq Plans
    /\ rollbacks \in 0..MaxRollbacks

\* The counters of a plan agree with its history whatever Planners compete and
\* fail: every occurrence up to the cursor was skipped or has one node, every
\* emitted node is one Runner, and no occurrence has two.
OccurrencesAccounted ==
    \A p \in Plans :
        /\ planRow[p].cursor = planRow[p].skipped + Len(dispatches[p])
        /\ planRow[p].emitted = Len(runners[p])
        /\ \A i, j \in DOMAIN runners[p] :
                i < j => runners[p][i].occurrence < runners[p][j].occurrence
        /\ \A i \in DOMAIN runners[p] : runners[p][i].occurrence < planRow[p].cursor

\* No transaction leaves a pending node of a plan behind: a Planner emits every
\* node it writes, so a pause, a cancellation or another Planner never meets one.
NoneLeftPending ==
    \A p \in Plans : \A i \in DOMAIN dispatches[p] : dispatches[p][i].state # "pending"

\* No Runner is emitted before it is due or later than the misfire grace allows.
EmittedInGrace ==
    \A p \in Plans : \A i \in DOMAIN runners[p] :
        runners[p][i].at - runners[p][i].due \in 0..Timing[p].grace

\* overlap_policy skip: never two Runners of the plan queued or running.
SkipKeepsOneActive ==
    \A p \in Plans : Timing[p].overlap = "skip" =>
        \A i, j \in DOMAIN runners[p] :
            runners[p][i].status \in Active /\ runners[p][j].status \in Active => i = j

\* The rows of a plan, its nodes and its Runners tell one history, between any
\* two transactions: the facts above.
LedgerInvariant ==
    TypeOK /\ OccurrencesAccounted /\ NoneLeftPending /\ EmittedInGrace /\ SkipKeepsOneActive

\* preview_fires of a plan with this start.
Shown(p, start) == Preview(Timing[p].recurrence, start, Immediate(p),
                           Timing[p].endsAt, Timing[p].maxOccurrences)

IsShown(p, start, occurrence, due) ==
    occurrence + 1 \in DOMAIN Shown(p, start) /\ Shown(p, start)[occurrence + 1] = due

\* Through misfires, pauses, overlaps and rollbacks, an occurrence is due when
\* preview_fires said so, and so is the next one of an unfinished plan (within
\* the horizon of the search); a plan completes after the last one shown.
OccurrencesAsPreviewed ==
    \A p \in Plans :
        LET start == planRow[p].start IN
        planRow[p].status # "absent" =>
            /\ \A i \in DOMAIN runners[p] :
                    IsShown(p, start, runners[p][i].occurrence, runners[p][i].due)
            /\ planRow[p].next \in Instant => IsShown(p, start, planRow[p].cursor, planRow[p].next)
            /\ planRow[p].status = "completed" => planRow[p].cursor = Len(Shown(p, start))

\* A plan that is paused, completed or cancelled emits nothing, and completed
\* and cancelled are final.
OnlyActivePlansEmit ==
    [][\A p \in Plans :
        /\ Len(runners'[p]) > Len(runners[p]) => planRow[p].status = "active"
        /\ planRow[p].status \in {"completed", "cancelled"} => planRow'[p].status = planRow[p].status]_vars

\* "Cancellation applies to the Campaign's plans, pending nodes, and
\* queued/running Runners" (docs/scheduling.md): once it has returned, no Runner
\* of the plans it covered is queued or runs unasked to stop.
CancellationCoversRunners ==
    \A p \in stopped : \A i \in DOMAIN runners[p] :
        /\ runners[p][i].status # "queued"
        /\ runners[p][i].status = "running" => runners[p][i].cancelRequested

\* A plan left alone goes through its occurrences to its end.
PlansComplete == \A p \in Plans : (planRow[p].status = "active") ~> (planRow[p].status # "active")

=============================================================================
