--------------------------- MODULE CampaignStatus ---------------------------
(***************************************************************************)
(* The status of a Campaign and a client that waits for its end.           *)
(*                                                                         *)
(* A Campaign has no status of its own: get_campaign_status counts the     *)
(* Runners, the plans, the task instances and the nodes, one statement     *)
(* after the other, and _campaign_runtime makes a status of the counts.    *)
(* llmperfctl polls it (wait_for_campaign), or the Runners one by one      *)
(* (wait_for_runners), and turns the answer into its exit code.            *)
(*                                                                         *)
(* The transactions that change the rows are those of RunnerPlan,          *)
(* TaskInstance and RunnerLifecycle, reduced to what the counts tell       *)
(* apart, and those that add Runners or a plan to a Campaign, which no     *)
(* status of it forbids.  The Campaign has at most one plan and one task   *)
(* instance.                                                               *)
(***************************************************************************)
EXTENDS Naturals, FiniteSets

CONSTANTS
    Runners,        \* those the Campaign may come to have
    Forms,          \* the kinds of Campaigns: where each Runner comes from
    NoAnswer

VARIABLES
    source,         \* "direct", "added", "plan" or "task", for each Runner
    runner,         \* BenchmarkRunnerRecord.status, or "absent"
    node,           \* ExecutionNodeRecord.state of the Runner, or "absent"
    stopping,       \* the Runners with cancel_requested
    plan,           \* BenchmarkRunnerPlanRecord.status, or "none"
    instance,       \* BenchmarkTaskInstanceRecord.state, or "none"
    client,         \* what the client waits for: "campaign" or "runners"
    poll,           \* the statements of the poll that have been executed
    seen,           \* what they returned
    emitted,        \* has a Runner or a plan been created since the first of them?
    answer          \* what the client returned

rows == <<source, runner, node, stopping, plan, instance>>
reader == <<client, poll, seen, answer>>
vars == <<rows, reader, emitted>>

RunnerStates == {"queued", "running", "succeeded", "failed", "cancelled"}
PlanStates == {"active", "paused", "completed", "cancelled"}
TaskStates == {"planned", "active", "completed", "failed", "cancelled"}
NodeStates == {"blocked", "pending", "emitted", "cancelled"}
Outcomes == {"succeeded", "failed", "cancelled"}
Of(kind) == {r \in Runners : source[r] = kind}

NothingSeen == [runners |-> {}, plans |-> {}, tasks |-> {}, nodes |-> {}]

\* _new_runner_plan: a plan with no fire left is completed at once.
NewPlan == {"active", "completed"}

\* The rows of a submission, which may leave the plan to a later request.
Init ==
    /\ source \in Forms
    /\ runner = [r \in Runners |-> IF source[r] = "direct" THEN "queued" ELSE "absent"]
    /\ node \in [Runners -> {"absent", "blocked", "pending"}]
    /\ \A r \in Runners : node[r] = "absent" <=> source[r] # "task"
    /\ Of("task") # {} => \E r \in Runners : node[r] = "pending"       \* a graph has a root
    /\ stopping = {}
    /\ plan \in {"none"} \cup (IF Of("plan") = {} THEN {} ELSE NewPlan)
    /\ instance = IF Of("task") = {} THEN "none" ELSE "planned"
    /\ client \in {"campaign"} \cup (IF Of("direct") = {} THEN {} ELSE {"runners"})
    /\ poll = "idle"
    /\ seen = NothingSeen
    /\ emitted = FALSE
    /\ answer = NoAnswer

-----------------------------------------------------------------------------
(* The rows change.                                                        *)

\* create_runner and create_runners, of an existing Campaign whatever its rows say.
AddRunners ==
    /\ \E batch \in SUBSET {r \in Of("added") : runner[r] = "absent"} :
        /\ batch # {}
        /\ runner' = [r \in Runners |-> IF r \in batch THEN "queued" ELSE runner[r]]
    /\ emitted' = TRUE
    /\ UNCHANGED <<source, node, stopping, plan, instance, reader>>

\* create_runner_plan, likewise.
AddPlan ==
    /\ Of("plan") # {} /\ plan = "none"
    /\ plan' \in NewPlan
    /\ emitted' = TRUE
    /\ UNCHANGED <<source, runner, node, stopping, instance, reader>>

\* An exhausted plan ends with its last occurrence.
PlanAfterFire == {"active", "completed"}

\* The Planner emits an occurrence.
Fire(r) ==
    /\ source[r] = "plan" /\ plan = "active" /\ node[r] = "absent"
    /\ node' = [node EXCEPT ![r] = "emitted"]
    /\ runner' = [runner EXCEPT ![r] = "queued"]
    /\ plan' \in PlanAfterFire
    /\ emitted' = TRUE
    /\ UNCHANGED <<source, stopping, instance, reader>>

\* The Planner skips what is left of the plan.
SkipRest ==
    /\ plan = "active"
    /\ plan' = "completed"
    /\ UNCHANGED <<source, runner, node, stopping, instance, reader, emitted>>

\* pause, resume and cancel of the plan.
SetPlan ==
    /\ plan \in {"active", "paused"}
    /\ plan' \in {"active", "paused", "cancelled"} \ {plan}
    /\ UNCHANGED <<source, runner, node, stopping, instance, reader, emitted>>

TaskPending == instance \in {"planned", "active"}

\* activate_node; a blocked node waits for the success of another.
Activate(r) ==
    /\ node[r] \in {"blocked", "pending"} /\ TaskPending
    /\ node[r] = "blocked" => \E q \in Of("task") : runner[q] = "succeeded"
    /\ node' = [node EXCEPT ![r] = "emitted"]
    /\ runner' = [runner EXCEPT ![r] = "queued"]
    /\ instance' = "active"
    /\ emitted' = TRUE
    /\ UNCHANGED <<source, stopping, plan, reader>>

\* start_selected
Start(r) ==
    /\ runner[r] = "queued"
    /\ runner' = [runner EXCEPT ![r] =
            IF source[r] = "task" /\ ~TaskPending THEN "cancelled" ELSE "running"]
    /\ UNCHANGED <<source, node, stopping, plan, instance, reader, emitted>>

Open(r) == node[r] \in {"blocked", "pending"}

\* No node of the instance is unfinished once r has succeeded.
AllSucceeded(r) == \A q \in Of("task") \ {r} : runner[q] = "succeeded"

\* The end of a Runner, with the checkpoint of its task in one transaction; a
\* success may still fail the instance by its prompt hash.
End(r, outcome) ==
    \/ /\ source[r] # "task" \/ ~TaskPending
       /\ runner' = [runner EXCEPT ![r] = outcome]
       /\ UNCHANGED <<node, stopping, instance>>
    \/ /\ source[r] = "task" /\ TaskPending
       /\ instance' = IF outcome = "cancelled" THEN "cancelled" ELSE "failed"
       /\ runner' = [q \in Runners |->
            IF q = r THEN outcome
            ELSE IF source[q] = "task" /\ runner[q] = "queued" THEN "cancelled" ELSE runner[q]]
       /\ node' = [q \in Runners |-> IF Open(q) THEN "cancelled" ELSE node[q]]
       /\ UNCHANGED stopping
    \/ /\ source[r] = "task" /\ TaskPending /\ outcome = "succeeded"
       /\ instance' = IF AllSucceeded(r) THEN "completed" ELSE "active"
       /\ runner' = [runner EXCEPT ![r] = outcome]
       /\ UNCHANGED <<node, stopping>>

\* complete_runner and finish_runner
Finish(r) ==
    /\ runner[r] = "running"
    /\ \E outcome \in IF r \in stopping THEN {"failed", "cancelled"} ELSE {"succeeded", "failed"} :
            End(r, outcome)
    /\ UNCHANGED <<source, plan, reader, emitted>>

\* request_cancel
RequestCancel(r) ==
    /\ \/ /\ runner[r] = "queued"
          /\ End(r, "cancelled")
       \/ /\ runner[r] = "running"
          /\ stopping' = stopping \cup {r}
          /\ UNCHANGED <<runner, node, instance>>
    /\ UNCHANGED <<source, plan, reader, emitted>>

\* request_cancel_campaign; the Runners created while it waits for the locks
\* of the plan or the instance are not among those it has read.
CancelCampaign ==
    /\ \E missed \in SUBSET {r \in Runners : node[r] = "emitted" \/ source[r] = "added"} :
        LET active == {r \in Runners \ missed : runner[r] \in {"queued", "running"}} IN
        /\ runner' = [r \in Runners |->
                IF r \in active /\ runner[r] = "queued" THEN "cancelled" ELSE runner[r]]
        /\ stopping' = stopping \cup active
    /\ plan' = IF plan \in {"active", "paused"} THEN "cancelled" ELSE plan
    /\ instance' = IF TaskPending THEN "cancelled" ELSE instance
    /\ node' = [r \in Runners |-> IF Open(r) THEN "cancelled" ELSE node[r]]
    /\ UNCHANGED <<source, reader, emitted>>

-----------------------------------------------------------------------------
(* _campaign_runtime: what it makes of the rows.  A set of rows is a set    *)
(* of pairs: an identity and a state.                                       *)

Rows(f, absent) == {<<r, f[r]>> : r \in {q \in DOMAIN f : f[q] # absent}}
One(state) == IF state = "none" THEN {} ELSE {<<0, state>>}
Count(table, state) == Cardinality({row \in table : row[2] = state})
All(table, state) == table # {} /\ \A row \in table : row[2] = state
CancelledOr(table, other) == IF All(table, "cancelled") THEN "cancelled" ELSE other

Status(s) ==
    CASE Count(s.runners, "running") > 0 -> "running"
      [] Count(s.runners, "running") = 0 /\ Count(s.runners, "queued") > 0 -> "queued"
      [] OTHER ->
            IF \/ Count(s.tasks, "planned") + Count(s.tasks, "active") > 0
               \/ Count(s.nodes, "blocked") + Count(s.nodes, "pending") > 0
               \/ Count(s.plans, "active") > 0
            THEN "planned"
            ELSE IF Count(s.plans, "paused") > 0 THEN "paused"
            ELSE IF s.runners # {} THEN CancelledOr(s.runners, "completed")
            ELSE IF s.plans # {} THEN CancelledOr(s.plans, "completed")
            ELSE IF s.tasks # {} THEN CancelledOr(s.tasks, "completed")
            ELSE IF s.nodes # {} THEN CancelledOr(s.nodes, "completed")
            ELSE "empty"

\* Variant: the outcome is made of the Runners alone.
OutcomeOfRunners(s) ==
    IF Status(s) \in {"running", "queued", "planned", "paused"} THEN "pending"
    ELSE IF s.runners = {} THEN IF Status(s) = "cancelled" THEN "cancelled" ELSE "no_runs"
    ELSE IF Count(s.runners, "failed") > 0
         THEN IF All(s.runners, "failed") THEN "failed" ELSE "partial_failed"
    ELSE IF All(s.runners, "succeeded") THEN "succeeded" ELSE "cancelled"

Outcome(s) ==
    LET failed == Count(s.runners, "failed") IN
    IF Status(s) \in {"running", "queued", "planned", "paused"} THEN "pending"
    ELSE IF Count(s.tasks, "failed") > 0
         THEN IF All(s.tasks, "failed") THEN "failed" ELSE "partial_failed"
    ELSE IF s.runners = {} THEN IF Status(s) = "cancelled" THEN "cancelled" ELSE "no_runs"
    ELSE IF failed > 0 THEN IF All(s.runners, "failed") THEN "failed" ELSE "partial_failed"
    ELSE IF All(s.runners, "succeeded") THEN "succeeded"
    ELSE IF Count(s.runners, "cancelled") > 0 THEN "cancelled" ELSE "no_runs"

\* Everything read at once.
Now == [runners |-> Rows(runner, "absent"), plans |-> One(plan), tasks |-> One(instance),
        nodes |-> Rows(node, "absent")]

-----------------------------------------------------------------------------
(* The client.                                                             *)

Read(from, to, part) ==
    /\ client = "campaign" /\ answer = NoAnswer /\ poll = from
    /\ poll' = to
    /\ seen' = [seen EXCEPT ![part] = Now[part]]
    /\ UNCHANGED <<rows, client, answer>>

\* The four statements of get_campaign_status.
ReadRunners == Read("idle", "plans", "runners") /\ emitted' = FALSE
ReadPlans == Read("plans", "tasks", "plans") /\ UNCHANGED emitted
ReadTasks == Read("tasks", "nodes", "tasks") /\ UNCHANGED emitted
ReadNodes == Read("nodes", "read", "nodes") /\ UNCHANGED emitted

\* Variant: a cancelled Campaign is polled on.
TerminalUnlessCancelled == {"completed", "empty"}

CAMPAIGN_TERMINAL_STATUSES == {"completed", "cancelled", "empty"}

\* wait_for_campaign: return, or sleep and poll again.
Decide ==
    /\ poll = "read"
    /\ answer' = IF Status(seen) \in CAMPAIGN_TERMINAL_STATUSES
                 THEN [status |-> Status(seen), outcome |-> Outcome(seen),
                       runners |-> seen.runners]
                 ELSE NoAnswer
    /\ poll' = "idle"
    /\ seen' = NothingSeen
    /\ UNCHANGED <<rows, client, emitted>>

\* wait_for_runners: get_runner of those not yet seen at their end.
PollRunner(r) ==
    /\ client = "runners" /\ answer = NoAnswer
    /\ source[r] = "direct" /\ r \notin {row[1] : row \in seen.runners}
    /\ runner[r] \in Outcomes
    /\ seen' = [seen EXCEPT !.runners = @ \cup {<<r, runner[r]>>}]
    /\ UNCHANGED <<rows, client, poll, emitted, answer>>

ReturnRunners ==
    /\ client = "runners" /\ answer = NoAnswer
    /\ {row[1] : row \in seen.runners} = Of("direct")
    /\ answer' = [status |-> "completed", runners |-> seen.runners,
                  outcome |-> IF \E row \in seen.runners : row[2] # "succeeded"
                              THEN "failed" ELSE "succeeded"]
    /\ UNCHANGED <<rows, client, poll, seen, emitted>>

UNSUCCESSFUL_OUTCOMES == {"partial_failed", "failed", "cancelled"}

\* _has_unsuccessful_runner: the exit code of llmperfctl.
ExitSuccess ==
    answer.outcome \notin UNSUCCESSFUL_OUTCOMES /\ answer.status \notin {"failed", "cancelled"}

PollCampaign == ReadRunners \/ ReadPlans \/ ReadTasks \/ ReadNodes \/ Decide

Next ==
    \/ \E r \in Runners : Fire(r) \/ Activate(r) \/ Start(r) \/ Finish(r) \/ RequestCancel(r)
                          \/ PollRunner(r)
    \/ AddRunners \/ AddPlan \/ SkipRest \/ SetPlan \/ CancelCampaign
    \/ PollCampaign \/ ReturnRunners

Spec == Init /\ [][Next]_vars

\* wait_for_campaign and wait_for_runners have no timeout unless one is asked
\* for, and a poll returns.
Fairness ==
    /\ WF_vars(PollCampaign)
    /\ WF_vars(\E r \in Runners : PollRunner(r)) /\ WF_vars(ReturnRunners)

FairSpec == Spec /\ Fairness

-----------------------------------------------------------------------------
(* Properties.                                                             *)

\* Nothing of the Campaign executes or will.
Over ==
    /\ \A r \in Runners : runner[r] \notin {"queued", "running"} /\ ~Open(r)
    /\ plan \notin {"active", "paused"} /\ ~TaskPending

RowIds(table) == {row[1] : row \in table}

\* As long as nothing was added to the Campaign since the first statement of its
\* last poll, what wait_for_campaign returned is the truth: the Campaign is over
\* with just that outcome.  And whatever was added meanwhile or later, the Runners
\* of the submission were read, those that were read are at the end that was read,
\* the task instance is not pending, and a successful exit code means that none of
\* these failed or was cancelled.
AnswerIsTrue ==
    answer # NoAnswer =>
        /\ client = "campaign" /\ ~emitted =>
            /\ Over /\ answer.status = Status(Now) /\ answer.outcome = Outcome(Now)
            /\ ExitSuccess => \A r \in Runners : runner[r] \in {"absent", "succeeded"}
        /\ Of("direct") \subseteq RowIds(answer.runners)
        /\ \A row \in answer.runners : row[2] \in Outcomes /\ runner[row[1]] = row[2]
        /\ client = "campaign" => ~TaskPending
        /\ ExitSuccess =>
            /\ \A r \in Runners :
                    source[r] = "direct" \/ r \in RowIds(answer.runners) => runner[r] = "succeeded"
            /\ client = "campaign" => instance # "failed"

SubmissionEnded == \A r \in Of("direct") : runner[r] \in Outcomes

\* A client that waits for a Campaign that ends is answered, unless something is
\* added to it; one that waits for the Runners of the submission is, in any case.
WaitEnds ==
    /\ Over ~> answer # NoAnswer \/ ~Over
    /\ client = "runners" /\ SubmissionEnded ~> answer # NoAnswer

-----------------------------------------------------------------------------
(* What AnswerIsTrue rests on.                                             *)

RowsTyped ==
    /\ source \in [Runners -> {"direct", "added", "plan", "task"}]
    /\ runner \in [Runners -> RunnerStates \cup {"absent"}]
    /\ node \in [Runners -> NodeStates \cup {"absent"}]
    /\ plan \in PlanStates \cup {"none"}
    /\ instance \in TaskStates \cup {"none"}
    /\ emitted \in BOOLEAN
    /\ client \in {"campaign", "runners"}
    /\ poll \in {"idle", "plans", "tasks", "nodes", "read"}
    /\ client = "runners" => poll = "idle"
    /\ \A r \in Runners : source[r] = "direct" => runner[r] # "absent"
    /\ \A r \in Runners : source[r] \in {"direct", "added"} => node[r] = "absent"
    /\ \A r \in Runners : source[r] \in {"plan", "task"} /\ node[r] # "emitted" => runner[r] = "absent"

\* No row is in one of the states.
Free(table, states) == \A row \in table : row[2] \notin states

\* A Runner that was read at its end is there for good.
EndsAreKept(table) == \A row \in table : row[2] \in Outcomes => runner[row[1]] = row[2]

\* What a poll has read of rows at their end is still so when it decides, unless
\* something has been added in between; Runners at their end and the task instance
\* in any case.
ReadIsCurrent ==
    /\ seen \in [runners : SUBSET (Runners \X RunnerStates), plans : SUBSET ({0} \X PlanStates),
                 tasks : SUBSET ({0} \X TaskStates), nodes : SUBSET (Runners \X NodeStates)]
    /\ client = "campaign" /\ poll # "idle" /\ ~emitted /\ Free(seen.runners, {"queued", "running"})
            => seen.runners = Now.runners
    /\ client = "campaign" /\ poll # "idle" => Of("direct") \subseteq RowIds(seen.runners)
    /\ EndsAreKept(seen.runners)
    /\ poll \in {"tasks", "nodes", "read"} /\ ~emitted /\ Free(seen.plans, {"active", "paused"})
            => seen.plans = Now.plans
    /\ poll \in {"nodes", "read"} /\ Free(seen.tasks, {"planned", "active"})
            => seen.tasks = Now.tasks
    /\ poll = "read" /\ ~emitted /\ Free(seen.nodes, {"blocked", "pending"})
            => seen.nodes = Now.nodes
    /\ client = "runners" => \A row \in seen.runners : row[2] \in Outcomes

\* An answer stays true.
AnswerStays ==
    answer # NoAnswer =>
        /\ poll = "idle"
        /\ client = "campaign" /\ ~emitted =>
                /\ Over /\ answer.status = Status(Now) /\ answer.outcome = Outcome(Now)
                /\ answer.status \in CAMPAIGN_TERMINAL_STATUSES
        /\ answer.runners \subseteq Runners \X Outcomes
        /\ Of("direct") \subseteq RowIds(answer.runners)
        /\ EndsAreKept(answer.runners)
        /\ client = "campaign" => ~TaskPending
        /\ ExitSuccess =>
            /\ \A row \in answer.runners : row[2] = "succeeded"
            /\ client = "campaign" => instance # "failed"

StatusInvariant == RowsTyped /\ ReadIsCurrent /\ AnswerStays
=============================================================================
