---------------------------- MODULE ProgressViews ----------------------------
(***************************************************************************)
(* The progress documents of the API (api/progress.py).  A Runner's view   *)
(* merges its Worker rows with what the Scheduler knows of its execution;  *)
(* a Campaign's view is counted by the database over all of its Runners,   *)
(* and then corrected for those that are resident in the Scheduler.        *)
(*                                                                         *)
(* Each view is taken here of one state: a real one reads the rows and the *)
(* Scheduler one after the other (see README).                             *)
(***************************************************************************)
EXTENDS Integers, FiniteSets, Functions

CONSTANTS
    Units,          \* Runners
    CampaignOf,     \* the Campaign of each
    BenchmarkOf,    \* repeat, steps and cache_probe of each
    Null            \* no row, no handle, not sampled

VARIABLES
    unit,           \* queued, running or a terminal status, or Null: no row
    worker,         \* WorkerRecord: state and submitted_at of each, or Null
    handle,         \* _active_workers: phase, created_workers and admission, or Null
    waiting,        \* the Workers that wait in the dispatcher
    pool,           \* _pool_status: queued and running of each Runner, or Null
    sampled         \* is the pool status recent?

vars == <<unit, worker, handle, waiting, pool, sampled>>

\* planned_worker_count, the column planned_workers.
PlannedWorkerCount(b) ==
    IF b.probe # Null THEN b.probe.trials * (1 + b.probe.repeats)
    ELSE b.repeat * (IF b.steps = 0 THEN 1 ELSE b.steps)
Numbers(u) == 1..PlannedWorkerCount(BenchmarkOf[u])

Init ==
    /\ unit = [u \in Units |-> Null]
    /\ worker = [u \in Units |-> [n \in Numbers(u) |-> Null]]
    /\ handle = [u \in Units |-> Null]
    /\ waiting = [u \in Units |-> 0]
    /\ pool = [u \in Units |-> Null]
    /\ sampled = FALSE

-----------------------------------------------------------------------------
(* What changes underneath: see RunnerLifecycle and WorkerDispatcher.      *)

Row(state, at) == [state |-> state, at |-> at]
With(u, n, row) == worker' = [worker EXCEPT ![u][n] = row]
Executing(u) == handle[u] # Null /\ handle[u].phase = "submitting"

CreateRunner(u) ==
    /\ unit[u] = Null
    /\ unit' = [unit EXCEPT ![u] = "queued"]
    /\ UNCHANGED <<worker, handle, waiting, pool, sampled>>

StartRunner(u) ==
    /\ unit[u] = "queued"
    /\ unit' = [unit EXCEPT ![u] = "running"]
    /\ UNCHANGED <<worker, handle, waiting, pool, sampled>>

\* The supervisor registers the execution, after the commit.
TakeHandle(u) ==
    /\ unit[u] = "running" /\ handle[u] = Null
    /\ handle' = [handle EXCEPT ![u] = [phase |-> "creating", created |-> 0, admitted |-> TRUE]]
    /\ UNCHANGED <<unit, worker, waiting, pool, sampled>>

\* execute_workers: the recipes exist, the rows do not yet.
CreateSteps(u) ==
    /\ handle[u] # Null /\ handle[u].phase = "creating"
    /\ handle' = [handle EXCEPT ![u] =
            [phase |-> "submitting", created |-> Cardinality(Numbers(u)), admitted |-> TRUE]]
    /\ UNCHANGED <<unit, worker, waiting, pool, sampled>>

\* RunnerAdmission: a cooling Runner gives its place away and comes back.
SwitchAdmission(u) ==
    /\ Executing(u)
    /\ handle' = [handle EXCEPT ![u].admitted = ~@]
    /\ UNCHANGED <<unit, worker, waiting, pool, sampled>>

\* Every Worker has ended: the results are summed up.
Aggregate(u) ==
    /\ Executing(u) /\ \A n \in Numbers(u) : worker[u][n] # Null
    /\ \A n \in Numbers(u) : worker[u][n].state \notin {"created", "submitted"}
    /\ handle' = [handle EXCEPT ![u].phase = "aggregating"]
    /\ UNCHANGED <<unit, worker, waiting, pool, sampled>>

InsertWorker(u, n) ==
    /\ Executing(u) /\ worker[u][n] = Null
    /\ With(u, n, Row("created", FALSE))
    /\ waiting' = [waiting EXCEPT ![u] = @ + 1]
    /\ UNCHANGED <<unit, handle, pool, sampled>>

SubmitWorker(u, n) ==
    /\ Executing(u) /\ worker[u][n] = Row("created", FALSE)
    /\ With(u, n, Row("submitted", TRUE))
    /\ waiting' = [waiting EXCEPT ![u] = @ - 1]
    /\ UNCHANGED <<unit, handle, pool, sampled>>

EndWorker(u, n) ==
    /\ Executing(u) /\ worker[u][n] = Row("submitted", TRUE)
    /\ \E state \in {"succeeded", "failed", "indeterminate"} : With(u, n, Row(state, TRUE))
    /\ UNCHANGED <<unit, handle, waiting, pool, sampled>>

\* The Runner ends, with a status no view counts apart: what is left of its
\* Workers is cancelled or indeterminate.
EndRunner(u) ==
    /\ unit[u] = "running"
    /\ unit' = [unit EXCEPT ![u] = "terminal"]
    /\ worker' = [worker EXCEPT ![u] = [n \in Numbers(u) |->
            CASE @[n] = Row("created", FALSE) -> Row("cancelled", FALSE)
              [] @[n] = Row("submitted", TRUE) -> Row("indeterminate", TRUE)
              [] OTHER -> @[n]]]
    /\ handle' = IF handle[u] = Null THEN handle ELSE [handle EXCEPT ![u].phase = "finished"]
    /\ waiting' = [waiting EXCEPT ![u] = 0]
    /\ UNCHANGED <<pool, sampled>>

\* The Scheduler drops the handle, after the commit.
DropHandle(u) ==
    /\ handle[u] # Null /\ handle[u].phase = "finished"
    /\ handle' = [handle EXCEPT ![u] = Null]
    /\ UNCHANGED <<unit, worker, waiting, pool, sampled>>

\* The router is asked for its status, or the last answer gets old.
Observe ==
    /\ pool' = [u \in Units |->
            LET n == Cardinality({k \in Numbers(u) : worker[u][k] = Row("submitted", TRUE)})
            IN IF n = 0 THEN Null ELSE [queued |-> n - 1, running |-> 1]]
    /\ sampled' = TRUE
    /\ UNCHANGED <<unit, worker, handle, waiting>>

Outdated ==
    /\ sampled
    /\ sampled' = FALSE
    /\ UNCHANGED <<unit, worker, handle, waiting, pool>>

Next ==
    \/ \E u \in Units :
        \/ CreateRunner(u) \/ StartRunner(u) \/ TakeHandle(u) \/ CreateSteps(u)
        \/ SwitchAdmission(u) \/ Aggregate(u) \/ EndRunner(u) \/ DropHandle(u)
        \/ \E n \in Numbers(u) : InsertWorker(u, n) \/ SubmitWorker(u, n) \/ EndWorker(u, n)
    \/ Observe \/ Outdated

Spec == Init /\ [][Next]_vars

-----------------------------------------------------------------------------
(* The views.                                                              *)

Rows == {u \in Units : unit[u] # Null}
DurableFields == {"planned", "created", "submitted", "not_submitted", "pending_results",
                  "succeeded", "failed", "cancelled", "indeterminate"}
LiveFields == {"admission_waiting", "queued", "running"}
Phases == {"waiting", "preparation_queued", "preparing", "submitting", "aggregating"}

Workers(u) == {n \in Numbers(u) : worker[u][n] # Null}
InState(u, state) == Cardinality({n \in Workers(u) : worker[u][n].state = state})
SubmittedOf(u) == Cardinality({n \in Workers(u) : worker[u][n].at})
ResultFields == {"succeeded", "failed", "cancelled", "indeterminate"}
NotSubmitted(planned, submitted) == IF planned > submitted THEN planned - submitted ELSE 0

\* scheduler.worker_status: handles and pool, of the Runners either knows.
Live == {u \in Units : handle[u] # Null \/ pool[u] # Null}
LiveOf(u) ==
    [admission_waiting |-> waiting[u],
     queued |-> IF pool[u] = Null THEN 0 ELSE pool[u].queued,
     running |-> IF pool[u] = Null THEN 0 ELSE pool[u].running]

\* worker_progress: the rows of one Runner, planned from its configuration.
PlannedOf(b) ==
    IF b.probe # Null THEN b.probe.trials * (1 + b.probe.repeats)
    ELSE b.repeat * (IF b.steps = 0 THEN 1 ELSE b.steps)
StoredPhase(u) == IF unit[u] = "queued" THEN "waiting" ELSE unit[u]
WorkerProgress(u) ==
    LET planned == PlannedOf(BenchmarkOf[u]) IN
    [f \in DurableFields |->
        CASE f = "planned" -> planned
          [] f = "created" -> Cardinality(Workers(u))
          [] f = "submitted" -> SubmittedOf(u)
          [] f = "not_submitted" -> NotSubmitted(planned, SubmittedOf(u))
          [] f = "pending_results" -> InState(u, "submitted")
          [] OTHER -> InState(u, f)]

\* progress: a Runner that submits without a place among the active ones waits.
HandlePhase(u) ==
    IF handle[u].phase = "submitting" /\ ~handle[u].admitted THEN "waiting" ELSE handle[u].phase

\* attach_progress of one Runner.
PhaseOf(u) == IF handle[u] # Null THEN HandlePhase(u) ELSE StoredPhase(u)
RunnerView(u) ==
    [f \in DurableFields \cup LiveFields |->
        IF f = "created" /\ handle[u] # Null THEN handle[u].created
        ELSE IF f \in DurableFields THEN WorkerProgress(u)[f]
        ELSE IF sampled THEN LiveOf(u)[f] ELSE Null]

TotalOf(S, f(_)) == SumFunctionOnSet([u \in S |-> f(u)], S)

\* campaign_worker_progress: the same counts over all Runners, by the database.
CampaignWorkerProgress(c) ==
    LET own == {u \in Rows : CampaignOf[u] = c}
        planned == TotalOf(own, LAMBDA u : PlannedWorkerCount(BenchmarkOf[u]))
        submitted == TotalOf(own, SubmittedOf)
    IN [f \in DurableFields |->
        CASE f = "planned" -> planned
          [] f = "created" -> TotalOf(own, LAMBDA u : Cardinality(Workers(u)))
          [] f = "submitted" -> submitted
          [] f = "not_submitted" -> NotSubmitted(planned, submitted)
          [] f = "pending_results" -> TotalOf(own, LAMBDA u : InState(u, "submitted"))
          [] OTHER -> TotalOf(own, LAMBDA u : InState(u, f))]

\* Variant: what resident Runners have created is added to their rows.
AddedTo(u) == handle[u].created

\* What a resident Runner adds to the created Workers: those not yet rows.
Correction(u) == handle[u].created - WorkerProgress(u)["created"]

\* _attach_campaign_progress
Resident(c) == {u \in Live \cap Rows : CampaignOf[u] = c}
CampaignView(c) ==
    LET held == {u \in Resident(c) : handle[u] # Null} IN
    [f \in DurableFields \cup LiveFields |->
        IF f = "created" THEN CampaignWorkerProgress(c)[f] + TotalOf(held, Correction)
        ELSE IF f \in DurableFields THEN CampaignWorkerProgress(c)[f]
        ELSE IF sampled THEN TotalOf(Resident(c), LAMBDA u : LiveOf(u)[f]) ELSE Null]
CampaignPhases(c) ==
    LET own == {u \in Rows : CampaignOf[u] = c}
        held == {u \in Resident(c) : handle[u] # Null}
    IN [p \in Phases |->
            Cardinality({u \in own : StoredPhase(u) = p})
            - Cardinality({u \in held : StoredPhase(u) = p})
            + Cardinality({u \in held : HandlePhase(u) = p})]

-----------------------------------------------------------------------------
\* The view of a Campaign is the sum of the views of its Runners, field by field
\* and phase by phase, however many of them are resident: the two are computed
\* on different paths, one by the database and one Runner by Runner; and no
\* Worker is counted twice or lost on the way from a recipe to its result.
CampaignViewIsTheSum ==
    \A c \in {CampaignOf[u] : u \in Units} :
        LET own == {u \in Rows : CampaignOf[u] = c}
            view == CampaignView(c)
        IN /\ \A f \in DurableFields \cup (IF sampled THEN LiveFields ELSE {}) :
                view[f] = TotalOf(own, LAMBDA u : RunnerView(u)[f])
           /\ \A p \in Phases :
                CampaignPhases(c)[p] = Cardinality({u \in own : PhaseOf(u) = p})
           /\ view["created"] <= view["planned"] /\ view["submitted"] <= view["created"]
           /\ view["submitted"] >= view["pending_results"] + view["succeeded"] + view["failed"]
                                   + view["indeterminate"]

-----------------------------------------------------------------------------
(* What holds of every Runner between the steps, for the proofs.           *)

WorkerRows ==
    {Row("created", FALSE), Row("cancelled", FALSE)} \cup
    {Row(state, TRUE) : state \in {"submitted", "succeeded", "failed", "indeterminate"}}
Handles ==
    [phase : {"creating", "submitting", "aggregating", "finished"},
     created : Nat, admitted : BOOLEAN]

\* Nothing waits and nothing is created without a handle, a Runner that is held
\* runs until it is finished, and it has its recipes before it has a Worker.
RunnerKept(u) ==
    /\ unit[u] \in {Null, "queued", "running", "terminal"}
    /\ worker[u] \in [Numbers(u) -> WorkerRows \cup {Null}]
    /\ waiting[u] \in Int
    /\ pool[u] # Null => pool[u].queued \in Int /\ pool[u].running \in Int
    /\ handle[u] = Null =>
            waiting[u] = 0 /\ (unit[u] # "terminal" => Workers(u) = {})
    /\ handle[u] # Null =>
            /\ handle[u] \in Handles
            /\ unit[u] = IF handle[u].phase = "finished" THEN "terminal" ELSE "running"
            /\ handle[u].phase = "finished" => waiting[u] = 0
            /\ \/ handle[u].created = Cardinality(Numbers(u))
               \/ /\ handle[u].created = 0 /\ Workers(u) = {}
                  /\ handle[u].phase \in {"creating", "finished"}

ViewsInvariant ==
    /\ unit = [u \in Units |-> unit[u]] /\ worker = [u \in Units |-> worker[u]]
    /\ handle = [u \in Units |-> handle[u]] /\ waiting = [u \in Units |-> waiting[u]]
    /\ pool = [u \in Units |-> pool[u]]
    /\ \A u \in Units : RunnerKept(u)
=============================================================================
