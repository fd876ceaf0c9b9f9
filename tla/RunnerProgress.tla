--------------------------- MODULE RunnerProgress ---------------------------
(***************************************************************************)
(* RunnerRuntime.run with WorkflowTaskLogic: how one Runner goes through   *)
(* the steps of its workflow.                                              *)
(*                                                                         *)
(* A pass of the loop is two steps, Collect (messages, ended tasks) and    *)
(* Evaluate (the walk over the pending steps, the timer, the decision to   *)
(* stop, to fail or to wait); the submission task, the timer task, the     *)
(* Workers and the clock interleave with them.  Times are kept as ages     *)
(* that saturate and as ticks left, so that runs of any length are finite. *)
(***************************************************************************)
EXTENDS Integers, FiniteSets, SequencesExt

CONSTANTS
    Order,          \* the steps in the order of logic.steps()
    Dependencies,   \* RequestStep.dependencies
    Delay,          \* RequestStep.delay_seconds
    DueAt,          \* RequestStep.due_at, counted from the creation; 0: none
    Modes,          \* how Runners may be configured: see mode
    MaxAge,         \* an age at which every delay, due time and cooldown has passed
    MaxRedeliveries \* bound: messages delivered again

NoWindow == 0
NoCooldown == -1

Steps == Range(Order)

\* The checks of WorkflowTaskLogic.__init__ and RunnerRuntime.__init__.
ASSUME WorkflowAssumption ==
    /\ Order \in Seq(Steps) /\ IsInjective(Order)
    /\ \A i \in DOMAIN Order :
            Dependencies[Order[i]] \subseteq {Order[j] : j \in 1..(i - 1)}
    /\ MaxAge \in Nat \ {0}
    /\ \A s \in Steps : Delay[s] \in 0..MaxAge /\ DueAt[s] \in 0..MaxAge
    /\ Modes \subseteq [window : Nat, cooldown : 0..MaxAge \cup {NoCooldown}]
    /\ \A m \in Modes : m.cooldown # NoCooldown => m.window = 1
    /\ MaxRedeliveries \in Nat

VARIABLES
    mode,           \* max_outstanding_workers and cooldown_seconds, fixed at the start
    phase,          \* where run() is: collect, evaluate, wait, or how it ended
    pending,        \* pending: the steps neither submitted nor cancelled
    results,        \* results: the steps whose completion was received
    cancelled,      \* cancelled_steps
    outstanding,    \* outstanding
    submission,     \* submission_task: its step and stage
    timer,          \* timer_task: ticks left, Fired or NoTimer
    cool,           \* ticks until next_worker_at
    batch,          \* message_task: the messages received, {} while it waits
    permit,         \* whether RunnerAdmission counts this Runner as active
    late,           \* the deadline has passed
    inbox,          \* messages of the bus
    work,           \* the Worker of each step: idle, executing, ok or failed
    age,            \* ticks since the Worker of the step completed
    elapsed,        \* ticks since the creation of the Runner
    redelivered

local == <<pending, results, cancelled, outstanding, submission, timer, cool, permit>>
world == <<mode, late, work, age, elapsed, redelivered>>
vars == <<phase, local, batch, inbox, world>>

Window == mode.window
Cooldown == mode.cooldown

NoTimer == -1
Fired == -2
NoSubmission == [step |-> "none", stage |-> "none"]
Completed(s) == <<"worker.completed", s>>

CancelledMessage(s) == <<"worker.cancelled", s>>
TimerMessage == <<"timer.due", "task-readiness">>
Messages == ({"worker.completed", "worker.cancelled"} \X Steps) \cup {TimerMessage}
Ends == {"returned", "timed_out", "stalled", "raised"}

Init ==
    /\ mode \in Modes
    /\ phase = "collect"
    /\ pending = Steps
    /\ results = {} /\ cancelled = {} /\ outstanding = {}
    /\ submission = NoSubmission
    /\ timer = NoTimer
    /\ cool = 0
    /\ batch = {}
    /\ permit = TRUE
    /\ late = FALSE
    /\ inbox = {}
    /\ work = [s \in Steps |-> "idle"]
    /\ age = [s \in Steps |-> 0]
    /\ elapsed = 0
    /\ redelivered = 0

Running == phase \notin Ends

Succeeded(s) == work[s] = "ok"

-----------------------------------------------------------------------------
\* Variant: a failed Worker stays outstanding.
FinishedWell == {s \in Steps : Completed(s) \in batch /\ Succeeded(s)}

\* The steps that are no longer outstanding.
Finished == {s \in Steps : Completed(s) \in batch}

\* The completions of the batch that were not received before.
Fresh == Finished \ results

\* The first part of a pass: messages are applied and acknowledged, tasks that
\* ended are forgotten.
Collect ==
    /\ phase = "collect"
    /\ results' = results \cup Fresh
    /\ outstanding' = outstanding \ Finished
    /\ cool' = IF Cooldown # NoCooldown /\ Fresh # {}
               THEN Max({0} \cup {Cooldown - age[s] : s \in Fresh}) ELSE cool
    /\ cancelled' = cancelled \cup {s \in Steps : CancelledMessage(s) \in batch}
    /\ pending' = pending \ {s \in Steps : CancelledMessage(s) \in batch}
    /\ batch' = {}
    /\ submission' = IF submission.stage = "done" THEN NoSubmission ELSE submission
    /\ timer' = IF timer = Fired THEN NoTimer ELSE timer
    /\ phase' = "evaluate"
    /\ UNCHANGED <<permit, inbox, world>>

\* failed_dependencies of a pending step, with the cancellations of this pass.
FailedDependencies(acc, s) ==
    {d \in Dependencies[s] : d \in acc.cancelled \/ (d \in results /\ ~Succeeded(d))}

\* eligibility: ticks until the step is due; its dependencies have succeeded.
TicksLeft(s) ==
    Max({0, DueAt[s] - elapsed,
         IF Dependencies[s] = {} THEN Delay[s] - elapsed
         ELSE Max({Delay[s] - age[d] : d \in Dependencies[s]})})

Capacity(out) == Window = NoWindow \/ Cardinality(out) < Window

\* Nothing is submitted or executed.
AtRest(acc) == acc.outstanding = {} /\ acc.submission = NoSubmission

Earlier(due, left) == IF due = NoTimer THEN left ELSE Min({due, left})

\* Variant: the cooldown is not waited for.
BreaksWhileBusy(acc) == ~AtRest(acc)

\* The two breaks of a serial Runner with a cooldown.
Breaks(acc) == ~AtRest(acc) \/ cool > 0

\* One pending step of the walk.
Visit(acc, s) ==
    IF s \notin acc.pending THEN acc
    ELSE IF Cooldown # NoCooldown /\ Breaks(acc) THEN
        IF AtRest(acc) THEN [acc EXCEPT !.nextDue = cool] ELSE acc
    ELSE IF FailedDependencies(acc, s) # {} THEN
        [acc EXCEPT !.cancelled = @ \cup {s}, !.pending = @ \ {s},
                    !.sent = @ \cup {CancelledMessage(s)}]
    ELSE IF ~(Dependencies[s] \subseteq results) THEN acc
    ELSE IF TicksLeft(s) > 0 THEN [acc EXCEPT !.nextDue = Earlier(@, TicksLeft(s))]
    ELSE IF acc.submission = NoSubmission /\ Capacity(acc.outstanding) /\ ~late THEN
        [acc EXCEPT !.outstanding = @ \cup {s}, !.pending = @ \ {s},
                    !.submission = [step |-> s, stage |-> "admission"]]
    ELSE acc

Current ==
    [pending |-> pending, cancelled |-> cancelled, outstanding |-> outstanding,
     submission |-> submission, nextDue |-> NoTimer, sent |-> {}]

\* The walk: what the pass has made of the Runner after each of the steps.
Walk ==
    LET walk[i \in 0..Len(Order)] ==
            IF i = 0 THEN Current ELSE Visit(walk[i - 1], Order[i])
    IN walk

\* The Runner gives up its place while it only waits for a time.
CoolsDown(acc) == acc.nextDue # NoTimer /\ AtRest(acc)

\* The timer task after the walk: cancelled, kept, or set to an earlier time.
\* A task that has fired in the meantime counts as set until the next pass.
Rearmed(acc) ==
    IF acc.nextDue = NoTimer THEN NoTimer
    ELSE IF timer = NoTimer THEN acc.nextDue
    ELSE IF timer = Fired THEN Fired
    ELSE Min({timer, acc.nextDue})

\* Variant: what was submitted is not waited for.
OutcomeOfPending(acc, armed) ==
    IF acc.pending = {} /\ acc.submission = NoSubmission THEN "returned"
    ELSE IF late THEN "timed_out"
    ELSE "wait"

\* How the pass ends.
Outcome(acc, armed) ==
    IF acc.pending = {} /\ AtRest(acc) THEN "returned"
    ELSE IF late THEN "timed_out"
    ELSE IF AtRest(acc) /\ armed = NoTimer THEN "stalled"
    ELSE "wait"

\* The second part: the walk, the permit, the timer, and the decision.  An end
\* of the loop cancels its tasks (the finally block).
Evaluate ==
    /\ phase = "evaluate"
    /\ \E acc \in {Walk[Len(Order)]} : \E armed \in {Rearmed(acc)} :
        /\ pending' = acc.pending
        /\ cancelled' = acc.cancelled
        /\ outstanding' = acc.outstanding
        /\ inbox' = inbox \cup acc.sent
        /\ permit' = (permit /\ ~CoolsDown(acc))
        /\ phase' = Outcome(acc, armed)
        /\ submission' = IF phase' \in Ends THEN NoSubmission ELSE acc.submission
        /\ timer' = IF phase' \in Ends THEN NoTimer ELSE armed
    /\ UNCHANGED <<results, cool, batch, world>>

\* asyncio.wait returns.
Wake ==
    /\ phase = "wait"
    /\ batch # {} \/ submission.stage = "done" \/ timer = Fired \/ late
    /\ phase' = "collect"
    /\ UNCHANGED <<local, batch, inbox, world>>

\* One of the awaits raises, or the supervisor cancels the task of run().
Fails ==
    /\ Running
    /\ phase' = "raised"
    /\ submission' = NoSubmission
    /\ timer' = NoTimer
    /\ UNCHANGED <<pending, results, cancelled, outstanding, cool, permit, batch, inbox, world>>

-----------------------------------------------------------------------------
\* _submit: the Runner is admitted again first, at once when it still is.
AcquireAdmission ==
    /\ submission.stage = "admission"
    /\ permit' = TRUE
    /\ submission' = [submission EXCEPT !.stage = "submit"]
    /\ UNCHANGED <<phase, pending, results, cancelled, outstanding, timer, cool, batch,
                   inbox, world>>

\* WorkerDispatcher.submit returns: the Worker is on its way.
Submitted ==
    /\ submission.stage = "submit"
    /\ work' = [work EXCEPT ![submission.step] = "executing"]
    /\ submission' = [submission EXCEPT !.stage = "done"]
    /\ UNCHANGED <<mode, phase, pending, results, cancelled, outstanding, timer, cool, permit,
                   batch, inbox, late, age, elapsed, redelivered>>

\* The Worker's output is committed and its message published.
WorkerCompletes(s) ==
    /\ work[s] = "executing"
    /\ \E outcome \in {"ok", "failed"} : work' = [work EXCEPT ![s] = outcome]
    /\ inbox' = inbox \cup {Completed(s)}
    /\ UNCHANGED <<mode, phase, local, batch, late, age, elapsed, redelivered>>

\* receive returns what is buffered.
Receive ==
    /\ Running /\ batch = {} /\ inbox # {}
    /\ batch' = inbox
    /\ inbox' = {}
    /\ UNCHANGED <<phase, local, world>>

\* A message that was acknowledged comes back, as MessageBus shows.
Redeliver(s) ==
    /\ s \in results /\ Completed(s) \notin inbox
    /\ redelivered < MaxRedeliveries
    /\ redelivered' = redelivered + 1
    /\ inbox' = inbox \cup {Completed(s)}
    /\ UNCHANGED <<mode, phase, local, batch, late, work, age, elapsed>>

\* TimerSource.fire.
FireTimer ==
    /\ timer = 0
    /\ timer' = Fired
    /\ inbox' = inbox \cup {TimerMessage}
    /\ UNCHANGED <<phase, pending, results, cancelled, outstanding, submission, cool,
                   permit, batch, world>>

Tick ==
    /\ age' = [s \in Steps |-> IF work[s] \in {"ok", "failed"} THEN Min({age[s] + 1, MaxAge})
                               ELSE age[s]]
    /\ elapsed' = Min({elapsed + 1, MaxAge})
    /\ timer' = IF timer > 0 THEN timer - 1 ELSE timer
    /\ cool' = Max({cool - 1, 0})
    /\ UNCHANGED <<mode, phase, pending, results, cancelled, outstanding, submission, permit,
                   batch, inbox, late, work, redelivered>>

DeadlinePasses ==
    /\ ~late
    /\ late' = TRUE
    /\ UNCHANGED <<mode, phase, local, batch, inbox, work, age, elapsed, redelivered>>

Next ==
    \/ Collect
    \/ Evaluate
    \/ Wake
    \/ Fails
    \/ AcquireAdmission
    \/ Submitted
    \/ \E s \in Steps : WorkerCompletes(s) \/ Redeliver(s)
    \/ Receive
    \/ FireTimer
    \/ Tick
    \/ DeadlinePasses

Spec == Init /\ [][Next]_vars

\* The loop runs whenever it can; admission, submission, Workers, the bus, the
\* timer and the clock go on.  Nothing is assumed of the deadline.
Fairness ==
    /\ WF_vars(Collect) /\ WF_vars(Wake) /\ []<>(phase # "evaluate")
    /\ WF_vars(AcquireAdmission) /\ WF_vars(Submitted)
    /\ \A s \in Steps : WF_vars(WorkerCompletes(s))
    /\ WF_vars(Receive) /\ WF_vars(FireTimer) /\ WF_vars(Tick)

FairSpec == Spec /\ Fairness

-----------------------------------------------------------------------------
\* Steps, messages, timer and the state of the loop keep their types.
TypeOK ==
    /\ mode \in Modes
    /\ phase \in {"collect", "evaluate", "wait"} \cup Ends
    /\ pending \subseteq Steps /\ results \subseteq Steps /\ cancelled \subseteq Steps
    /\ outstanding \subseteq Steps
    /\ submission.stage \in {"none", "admission", "submit", "done"}
    /\ timer \in 0..MaxAge \cup {NoTimer, Fired}
    /\ cool \in 0..MaxAge
    /\ batch \subseteq Messages /\ inbox \subseteq Messages
    /\ permit \in BOOLEAN /\ late \in BOOLEAN
    /\ work \in [Steps -> {"idle", "executing", "ok", "failed"}]
    /\ age \in [Steps -> 0..MaxAge] /\ elapsed \in 0..MaxAge
    /\ redelivered \in 0..MaxRedeliveries

\* The dependencies of s have succeeded, and it is time for s.
Timely(s) ==
    /\ \A d \in Dependencies[s] : Succeeded(d) /\ age[d] >= Delay[s]
    /\ elapsed >= DueAt[s]
    /\ Dependencies[s] = {} => elapsed >= Delay[s]

\* A Worker is submitted only after all its dependencies have succeeded, the
\* delay after the last of them and its own due time have passed: measured by
\* what the Workers did, not by what the Runner has heard.
NothingStartsEarly == \A s \in Steps : s \in outstanding \/ work[s] # "idle" => Timely(s)

\* At no time do more Workers of the Runner execute than its window allows.
WindowKept == Window # NoWindow => Cardinality({s \in Steps : work[s] = "executing"}) <= Window

\* A serial Runner starts a Worker only when its cooldown has passed since the
\* last completion, also when a message is redelivered.
CooldownKept ==
    [][\A s \in outstanding' \ outstanding : \A d \in Steps :
        Cooldown # NoCooldown /\ work[d] \in {"ok", "failed"} => age[d] >= Cooldown]_vars

\* "Task has unresolved dependencies without an event source" is never raised:
\* a pending step always waits for a Worker, a submission or a timer.
NeverStalls == phase # "stalled"

\* A Worker executes only while its Runner holds its admission.
PermitWhileExecuting == \A s \in Steps : work[s] = "executing" => permit

\* A Runner that returns has a result or a cancellation for every step, and
\* cancelled exactly those with a failed Worker among their ancestors.
EveryStepAccounted ==
    phase = "returned" =>
        /\ results \cup cancelled = Steps /\ results \cap cancelled = {}
        /\ \A s \in cancelled : \E d \in Dependencies[s] : d \in cancelled \/ work[d] = "failed"
        /\ \A s \in results : work[s] \in {"ok", "failed"}

\* The loop is right in every state: nothing starts early, window and admission
\* cover what executes, there is always something to wait for, and a normal end
\* leaves no step out.
LoopInvariant ==
    TypeOK /\ NothingStartsEarly /\ WindowKept /\ NeverStalls /\ PermitWhileExecuting
           /\ EveryStepAccounted

\* Without a deadline every Runner comes to an end.
RunEnds == <>(~Running)

-----------------------------------------------------------------------------
(* What LoopInvariant and CooldownKept rest on.                            *)

\* Each step is pending, outstanding, has its result or is cancelled; only what was
\* submitted has left idle; what is outstanding was started in time, within the
\* window and, for a serial Runner, after the cooldown of every result.
Placed(acc) ==
    /\ acc \in [pending : SUBSET Steps, cancelled : SUBSET Steps, outstanding : SUBSET Steps,
                submission : [step : Steps, stage : {"admission", "submit", "done"}] \cup {NoSubmission},
                nextDue : 0..MaxAge \cup {NoTimer}, sent : SUBSET Messages]
    /\ acc.pending \cup acc.outstanding \cup results \cup acc.cancelled = Steps
    /\ acc.outstanding \cap (acc.pending \cup acc.cancelled) = {} /\ acc.pending \cap acc.cancelled = {}
    /\ \A s \in acc.pending \cup acc.cancelled : work[s] = "idle"
    /\ acc.submission.stage \in {"admission", "submit"} =>
            acc.submission.step \in acc.outstanding /\ work[acc.submission.step] = "idle"
    /\ \A s \in acc.cancelled : \E d \in Dependencies[s] : d \in acc.cancelled \/ work[d] = "failed"
    /\ \A s \in acc.outstanding : Timely(s)
    /\ Window # NoWindow => Cardinality(acc.outstanding) <= Window
    /\ Cooldown # NoCooldown /\ acc.outstanding # {} =>
            /\ \A s, t \in acc.outstanding : s = t
            /\ \A d \in results : age[d] >= Cooldown
    /\ \A m \in acc.sent : \E s \in acc.cancelled : m = CancelledMessage(s)

\* What was heard has happened.
Heard ==
    /\ \A s \in Steps : Completed(s) \in inbox \cup batch \/ s \in results => work[s] \in {"ok", "failed"}
    /\ \A s \in Steps : CancelledMessage(s) \in inbox \cup batch => s \in cancelled

ProgressInvariant ==
    /\ TypeOK /\ NothingStartsEarly /\ PermitWhileExecuting /\ NeverStalls
    /\ Placed(Current) /\ Heard
    /\ submission.stage = "submit" => permit
    /\ Cooldown # NoCooldown => \A d \in results : cool >= Cooldown - age[d]
    /\ phase = "returned" => pending = {} /\ outstanding = {}
=============================================================================
