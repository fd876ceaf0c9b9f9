--------------------------- MODULE RunnerLifecycle ---------------------------
(***************************************************************************)
(* The fenced execution of Runners by Backends that share one PostgreSQL.  *)
(*                                                                         *)
(* The durable rows are the execution lease (ExecutionLeaseRecord), the    *)
(* Runners, their attempts (TaskAttemptRecord), their Workers              *)
(* (WorkerRecord) and the worker.completed messages.  A Backend process    *)
(* keeps its lease generation, one supervisor per Runner                   *)
(* (Scheduler._execute) and one dispatch task per reserved Worker          *)
(* (WorkerDispatcher._execute).                                            *)
(*                                                                         *)
(* One action is one repository transaction, with the part of the process  *)
(* that follows it up to its next await.  A fenced transaction holds a     *)
(* shared lock on the lease row until it commits and takeover needs that   *)
(* row exclusively, so the fence check and the writes are one step.        *)
(***************************************************************************)
EXTENDS Naturals, FiniteSets

CONSTANTS
    Backend,        \* Backend processes
    Runner,         \* Runners accepted into the store
    Worker,         \* Workers: one Provider request each
    RunnerOf,       \* the Runner of each Worker
    Window,         \* a Runner's ceiling on outstanding Workers
    MaxGeneration,  \* bound: leases acquired in a behaviour
    MaxFaults,      \* bound: database calls that fail or lose their reply
    NoOwner         \* the owner of a lease nobody ever held

ASSUME RunnerOfAssumption == RunnerOf \in [Worker -> Runner]
ASSUME BoundsAssumption ==
    /\ Window \in Nat \ {0}
    /\ MaxGeneration \in Nat
    /\ MaxFaults \in Nat
    /\ NoOwner \notin Backend

VARIABLES
    \* durable
    lease,          \* [owner, generation, live]; live: expires_at > now
    status,         \* Runner status
    cancelRequested,
    attempt,        \* the Runner's only attempt row: [state, generation]
    worker,         \* Worker row: [state, generation]
    completed,      \* Workers with a worker.completed message
    \* in each Backend process
    phase,          \* Scheduler start/stop progress
    generation,     \* repository.runtime_generation
    stale,          \* Runners still to be recovered by requeue_stale
    pc,             \* where the supervisor of a Runner is
    task,           \* where the dispatch task of a Worker is
    \* history
    sends,          \* Provider requests actually sent for a Worker
    faults          \* database faults that happened so far

durable == <<lease, status, cancelRequested, attempt, worker, completed>>
process == <<phase, generation, stale, pc, task>>
vars == <<durable, process, sends, faults>>

-----------------------------------------------------------------------------
Terminal == {"succeeded", "failed", "cancelled"}
Statuses == {"queued", "running"} \cup Terminal
AttemptStates == {"absent", "executing", "indeterminate"} \cup Terminal
WorkerStates ==
    {"absent", "created", "submitted", "succeeded", "failed", "cancelled",
     "indeterminate"}

\* "failed": maintenance failed, nobody called stop() yet; "aborting": both.
Phases ==
    {"down", "acquired", "recovering", "serving", "failed", "stopping", "aborting"}

(***************************************************************************)
(* "draining" is a run() that timed out or failed and cancels its own      *)
(* dispatch tasks; "completing_ok" and "completing_failed" carry the       *)
(* status summarize_outcome chose; "erring" is the except-Exception branch *)
(* of Scheduler._execute and "interrupted" its CancelledError branch.      *)
(***************************************************************************)
Supervisor ==
    {"idle", "preparing", "running", "draining", "completing_ok",
     "completing_failed", "cancelling", "failing", "erring", "interrupted",
     "closing"}
DispatchTask == {"none", "queued", "executing", "ok", "error"}

WorkersOf(r) == {w \in Worker : RunnerOf[w] = r}
Active(b, r) == {w \in WorkersOf(r) : task[b][w] # "none"}
Submitted(r) == {w \in WorkersOf(r) : worker[w].state = "submitted"}
Generations == 0..MaxGeneration

\* Rows, processes, supervisors and tasks keep their types.
TypeOK ==
    /\ lease \in [owner : Backend \cup {NoOwner}, generation : Generations,
                  live : BOOLEAN]
    /\ status \in [Runner -> Statuses]
    /\ cancelRequested \in [Runner -> BOOLEAN]
    /\ attempt \in [Runner -> [state : AttemptStates, generation : Generations]]
    /\ worker \in [Worker -> [state : WorkerStates, generation : Generations]]
    /\ completed \subseteq Worker
    /\ phase \in [Backend -> Phases]
    /\ generation \in [Backend -> Generations]
    /\ stale \in [Backend -> SUBSET Runner]
    /\ pc \in [Backend -> [Runner -> Supervisor]]
    /\ task \in [Backend -> [Worker -> DispatchTask]]
    /\ sends \in [Worker -> Nat]
    /\ faults \in 0..MaxFaults

Init ==
    /\ lease = [owner |-> NoOwner, generation |-> 0, live |-> FALSE]
    /\ status = [r \in Runner |-> "queued"]
    /\ cancelRequested = [r \in Runner |-> FALSE]
    /\ attempt = [r \in Runner |-> [state |-> "absent", generation |-> 0]]
    /\ worker = [w \in Worker |-> [state |-> "absent", generation |-> 0]]
    /\ completed = {}
    /\ phase = [b \in Backend |-> "down"]
    /\ generation = [b \in Backend |-> 0]
    /\ stale = [b \in Backend |-> {}]
    /\ pc = [b \in Backend |-> [r \in Runner |-> "idle"]]
    /\ task = [b \in Backend |-> [w \in Worker |-> "none"]]
    /\ sends = [w \in Worker |-> 0]
    /\ faults = 0

-----------------------------------------------------------------------------
(* The ownership lease *)

\* _check_runtime passes.
Owns(b) ==
    /\ lease.owner = b
    /\ lease.generation = generation[b]
    /\ lease.live

\* One more database fault, within the bound.
Fault ==
    /\ faults < MaxFaults
    /\ faults' = faults + 1

\* acquire_runtime: only an expired lease changes hands, under a new generation.
AcquireRuntime(b) ==
    /\ phase[b] = "down"
    /\ ~lease.live
    /\ lease.generation < MaxGeneration
    /\ lease' = [owner |-> b, generation |-> lease.generation + 1, live |-> TRUE]
    /\ generation' = [generation EXCEPT ![b] = lease.generation + 1]
    /\ phase' = [phase EXCEPT ![b] = "acquired"]
    /\ UNCHANGED <<status, cancelRequested, attempt, worker, completed, stale,
                   pc, task, sends, faults>>

\* expires_at passes, because the owner is paused, partitioned or gone.
LeaseExpires ==
    /\ lease.live
    /\ lease' = [lease EXCEPT !.live = FALSE]
    /\ UNCHANGED <<status, cancelRequested, attempt, worker, completed, process,
                   sends, faults>>

\* release_runtime: the update matches only the caller's own lease.
ReleaseLease(b) ==
    lease' = IF lease.owner = b /\ lease.generation = generation[b]
             THEN [lease EXCEPT !.live = FALSE]
             ELSE lease

-----------------------------------------------------------------------------
(* Terminal transactions of a Runner *)

\* Variants: a reservation is taken for an unsent request; a committed result is
\* overwritten.
SettledAsUnsent(s) == IF s \in {"submitted", "created"} THEN "cancelled" ELSE s
SettledAll(s) == IF s = "created" THEN "cancelled" ELSE "indeterminate"

\* A reservation without a committed result is indeterminate, an unsubmitted
\* Worker is cancelled.
Settled(s) ==
    CASE s = "submitted" -> "indeterminate"
      [] s = "created" -> "cancelled"
      [] OTHER -> s

\* An attempt or Worker row in another state.
WithState(row, s) == [state |-> s, generation |-> row.generation]

\* The Worker rows once r is finished.
SettledWorkers(r) ==
    [w \in Worker |->
        IF RunnerOf[w] = r THEN WithState(worker[w], Settled(worker[w].state))
        ELSE worker[w]]

\* finish_runner: a no-op unless the Runner is still running.
FinishRunner(r, final, attemptState) ==
    IF status[r] = "running"
    THEN /\ status' = [status EXCEPT ![r] = final]
         /\ worker' = SettledWorkers(r)
         /\ attempt' = [attempt EXCEPT ![r] =
                IF @.state = "absent" THEN @ ELSE WithState(@, attemptState)]
    ELSE UNCHANGED <<status, worker, attempt>>

\* Variant: a result wins over a cancellation.
CompletableWhenRunning(r) == status[r] = "running"

Completable(r) == status[r] = "running" /\ ~cancelRequested[r]

\* complete_runner: also refused once cancellation was requested; only the
\* attempt of the caller's generation is updated.
CompleteRunner(b, r, final) ==
    IF Completable(r)
    THEN /\ status' = [status EXCEPT ![r] = final]
         /\ worker' = SettledWorkers(r)
         /\ attempt' = [attempt EXCEPT ![r] =
                IF @.generation = generation[b] /\ @.state # "absent"
                THEN WithState(@, final) ELSE @]
    ELSE UNCHANGED <<status, worker, attempt>>

-----------------------------------------------------------------------------
(* Scheduler start, maintenance, stop *)

\* Variant: only Runners whose heartbeat is old are recovered, and none is.
SnapshotNone(b) ==
    /\ phase[b] = "acquired"
    /\ phase' = [phase EXCEPT ![b] = "recovering"]
    /\ UNCHANGED <<durable, generation, stale, pc, task, sends, faults>>

\* requeue_stale reads, without the fence, the Runners left running.
SnapshotStale(b) ==
    /\ phase[b] = "acquired"
    /\ stale' = [stale EXCEPT ![b] = {r \in Runner : status[r] = "running"}]
    /\ phase' = [phase EXCEPT ![b] = "recovering"]
    /\ UNCHANGED <<durable, generation, pc, task, sends, faults>>

\* requeue_runner for one of them: the attempt becomes indeterminate and the
\* Runner fails; nothing is replayed.
RequeueStale(b, r) ==
    /\ phase[b] = "recovering"
    /\ r \in stale[b]
    /\ Owns(b)
    /\ FinishRunner(r, "failed", "indeterminate")
    /\ stale' = [stale EXCEPT ![b] = @ \ {r}]
    /\ UNCHANGED <<lease, cancelRequested, completed, phase, generation, pc,
                   task, sends, faults>>

\* start() fails in recovery (fenced, or a database error): it releases the
\* lease and leaves.
StartFails(b) ==
    /\ phase[b] \in {"acquired", "recovering"}
    /\ \/ ~Owns(b) /\ UNCHANGED faults
       \/ Fault
    /\ ReleaseLease(b)
    /\ phase' = [phase EXCEPT ![b] = "down"]
    /\ stale' = [stale EXCEPT ![b] = {}]
    /\ UNCHANGED <<status, cancelRequested, attempt, worker, completed,
                   generation, pc, task, sends>>

\* Variant: admission starts while recovery goes on.
ServeAtOnce(b) ==
    /\ phase[b] = "recovering"
    /\ phase' = [phase EXCEPT ![b] = "serving"]
    /\ stale' = [stale EXCEPT ![b] = {}]
    /\ UNCHANGED <<durable, generation, pc, task, sends, faults>>

\* The coordinator and the admission loop start after requeue_stale returned.
StartServing(b) ==
    /\ phase[b] = "recovering"
    /\ stale[b] = {}
    /\ phase' = [phase EXCEPT ![b] = "serving"]
    /\ UNCHANGED <<durable, generation, stale, pc, task, sends, faults>>

\* What task.cancel() does to a supervisor.  The two except branches are
\* themselves interrupted: their finish_runner is abandoned.
InterruptedAt(p) ==
    CASE p \in {"idle", "closing"} -> p
      [] p \in {"erring", "interrupted"} -> "closing"
      [] OTHER -> "interrupted"

Interrupt(b) ==
    /\ pc' = [pc EXCEPT ![b] = [r \in Runner |-> InterruptedAt(pc[b][r])]]
    /\ UNCHANGED <<durable, generation, stale, task, sends>>

\* stop() cancels every supervisor; renewal goes on while they clean up.
StopScheduler(b) ==
    /\ phase[b] \in {"serving", "failed"}
    /\ phase' = [phase EXCEPT ![b] =
                    IF @ = "serving" THEN "stopping" ELSE "aborting"]
    /\ Interrupt(b)
    /\ UNCHANGED faults

\* _maintain_runtime ends because renewal was fenced or a database call
\* failed: admission stops and every supervisor is cancelled.
MaintenanceFails(b) ==
    /\ phase[b] \in {"serving", "stopping"}
    /\ \/ ~Owns(b) /\ UNCHANGED faults
       \/ Fault
    /\ phase' = [phase EXCEPT ![b] =
                    IF @ = "serving" THEN "failed" ELSE "aborting"]
    /\ Interrupt(b)

\* The end of stop(), when every execution is closed.
ReleaseRuntime(b) ==
    /\ phase[b] \in {"stopping", "aborting"}
    /\ \A r \in Runner : pc[b][r] = "idle"
    /\ ReleaseLease(b)
    /\ phase' = [phase EXCEPT ![b] = "down"]
    /\ UNCHANGED <<status, cancelRequested, attempt, worker, completed,
                   generation, stale, pc, task, sends, faults>>

\* The process dies; its rows and its lease stay behind.
Crash(b) ==
    /\ phase[b] # "down"
    /\ phase' = [phase EXCEPT ![b] = "down"]
    /\ stale' = [stale EXCEPT ![b] = {}]
    /\ pc' = [pc EXCEPT ![b] = [r \in Runner |-> "idle"]]
    /\ task' = [task EXCEPT ![b] = [w \in Worker |-> "none"]]
    /\ UNCHANGED <<durable, generation, sends, faults>>

-----------------------------------------------------------------------------
(* Users *)

\* request_cancel: not fenced; a queued Runner is cancelled at once.
RequestCancel(r) ==
    /\ status[r] \notin Terminal
    /\ cancelRequested' = [cancelRequested EXCEPT ![r] = TRUE]
    /\ status' = [status EXCEPT ![r] = IF @ = "queued" THEN "cancelled" ELSE @]
    /\ UNCHANGED <<lease, attempt, worker, completed, process, sends, faults>>

-----------------------------------------------------------------------------
(* Supervision: Scheduler._execute *)

SetPc(b, r, p) == pc' = [pc EXCEPT ![b][r] = p]
SetTask(b, w, t) == task' = [task EXCEPT ![b][w] = t]

\* start_selected: the row goes from queued to running and gets its attempt.
\* When the reply is lost the Runner runs without a supervisor.
StartSelected(b, r) ==
    /\ phase[b] = "serving"
    /\ pc[b][r] = "idle"
    /\ Owns(b)
    /\ status[r] = "queued"
    /\ ~cancelRequested[r]
    /\ status' = [status EXCEPT ![r] = "running"]
    /\ attempt[r].state = "absent"   \* runner_attempts.runner_id is unique
    /\ attempt' = [attempt EXCEPT ![r] =
                    [state |-> "executing", generation |-> generation[b]]]
    /\ \/ SetPc(b, r, "preparing") /\ UNCHANGED faults
       \/ Fault /\ UNCHANGED pc
    /\ UNCHANGED <<lease, cancelRequested, worker, completed, phase, generation,
                   stale, task, sends>>

\* start_selected of a Runner whose task instance is already terminal.
DiscardSelected(b, r) ==
    /\ phase[b] = "serving"
    /\ pc[b][r] = "idle"
    /\ Owns(b)
    /\ status[r] = "queued"
    /\ ~cancelRequested[r]
    /\ status' = [status EXCEPT ![r] = "cancelled"]
    /\ UNCHANGED <<lease, cancelRequested, attempt, worker, completed, process,
                   sends, faults>>

\* heartbeat_runners reports every Runner that is not running, or whose
\* cancellation was requested.
ObserveCancellation(b, r) ==
    /\ phase[b] = "serving"
    /\ pc[b][r] \in {"preparing", "running", "draining", "failing"}
    /\ status[r] # "running" \/ cancelRequested[r]
    /\ SetPc(b, r, "cancelling")
    /\ UNCHANGED <<durable, phase, generation, stale, task, sends, faults>>

\* Artifact resolution fails or times out before the Worker starts.
PreparationFails(b, r) ==
    /\ pc[b][r] = "preparing"
    /\ SetPc(b, r, "erring")
    /\ UNCHANGED <<durable, phase, generation, stale, task, sends, faults>>

\* A transaction on a Runner that still accepts Workers.
Accepting(b, r) ==
    /\ Owns(b)
    /\ status[r] = "running"
    /\ ~cancelRequested[r]

\* A call of run() that raises, without having changed a row.
Raises(b, r) == SetPc(b, r, "failing") /\ UNCHANGED <<worker, task>>

\* create_workers persists all Workers of the Runner, or raises; its reply may
\* be lost.
CreateWorkers(b, r) ==
    /\ pc[b][r] = "preparing"
    /\ \/ /\ Accepting(b, r)
          /\ worker' = [w \in Worker |->
                IF RunnerOf[w] = r /\ worker[w].state = "absent"
                THEN [state |-> "created", generation |-> generation[b]]
                ELSE worker[w]]
          /\ UNCHANGED task
          /\ \/ SetPc(b, r, "running") /\ UNCHANGED faults
             \/ SetPc(b, r, "failing") /\ Fault
       \/ ~Accepting(b, r) /\ Raises(b, r) /\ UNCHANGED faults
       \/ Raises(b, r) /\ Fault
    /\ UNCHANGED <<lease, status, cancelRequested, attempt, completed, phase,
                   generation, stale, sends>>

\* reserve_worker accepts: created by this generation and within the window.
Reservable(b, w) ==
    /\ Accepting(b, RunnerOf[w])
    /\ worker[w].state = "created"
    /\ worker[w].generation = generation[b]
    /\ Cardinality(Submitted(RunnerOf[w])) < Window

\* WorkerDispatcher.submit of a Worker not submitted before: the reservation
\* commits before the dispatch task exists.  A refusal, or a lost reply, fails
\* the Runner.
ReserveWorker(b, w) ==
    LET r == RunnerOf[w] IN
    /\ pc[b][r] = "running"
    /\ task[b][w] = "none"
    /\ \/ worker[w].state = "created"
       \/ worker[w].state = "cancelled" /\ status[r] # "running"
    /\ Cardinality(Active(b, r)) < Window
    /\ \/ /\ Reservable(b, w)
          /\ worker' = [worker EXCEPT ![w] = WithState(@, "submitted")]
          /\ \/ SetTask(b, w, "queued") /\ UNCHANGED <<pc, faults>>
             \/ SetPc(b, r, "failing") /\ Fault /\ UNCHANGED task
       \/ ~Reservable(b, w) /\ Raises(b, r) /\ UNCHANGED faults
       \/ Raises(b, r) /\ Fault
    /\ UNCHANGED <<lease, status, cancelRequested, attempt, completed, phase,
                   generation, stale, sends>>

\* publish_message of worker.cancelled, for a Worker that will not be submitted
\* because a dependency failed.  A refusal is ignored by run().
CancelStep(b, w) ==
    LET r == RunnerOf[w] IN
    /\ pc[b][r] = "running"
    /\ task[b][w] = "none"
    /\ worker[w].state = "created"
    /\ \/ /\ Accepting(b, r)
          /\ worker' = [worker EXCEPT ![w] = WithState(@, "cancelled")]
          /\ UNCHANGED task
          /\ \/ UNCHANGED <<pc, faults>>
             \/ SetPc(b, r, "failing") /\ Fault
       \/ ~Owns(b) /\ Raises(b, r) /\ UNCHANGED faults
       \/ Raises(b, r) /\ Fault
    /\ UNCHANGED <<lease, status, cancelRequested, attempt, completed, phase,
                   generation, stale, sends>>

\* The router grants a slot and the actor sends the Provider request.
SendRequest(b, w) ==
    /\ task[b][w] = "queued"
    /\ SetTask(b, w, "executing")
    /\ sends' = [sends EXCEPT ![w] = @ + 1]
    /\ UNCHANGED <<durable, phase, generation, stale, pc, faults>>

\* The router refuses a queued request of a cancelled Runner: the dispatch
\* task turns the exception into an error response.
RouterRejects(b, w) ==
    /\ task[b][w] = "queued"
    /\ pc[b][RunnerOf[w]] # "running"
    /\ SetTask(b, w, "error")
    /\ UNCHANGED <<durable, phase, generation, stale, pc, sends, faults>>

ReceiveResponse(b, w) ==
    /\ task[b][w] = "executing"
    /\ \E t \in {"ok", "error"} : SetTask(b, w, t)
    /\ UNCHANGED <<durable, phase, generation, stale, pc, sends, faults>>

\* A cancelled dispatch task ends without committing its response.
CancelTask(b, w) ==
    /\ task[b][w] # "none"
    /\ pc[b][RunnerOf[w]] # "running"
    /\ SetTask(b, w, "none")
    /\ UNCHANGED <<durable, phase, generation, stale, pc, sends, faults>>

CommittedStates == {"succeeded", "failed"}

\* Variant: a result whose commit got no reply is requested again.
ResendRequest(b, w) == Fault /\ SetTask(b, w, "queued")

\* The reply of commit_worker is lost: the result is kept and committed again.
RetainResult(b, w) == Fault /\ UNCHANGED task

\* commit_worker: the result and its message commit together; a retry after a
\* lost reply finds the same completion; anything else is rejected, which
\* closes the mailbox and thereby interrupts the supervisor.
CommitWorker(b, w) ==
    LET r == RunnerOf[w]
        admitted == /\ Owns(b)
                    /\ status[r] = "running"
                    /\ worker[w].generation = generation[b]
    IN
    /\ task[b][w] \in {"ok", "error"}
    /\ \/ /\ admitted
          /\ worker[w].state = "submitted"
          /\ worker' = [worker EXCEPT ![w] =
                WithState(@, IF task[b][w] = "ok" THEN "succeeded" ELSE "failed")]
          /\ completed' = completed \cup {w}
          /\ \/ SetTask(b, w, "none") /\ UNCHANGED faults
             \/ RetainResult(b, w)
          /\ UNCHANGED pc
       \/ /\ admitted
          /\ worker[w].state \in CommittedStates
          /\ SetTask(b, w, "none")
          /\ UNCHANGED <<worker, completed, pc, faults>>
       \/ /\ ~admitted \/ worker[w].state \notin CommittedStates \cup {"submitted"}
          /\ SetTask(b, w, "none")
          /\ SetPc(b, r, IF pc[b][r] = "running" THEN "interrupted" ELSE pc[b][r])
          /\ UNCHANGED <<worker, completed, faults>>
    /\ UNCHANGED <<lease, status, cancelRequested, attempt, phase, generation,
                   stale, sends>>

\* run() stops submitting: everything is done, or the timeout passed.
StopProgress(b, r) ==
    /\ pc[b][r] = "running"
    /\ SetPc(b, r, "draining")
    /\ UNCHANGED <<durable, phase, generation, stale, task, sends, faults>>

\* All dispatch tasks ended.  summarize_outcome says succeeded when one of the
\* results run() consumed succeeded; a timeout may leave any of them unread.
Summarize(b, r) ==
    /\ pc[b][r] = "draining"
    /\ Active(b, r) = {}
    /\ \/ /\ \E w \in WorkersOf(r) : worker[w].state = "succeeded"
          /\ SetPc(b, r, "completing_ok")
       \/ SetPc(b, r, "completing_failed")
    /\ UNCHANGED <<durable, phase, generation, stale, task, sends, faults>>

\* A fenced complete_runner is not an SQLAlchemyError: the loop ends.
AbandonResult(b, r) == SetPc(b, r, "erring")

\* complete_runner, retried while the database fails.  A refusal caused by a
\* cancellation, which get_runner tells, finishes the Runner as cancelled.
PersistResult(b, r) ==
    /\ pc[b][r] \in {"completing_ok", "completing_failed"}
    /\ \/ /\ Owns(b)
          /\ CompleteRunner(b, r,
                IF pc[b][r] = "completing_ok" THEN "succeeded" ELSE "failed")
          /\ \/ /\ SetPc(b, r, IF cancelRequested[r] THEN "cancelling" ELSE "closing")
                /\ UNCHANGED faults
             \/ Fault /\ UNCHANGED pc
             \/ ~Accepting(b, r) /\ Fault /\ SetPc(b, r, "erring")
       \/ /\ ~Owns(b)
          /\ AbandonResult(b, r)
          /\ UNCHANGED <<status, worker, attempt, faults>>
    /\ UNCHANGED <<lease, cancelRequested, completed, phase, generation, stale,
                   task, sends>>

FinalStatus(p) == IF p = "cancelling" THEN "cancelled" ELSE "failed"

\* finish_runner at the end of a supervisor.  When the call raises, before or
\* after its commit, the except-Exception branch tries once more as failed.
PersistEnd(b, r) ==
    LET p == pc[b][r]
        attemptState == IF p = "interrupted" THEN "indeterminate"
                        ELSE FinalStatus(p)
        afterError == IF p \in {"cancelling", "failing"} THEN "erring"
                      ELSE "closing"
    IN
    /\ p \in {"cancelling", "failing", "erring", "interrupted"}
    /\ p = "failing" => Active(b, r) = {}   \* run() ends after its tasks
    /\ \/ /\ Owns(b)
          /\ FinishRunner(r, FinalStatus(p), attemptState)
          /\ \/ SetPc(b, r, "closing") /\ UNCHANGED faults
             \/ SetPc(b, r, afterError) /\ Fault
       \/ /\ \/ ~Owns(b) /\ UNCHANGED faults
             \/ Fault
          /\ SetPc(b, r, afterError)
          /\ UNCHANGED <<status, worker, attempt>>
    /\ UNCHANGED <<lease, cancelRequested, completed, phase, generation, stale,
                   task, sends>>

\* The finally branch: unregister ends the remaining dispatch tasks.
CloseExecution(b, r) ==
    /\ pc[b][r] = "closing"
    /\ SetPc(b, r, "idle")
    /\ task' = [task EXCEPT ![b] = [w \in Worker |->
                    IF RunnerOf[w] = r THEN "none" ELSE task[b][w]]]
    /\ UNCHANGED <<durable, phase, generation, stale, sends, faults>>

-----------------------------------------------------------------------------
SupervisorStep(b, r) ==
    \/ CreateWorkers(b, r)
    \/ StopProgress(b, r)
    \/ Summarize(b, r)
    \/ PersistResult(b, r)
    \/ PersistEnd(b, r)
    \/ CloseExecution(b, r)

TaskStep(b, w) ==
    \/ SendRequest(b, w)
    \/ ReceiveResponse(b, w)
    \/ CommitWorker(b, w)

Next ==
    \/ LeaseExpires
    \/ \E r \in Runner : RequestCancel(r)
    \/ \E b \in Backend :
        \/ AcquireRuntime(b)
        \/ SnapshotStale(b)
        \/ StartFails(b)
        \/ StartServing(b)
        \/ StopScheduler(b)
        \/ MaintenanceFails(b)
        \/ ReleaseRuntime(b)
        \/ Crash(b)
        \/ \E r \in Runner :
            \/ RequeueStale(b, r)
            \/ StartSelected(b, r)
            \/ DiscardSelected(b, r)
            \/ ObserveCancellation(b, r)
            \/ PreparationFails(b, r)
            \/ SupervisorStep(b, r)
        \/ \E w \in Worker :
            \/ ReserveWorker(b, w)
            \/ CancelStep(b, w)
            \/ RouterRejects(b, w)
            \/ CancelTask(b, w)
            \/ TaskStep(b, w)

Spec == Init /\ [][Next]_vars

(***************************************************************************)
(* A live process keeps running its supervisors and dispatch tasks, every  *)
(* Provider call ends (the client has a timeout), run() has a timeout and  *)
(* the maintenance loop polls for cancellation.  A process that lost its   *)
(* lease notices at its next renewal, is stopped and started again, and so *)
(* is one that crashed (Restart=always).  The lease of a process that is   *)
(* down is not renewed.  Nothing obliges users, database faults, crashes   *)
(* or a shutdown to happen.                                                *)
(***************************************************************************)
Recovery(b) ==
    \/ AcquireRuntime(b)
    \/ SnapshotStale(b)
    \/ \E r \in Runner : RequeueStale(b, r)
    \/ StartServing(b)
    \/ ~Owns(b) /\ (StartFails(b) \/ MaintenanceFails(b))
    \/ phase[b] = "failed" /\ StopScheduler(b)
    \/ ReleaseRuntime(b)

DeadLeaseExpires ==
    /\ LeaseExpires
    /\ \A b \in Backend : lease.owner = b => phase[b] = "down"

Fairness ==
    /\ WF_vars(DeadLeaseExpires)
    /\ \A b \in Backend :
        /\ WF_vars(Recovery(b))
        /\ \A r \in Runner : WF_vars(SupervisorStep(b, r))
        /\ \A r \in Runner : WF_vars(ObserveCancellation(b, r))
        /\ \A w \in Worker : WF_vars(TaskStep(b, w))

FairSpec == Spec /\ Fairness

-----------------------------------------------------------------------------
(* Properties *)

\* A Worker's Provider request is sent at most once, whatever replies are lost
\* and however often Backends crash or take over ("automatic replay is
\* disabled", WorkerDispatcher.submit).
AtMostOneSend == \A w \in Worker : sends[w] <= 1

\* A request that reached the Provider is never booked as unsent: its row was
\* reserved before, and recovery or cancellation does not call it cancelled.
SentIsAccounted ==
    \A w \in Worker :
        sends[w] > 0 => worker[w].state \notin {"absent", "created", "cancelled"}

\* A Worker recorded as succeeded was really sent, and its message exists.
SuccessWasSent ==
    \A w \in Worker :
        worker[w].state = "succeeded" => sends[w] > 0 /\ w \in completed

\* A finished Runner leaves nothing open: no Worker waits or is in flight in
\* the books and its attempt is closed, even when the Runner was finished by
\* another Backend than the one that started it.
TerminalSettled ==
    \A r \in Runner : status[r] \in Terminal =>
        /\ attempt[r].state # "executing"
        /\ \A w \in WorkersOf(r) : worker[w].state \notin {"created", "submitted"}

\* Once a Backend has recovered, every running Runner was started by its own
\* lease: recovery left nothing of earlier generations running.
NoForeignExecution ==
    \A b \in Backend, r \in Runner :
        /\ Owns(b)
        /\ phase[b] \notin {"acquired", "recovering", "down"}
        /\ status[r] = "running"
        => attempt[r] = [state |-> "executing", generation |-> lease.generation]

\* A Runner whose cancellation was accepted is never recorded as succeeded.
CancelledNeverSucceeds ==
    \A r \in Runner : cancelRequested[r] => status[r] # "succeeded"

\* A succeeded Runner has a committed successful output.
SuccessHasOutput ==
    \A r \in Runner : status[r] = "succeeded" =>
        \E w \in WorkersOf(r) : worker[w].state = "succeeded"

\* The books about Workers and Runners agree with what the Provider saw and with
\* one another, as stated above, whichever process wrote them.
BooksAgree == SentIsAccounted /\ SuccessWasSent /\ SuccessHasOutput /\ TerminalSettled

\* What is committed is committed once, by the owner, and for good: an output goes
\* only into the open attempt of the lease that is live at that moment, and it and
\* its message survive every later step, of recovery, cancellation, duplicate
\* commits and stale owners (commit_worker, requeue_stale).
OutputsAreFinal ==
    [][\A w \in Worker :
        /\ worker[w].state \in CommittedStates => worker'[w] = worker[w] /\ w \in completed'
        /\ worker[w].state # worker'[w].state /\ worker'[w].state \in CommittedStates
           => /\ lease.live
              /\ attempt[RunnerOf[w]] =
                    [state |-> "executing", generation |-> lease.generation]]_vars

\* A supervisor never stays: it ends and its slot is free, whatever it was doing
\* when the database failed, a Backend crashed or the lease was lost.
SupervisorsEnd ==
    \A b \in Backend, r \in Runner : pc[b][r] # "idle" ~> pc[b][r] = "idle"

\* What a database fault may leave behind: a running Runner that nobody supervises,
\* under a Backend that goes on serving, because the reply of start_selected was
\* lost or because finish_runner of the last branch failed ("recovery will mark it
\* indeterminate", Scheduler._execute).
Orphaned(r) ==
    /\ faults > 0
    /\ status[r] = "running"
    /\ \A b \in Backend : pc[b][r] = "idle"
    /\ \E b \in Backend : Owns(b) /\ phase[b] = "serving"

\* Every Runner that started reaches a terminal status, unless a database fault
\* orphans it; and once no lease is live a later recovery ends it in any case,
\* orphans included, while Backends can still be started.
RunningResolves ==
    \A r \in Runner :
        /\ status[r] = "running"
           ~> \/ status[r] \in Terminal
              \/ Orphaned(r)
              \/ lease.generation = MaxGeneration
        /\ status[r] = "running" /\ ~lease.live
           ~> status[r] \in Terminal \/ lease.generation = MaxGeneration

\* Nothing that was started is left behind, in memory or in the database, but for
\* the Runners a fault orphans, which the next recovery ends.
EverythingEnds == SupervisorsEnd /\ RunningResolves

-----------------------------------------------------------------------------
(* The inductive invariants behind the safety properties *)

\* The books of a Worker against its dispatch tasks and its sends: a Worker not
\* reserved yet has neither; only one process ever holds a task for it; a
\* queued task has not been sent, one with a response has.
SendLedger ==
    /\ \A w \in Worker : worker[w].state \in {"absent", "created", "cancelled"} =>
            sends[w] = 0 /\ \A b \in Backend : task[b][w] = "none"
    /\ \A w \in Worker : \A b, c \in Backend :
            task[b][w] # "none" /\ task[c][w] # "none" => b = c
    /\ \A w \in Worker : \A b \in Backend :
            /\ task[b][w] = "queued" => sends[w] = 0
            /\ task[b][w] \in {"executing", "ok"} => sends[w] = 1
    /\ \A w \in Worker : sends[w] \in {0, 1}
    /\ \A w \in Worker : worker[w].state = "succeeded" => sends[w] = 1
    /\ \A w \in Worker : worker[w].state \in CommittedStates => w \in completed

\* Phases after a successful start().
Started == {"serving", "failed", "stopping", "aborting"}

\* Supervisors and dispatch tasks exist only in a started process; what runs
\* was started under the current lease, or is still to be recovered.
Fencing ==
    /\ \A b \in Backend, r \in Runner : pc[b][r] # "idle" => phase[b] \in Started
    /\ \A b \in Backend, w \in Worker :
            task[b][w] # "none" => pc[b][RunnerOf[w]] # "idle"
    /\ \A r \in Runner : status[r] = "running" => attempt[r].state = "executing"
    /\ \A b \in Backend, r \in Runner :
            Owns(b) /\ phase[b] = "recovering" /\ status[r] = "running"
            => r \in stale[b]
    /\ NoForeignExecution

\* Nothing of a Runner exists before it starts, nothing stays open after it.
Settlement ==
    /\ \A r \in Runner : status[r] = "queued" =>
            /\ attempt[r].state = "absent"
            /\ \A w \in WorkersOf(r) : worker[w].state = "absent"
    /\ TerminalSettled

\* A supervisor about to record a success has seen a committed one.
Outcome ==
    /\ \A b \in Backend, r \in Runner : pc[b][r] = "completing_ok" =>
            \E w \in WorkersOf(r) : worker[w].state = "succeeded"
    /\ SuccessHasOutput
    /\ CancelledNeverSucceeds
=============================================================================
