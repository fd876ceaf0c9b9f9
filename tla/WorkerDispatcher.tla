-------------------------- MODULE WorkerDispatcher --------------------------
(***************************************************************************)
(* WorkerDispatcher: permits for Workers.  A submission takes a permit of  *)
(* each runtime its Runner belongs to, child first, then a slot of the     *)
(* Backend; its task holds them all until it ends.  The gates are          *)
(* asyncio.Semaphores, which serve their waiters in order (external).      *)
(*                                                                         *)
(* A gate exists while a registered Runner uses it, so a runtime can have  *)
(* several gates one after the other: <<runtime, epoch>>.                  *)
(*                                                                         *)
(* What the request router does is reduced to the physical execution of    *)
(* each request; the reservation and commit transactions, modelled in      *)
(* RunnerLifecycle, are reduced to their outcome.                          *)
(***************************************************************************)
EXTENDS Integers, Sequences, FiniteSets, SequencesExt

CONSTANTS
    Runner,
    Step,           \* Workers to submit
    RunnerOf,       \* the Runner of each Worker
    Runtime,
    RuntimesOf,     \* runner_runtimes: the runtimes of a Runner, child first
    RuntimeLimit,   \* runtime_limits
    Capacity,       \* admission capacity of the Backend
    Slot            \* names the semaphore of that capacity

ASSUME StepAssumption == RunnerOf \in [Step -> Runner]
ASSUME RuntimesAssumption ==
    /\ RuntimesOf \in [Runner -> Seq(Runtime)]
    /\ \A r \in Runner : IsInjective(RuntimesOf[r])
ASSUME LimitAssumption ==
    /\ RuntimeLimit \in [Runtime -> Nat \ {0}]
    /\ Capacity \in Nat \ {0}
ASSUME FiniteAssumption == IsFiniteSet(Runner) /\ IsFiniteSet(Step)
ASSUME SlotAssumption == Slot \notin Runtime \X Nat

Epoch == 1..Cardinality(Runner)     \* every Runner registers once
Gate == Runtime \X Epoch
Permit == Gate \cup {Slot}

VARIABLES
    state,          \* each Runner's registration
    current,        \* runtime_gates: the epoch of a runtime's gate, or 0
    created,        \* how many gates a runtime has had
    free,           \* the value of each semaphore
    line,           \* its waiters, in order
    pc,             \* where the submission or the task of a Worker is
    need,           \* the semaphores it takes, in order
    got,            \* how many of them it holds
    physical        \* where its request is in the router

vars == <<state, current, created, free, line, pc, need, got, physical>>

\* "open": run() submits; "ending": run() is in its finally block; "gone":
\* unregistered.
RunnerStates == {"new", "open", "ending", "gone"}

\* "draining": a cancelled task that waits for the physical execution;
\* "forced": one whose wait was interrupted by a second cancellation.
StepStates ==
    {"idle", "waiting", "reserving", "executing", "draining", "committing", "ended", "forced"}

LimitOf(x) == IF x = Slot THEN Capacity ELSE RuntimeLimit[x[1]]
Held(s) == {need[s][i] : i \in 1..got[s]}
Active(r) ==
    {s \in Step : RunnerOf[s] = r /\ pc[s] \in {"executing", "draining", "committing"}}
Submitting(r) == {s \in Step : RunnerOf[s] = r /\ pc[s] \in {"waiting", "reserving"}}
Registered == {r \in Runner : state[r] \in {"open", "ending"}}

\* Gates, permits, tasks and registrations keep their types.
TypeOK ==
    /\ state \in [Runner -> RunnerStates]
    /\ current \in [Runtime -> Epoch \cup {0}]
    /\ created \in [Runtime -> 0..Cardinality(Runner)]
    /\ free \in [Permit -> Nat]
    /\ line \in [Permit -> Seq(Step)]
    /\ pc \in [Step -> StepStates]
    /\ need \in [Step -> Seq(Permit)]
    /\ got \in [Step -> Nat]
    /\ physical \in [Step -> {"none", "queued", "executing", "answered", "refused"}]

Init ==
    /\ state = [r \in Runner |-> "new"]
    /\ current = [g \in Runtime |-> 0]
    /\ created = [g \in Runtime |-> 0]
    /\ free = [x \in Permit |-> LimitOf(x)]
    /\ line = [x \in Permit |-> <<>>]
    /\ pc = [s \in Step |-> "idle"]
    /\ need = [s \in Step |-> <<>>]
    /\ got = [s \in Step |-> 0]
    /\ physical = [s \in Step |-> "none"]

-----------------------------------------------------------------------------
\* register: a gate is created for a runtime that has none.
Register(r) ==
    LET missing == {g \in Range(RuntimesOf[r]) : current[g] = 0} IN
    /\ state[r] = "new"
    /\ state' = [state EXCEPT ![r] = "open"]
    /\ created' = [g \in Runtime |-> IF g \in missing THEN created[g] + 1 ELSE created[g]]
    /\ current' = [g \in Runtime |-> IF g \in missing THEN created[g] + 1 ELSE current[g]]
    /\ UNCHANGED <<free, line, pc, need, got, physical>>

\* The semaphores of a submission: child runtime to parent, then the Backend.
PermitsOf(r) ==
    [i \in DOMAIN RuntimesOf[r] |-> <<RuntimesOf[r][i], current[RuntimesOf[r][i]]>>]
    \o <<Slot>>

\* submit: run() starts one submission at a time.
Submit(s) ==
    LET r == RunnerOf[s] IN
    /\ state[r] = "open"
    /\ pc[s] = "idle"
    /\ Submitting(r) = {}
    /\ pc' = [pc EXCEPT ![s] = "waiting"]
    /\ need' = [need EXCEPT ![s] = PermitsOf(r)]
    /\ line' = [line EXCEPT ![PermitsOf(r)[1]] = Append(@, s)]
    /\ UNCHANGED <<state, current, created, free, got, physical>>

\* Variant: the last permit is never given out.
CanAcquireSpare(s, x) == pc[s] = "waiting" /\ Head(line[x]) = s /\ free[x] > 1

CanAcquire(s, x) == pc[s] = "waiting" /\ Head(line[x]) = s /\ free[x] > 0

\* The head of a line takes a permit and queues for the next one.
Acquire(s) ==
    LET x == need[s][got[s] + 1]
        left == [line EXCEPT ![x] = Tail(@)]
    IN
    /\ CanAcquire(s, x)
    /\ free' = [free EXCEPT ![x] = @ - 1]
    /\ got' = [got EXCEPT ![s] = @ + 1]
    /\ \/ /\ got[s] + 1 = Len(need[s])
          /\ pc' = [pc EXCEPT ![s] = "reserving"]
          /\ line' = left
       \/ /\ got[s] + 1 < Len(need[s])
          /\ line' = [left EXCEPT ![need[s][got[s] + 2]] = Append(@, s)]
          /\ UNCHANGED pc
    /\ UNCHANGED <<state, current, created, need, physical>>

\* The Workers S give back what they hold: the finally block of submit, or
\* the done callback of the task.
Release(S) ==
    /\ free' = [x \in Permit |-> free[x] + Cardinality({s \in S : x \in Held(s)})]
    /\ got' = [s \in Step |-> IF s \in S THEN 0 ELSE got[s]]

\* The end of a task.
EndTask(s) ==
    /\ pc' = [pc EXCEPT ![s] = "ended"]
    /\ Release({s})
    /\ UNCHANGED <<state, current, created, line, need>>

\* reserve_worker accepts, and the task sends the request to the router; or it
\* refuses or raises, and run() fails.
Reserve(s) ==
    /\ pc[s] = "reserving"
    /\ \/ /\ pc' = [pc EXCEPT ![s] = "executing"]
          /\ physical' = [physical EXCEPT ![s] = "queued"]
          /\ UNCHANGED <<state, current, created, free, line, need, got>>
       \/ /\ EndTask(s)
          /\ UNCHANGED physical

-----------------------------------------------------------------------------
(* The router and the request actors, external to the dispatcher *)

RouterStep(s) ==
    /\ \/ /\ physical[s] = "queued"
          /\ state[RunnerOf[s]] = "open"
          /\ physical' = [physical EXCEPT ![s] = "executing"]
       \/ /\ physical[s] = "queued"
          /\ state[RunnerOf[s]] # "open"      \* router.cancel came first
          /\ physical' = [physical EXCEPT ![s] = "refused"]
       \/ /\ physical[s] = "executing"
          /\ physical' = [physical EXCEPT ![s] = "answered"]
    /\ UNCHANGED <<state, current, created, free, line, pc, need, got>>

-----------------------------------------------------------------------------
(* The task of a Worker: WorkerDispatcher._execute *)

\* The response, or the exception that stands for it, goes on to the commit,
\* even in a cancelled task: the exception replaces its CancelledError.
Respond(s) ==
    /\ \/ pc[s] = "executing" /\ physical[s] \in {"answered", "refused"}
       \/ pc[s] = "draining" /\ physical[s] = "refused"
    /\ pc' = [pc EXCEPT ![s] = "committing"]
    /\ UNCHANGED <<state, current, created, free, line, need, got, physical>>

\* A cancelled task ends once its physical execution has.
Drained(s) ==
    /\ pc[s] = "draining"
    /\ physical[s] = "answered"
    /\ EndTask(s)
    /\ UNCHANGED physical

\* commit_worker and the delivery, or their failure.
Commit(s) ==
    /\ pc[s] = "committing"
    /\ EndTask(s)
    /\ UNCHANGED physical

-----------------------------------------------------------------------------
(* The end of a Runner *)

\* Variant: a cancelled task ends at once.
CancelAtOnce(p) == IF p \in {"executing", "draining", "committing"} THEN "ended" ELSE p

\* What task.cancel() does to a task the first time.
CancelledTask(p) ==
    CASE p = "executing" -> "draining"
      [] p = "committing" -> "ended"
      [] OTHER -> p

\* The submissions S, at most one, leave the line they wait in.
LeaveLine(S) ==
    \/ S = {} /\ UNCHANGED line
    \/ \E s \in S : line' = [line EXCEPT ![need[s][got[s] + 1]] = RemoveFirst(@, s)]

\* run() leaves its loop: finished, timed out, failed or cancelled.  Its
\* finally block cancels the submission that waits, then dispatcher.cancel
\* tells the router and cancels the tasks.
EndRun(r) ==
    LET next(s) ==
            IF RunnerOf[s] # r THEN pc[s]
            ELSE IF s \in Submitting(r) THEN "ended" ELSE CancelledTask(pc[s])
        ended == {s \in Step : next(s) = "ended" /\ pc[s] # "ended"}
    IN
    /\ state[r] = "open"
    /\ state' = [state EXCEPT ![r] = "ending"]
    /\ pc' = [s \in Step |-> next(s)]
    /\ LeaveLine({s \in Submitting(r) : pc[s] = "waiting"})
    /\ Release(ended)
    /\ UNCHANGED <<current, created, need, physical>>

\* The grace period is over, or the Scheduler stops: the gather of the first
\* cancellation is cancelled, or unregister cancels again.  The second
\* CancelledError ends a task that waits for its physical execution.
ForceCancel(r) ==
    LET ended == {s \in Active(r) : pc[s] = "draining"} IN
    /\ state[r] = "ending"
    /\ ended # {}
    /\ pc' = [s \in Step |-> IF s \in ended THEN "forced" ELSE pc[s]]
    /\ Release(ended)
    /\ UNCHANGED <<state, current, created, line, need, physical>>

\* unregister: after the last task, gates no other Runner uses are dropped.
Unregister(r) ==
    LET used == UNION {Range(RuntimesOf[c]) : c \in Registered \ {r}} IN
    /\ state[r] = "ending"
    /\ Active(r) = {}
    /\ state' = [state EXCEPT ![r] = "gone"]
    /\ current' = [g \in Runtime |->
            IF g \in Range(RuntimesOf[r]) \ used THEN 0 ELSE current[g]]
    /\ UNCHANGED <<created, free, line, pc, need, got, physical>>

-----------------------------------------------------------------------------
TaskStep(s) == Respond(s) \/ Drained(s) \/ Commit(s)

Next ==
    \/ \E r \in Runner : Register(r) \/ EndRun(r) \/ ForceCancel(r) \/ Unregister(r)
    \/ \E s \in Step :
        Submit(s) \/ Acquire(s) \/ Reserve(s) \/ RouterStep(s) \/ TaskStep(s)

Spec == Init /\ [][Next]_vars

\* The event loop runs what is runnable, database calls return, Provider calls
\* end, and a Runner that is ending is unregistered.  Nothing obliges a Runner
\* to be registered, to submit or to end.
FairSpec ==
    /\ Spec
    /\ \A s \in Step :
        /\ WF_vars(Acquire(s))
        /\ WF_vars(Reserve(s))
        /\ WF_vars(RouterStep(s))
        /\ WF_vars(TaskStep(s))
    /\ \A r \in Runner : WF_vars(Unregister(r))

-----------------------------------------------------------------------------
(* Properties *)

\* No permit is lost or invented on any path: refusal, cancellation while
\* waiting in a line, cancellation of the task, a forced end.
PermitsConserved ==
    \A x \in Permit :
        free[x] + Cardinality({s \in Step : x \in Held(s)}) = LimitOf(x)

\* A gate that was dropped has no holder and nobody in its line, so the gate
\* that replaces it starts with the permits the runtime really has.
DroppedGatesAreFree ==
    \A g \in Runtime, e \in Epoch :
        e # current[g] => /\ \A s \in Step : <<g, e>> \notin Held(s)
                          /\ line[<<g, e>>] = <<>>

\* Somebody who waits for a runtime permit keeps no slot of the Backend from
\* the others, and waits in exactly one line.
WaitersHoldNoSlot ==
    \A s \in Step :
        /\ pc[s] = "waiting" => Slot \notin Held(s)
        /\ Cardinality({x \in Permit : s \in Range(line[x])})
           = IF pc[s] = "waiting" THEN 1 ELSE 0

\* The requests S that execute are within the ceiling of every runtime and the
\* capacity of the Backend.
WithinCeilings(S) ==
    LET running(R) == {s \in S : physical[s] = "executing" /\ RunnerOf[s] \in R} IN
    /\ \A g \in Runtime :
         Cardinality(running({r \in Runner : g \in Range(RuntimesOf[r])}))
         <= RuntimeLimit[g]
    /\ Cardinality(running(Runner)) <= Capacity

\* At any moment the physical executions of a runtime are within its ceiling,
\* those of cancelled Workers included, and those of the Backend within its
\* capacity: "Cancellation retains permits until physical execution finishes"
\* (docs/runtime.md:20, dispatch.py:140).
RuntimeCeiling == WithinCeilings(Step)

\* The same for all but the requests whose task was cancelled a second time,
\* after the grace period: an ordinary cancellation keeps the permits.
CeilingUntilForced == WithinCeilings({s \in Step : pc[s] # "forced"})

\* Permits, gates and lines are consistent, and bound what executes, whatever way
\* submissions, tasks and Runners end: the facts above.
PermitInvariant ==
    TypeOK /\ PermitsConserved /\ DroppedGatesAreFree /\ WaitersHoldNoSlot /\ CeilingUntilForced

\* What PermitInvariant rests on.  The number of a gate belongs to one
\* registration.
GatesAreNumbered ==
    \A g \in Runtime :
        /\ current[g] \in {0, created[g]}
        /\ created[g] <= Cardinality({r \in Runner : state[r] # "new"})

\* The runtimes of a registered Runner have gates.
RunnersHaveGates == \A r \in Registered : \A g \in Range(RuntimesOf[r]) : current[g] # 0

\* The Workers of a registered Runner ask for those gates, and the router holds
\* no request that its task gave up, except after a second cancellation.
WorkersAreRegistered ==
    \A s \in Step :
        /\ pc[s] \notin {"idle", "ended", "forced"} =>
               RunnerOf[s] \in Registered /\ need[s] = PermitsOf(RunnerOf[s])
        /\ pc[s] \in {"waiting", "reserving"} => state[RunnerOf[s]] = "open"
        /\ \/ pc[s] \in {"idle", "ended", "forced"} /\ got[s] = 0
           \/ pc[s] = "waiting" /\ got[s] < Len(need[s])
           \/ /\ pc[s] \in {"reserving", "executing", "draining", "committing"}
              /\ got[s] = Len(need[s])
        /\ physical[s] \in {"queued", "executing"} => pc[s] \in {"executing", "draining", "forced"}

\* A Runner has one submission at a time, and the line of a permit is the
\* submissions that ask for it next.
LinesAreSubmissions ==
    /\ \A s, t \in Step :
         /\ RunnerOf[s] = RunnerOf[t]
         /\ {pc[s], pc[t]} \subseteq {"waiting", "reserving"}
         => s = t
    /\ \A x \in Permit :
         /\ IsInjective(line[x])
         /\ Range(line[x]) = {s \in Step : pc[s] = "waiting" /\ need[s][got[s] + 1] = x}

\* Every submission gets its permits, or is cancelled: nobody waits for ever.
SubmissionsEnd == \A s \in Step : pc[s] = "waiting" ~> pc[s] # "waiting"
=============================================================================
