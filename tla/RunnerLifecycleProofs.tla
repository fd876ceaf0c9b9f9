------------------------ MODULE RunnerLifecycleProofs ------------------------
(* Machine-checked proofs about RunnerLifecycle, for any numbers of Backends, *)
(* Runners, Workers, generations and faults.                                  *)
EXTENDS RunnerLifecycle, TLAPS

USE RunnerOfAssumption, BoundsAssumption

-----------------------------------------------------------------------------
(* What the helpers of the actions do to the types *)

RowTypes ==
    /\ status' \in [Runner -> Statuses]
    /\ attempt' \in [Runner -> [state : AttemptStates, generation : Generations]]
    /\ worker' \in [Worker -> [state : WorkerStates, generation : Generations]]

\* One more fault stays within the bound.
LEMMA FaultType == TypeOK /\ Fault => faults' \in 0..MaxFaults
  BY DEF TypeOK, Fault

\* A released lease is still a lease.
LEMMA ReleaseLeaseType ==
  ASSUME NEW b \in Backend, TypeOK, ReleaseLease(b)
  PROVE  lease' \in [owner : Backend \cup {NoOwner}, generation : Generations,
                     live : BOOLEAN]
  BY DEF TypeOK, ReleaseLease, Generations

\* Moving one supervisor keeps the table of supervisors well typed.
LEMMA PcType ==
  ASSUME TypeOK, NEW b \in Backend, NEW r \in Runner, NEW p \in Supervisor,
         SetPc(b, r, p)
  PROVE  pc' \in [Backend -> [Runner -> Supervisor]]
  BY DEF TypeOK, SetPc

\* Moving one supervisor moves no other.
LEMMA PcAt ==
  ASSUME TypeOK, NEW b \in Backend, NEW r \in Runner, NEW p, SetPc(b, r, p)
  PROVE  \A c \in Backend, q \in Runner :
            pc'[c][q] = IF c = b /\ q = r THEN p ELSE pc[c][q]
  BY DEF TypeOK, SetPc

\* Moving one dispatch task keeps their table well typed.
LEMMA TaskType ==
  ASSUME TypeOK, NEW b \in Backend, NEW w \in Worker, NEW t \in DispatchTask,
         SetTask(b, w, t)
  PROVE  task' \in [Backend -> [Worker -> DispatchTask]]
  BY DEF TypeOK, SetTask

\* Settling the Workers of a Runner yields Worker rows.
LEMMA SettledType ==
  ASSUME TypeOK, NEW r \in Runner
  PROVE  SettledWorkers(r) \in
            [Worker -> [state : WorkerStates, generation : Generations]]
  BY DEF TypeOK, SettledWorkers, Settled, WithState, WorkerStates

\* finish_runner writes rows.
LEMMA FinishType ==
  ASSUME TypeOK, NEW r \in Runner, NEW f \in Statuses, NEW a \in AttemptStates,
         FinishRunner(r, f, a)
  PROVE  RowTypes
<1>1. CASE status[r] = "running"
  <2>1. worker' = SettledWorkers(r)
    BY <1>1 DEF FinishRunner
  <2>2. attempt' \in [Runner -> [state : AttemptStates, generation : Generations]]
    BY <1>1 DEF FinishRunner, TypeOK, WithState
  <2> QED
    <3>1. status' = [status EXCEPT ![r] = f]
      BY <1>1 DEF FinishRunner
    <3>2. status' \in [Runner -> Statuses]
      BY <3>1 DEF TypeOK
    <3> QED
      BY <2>1, <2>2, <3>2, SettledType DEF RowTypes
<1>2. CASE status[r] # "running"
  BY <1>2 DEF FinishRunner, TypeOK, RowTypes
<1> QED
  BY <1>1, <1>2

\* complete_runner writes rows.
LEMMA CompleteType ==
  ASSUME TypeOK, NEW b \in Backend, NEW r \in Runner, NEW f \in Terminal,
         CompleteRunner(b, r, f)
  PROVE  RowTypes
<1>1. CASE Completable(r)
  <2>1. worker' = SettledWorkers(r)
    BY <1>1 DEF CompleteRunner
  <2>2. attempt' \in [Runner -> [state : AttemptStates, generation : Generations]]
    <3>1. WithState(attempt[r], f) \in [state : AttemptStates, generation : Generations]
      BY DEF TypeOK, AttemptStates, WithState
    <3>2. attempt' = [attempt EXCEPT ![r] = WithState(attempt[r], f)]
          \/ attempt' = [attempt EXCEPT ![r] = attempt[r]]
      BY <1>1 DEF CompleteRunner
    <3> QED
      BY <3>1, <3>2 DEF TypeOK
  <2> QED
    <3>1. status' = [status EXCEPT ![r] = f]
      BY <1>1 DEF CompleteRunner
    <3>2. status' \in [Runner -> Statuses]
      BY <3>1 DEF TypeOK, Statuses
    <3> QED
      BY <2>1, <2>2, <3>2, SettledType DEF RowTypes
<1>2. CASE ~Completable(r)
  BY <1>2 DEF CompleteRunner, TypeOK, RowTypes
<1> QED
  BY <1>1, <1>2

\* Every step keeps every variable in its type.
LEMMA TypeStep == TypeOK /\ [Next]_vars => TypeOK'
<1> SUFFICES ASSUME TypeOK, [Next]_vars PROVE TypeOK'
  OBVIOUS
<1>1. CASE UNCHANGED vars
  BY <1>1 DEF TypeOK, Generations, Statuses, Terminal, AttemptStates,
        WorkerStates, Phases, Supervisor, DispatchTask, vars, durable, process
<1>2. CASE LeaseExpires
  BY <1>2 DEF TypeOK, Generations, Statuses, Terminal, AttemptStates,
        WorkerStates, Phases, Supervisor, DispatchTask, LeaseExpires, process
<1>3. ASSUME NEW r \in Runner, RequestCancel(r) PROVE TypeOK'
  BY <1>3 DEF TypeOK, Generations, Statuses, Terminal, AttemptStates,
        WorkerStates, Phases, Supervisor, DispatchTask, RequestCancel, process
<1>4. ASSUME NEW b \in Backend, AcquireRuntime(b) PROVE TypeOK'
  BY <1>4 DEF TypeOK, Generations, Statuses, Terminal, AttemptStates,
        WorkerStates, Phases, Supervisor, DispatchTask, AcquireRuntime
<1>5. ASSUME NEW b \in Backend, SnapshotStale(b) PROVE TypeOK'
  BY <1>5 DEF TypeOK, Generations, Statuses, Terminal, AttemptStates,
        WorkerStates, Phases, Supervisor, DispatchTask, SnapshotStale, durable
<1>6. ASSUME NEW b \in Backend, StartFails(b) PROVE TypeOK'
  <2>1. faults' \in 0..MaxFaults
    BY <1>6, FaultType DEF StartFails, TypeOK
  <2>2. ReleaseLease(b)
    BY <1>6 DEF StartFails
  <2> QED
    BY <1>6, <2>1, <2>2, ReleaseLeaseType DEF StartFails, TypeOK, Phases
<1>7. ASSUME NEW b \in Backend, StartServing(b) PROVE TypeOK'
  BY <1>7 DEF TypeOK, Generations, Statuses, Terminal, AttemptStates,
        WorkerStates, Phases, Supervisor, DispatchTask, StartServing, durable
<1>8. ASSUME NEW b \in Backend, StopScheduler(b) PROVE TypeOK'
  BY <1>8 DEF TypeOK, Generations, Statuses, Terminal, AttemptStates,
        WorkerStates, Phases, Supervisor, DispatchTask, StopScheduler,
        Interrupt, InterruptedAt, durable
<1>9. ASSUME NEW b \in Backend, MaintenanceFails(b) PROVE TypeOK'
  BY <1>9 DEF TypeOK, Generations, Statuses, Terminal, AttemptStates,
        WorkerStates, Phases, Supervisor, DispatchTask, MaintenanceFails,
        Interrupt, InterruptedAt, durable, Fault
<1>10. ASSUME NEW b \in Backend, ReleaseRuntime(b) PROVE TypeOK'
  BY <1>10 DEF TypeOK, Generations, Statuses, Terminal, AttemptStates,
        WorkerStates, Phases, Supervisor, DispatchTask, ReleaseRuntime,
        ReleaseLease
<1>11. ASSUME NEW b \in Backend, Crash(b) PROVE TypeOK'
  BY <1>11 DEF TypeOK, Generations, Statuses, Terminal, AttemptStates,
        WorkerStates, Phases, Supervisor, DispatchTask, Crash, durable
<1>12. ASSUME NEW b \in Backend, NEW r \in Runner, RequeueStale(b, r) PROVE TypeOK'
  <2>1. RowTypes
    BY <1>12, FinishType DEF RequeueStale, Statuses, Terminal, AttemptStates
  <2> QED
    BY <1>12, <2>1 DEF RequeueStale, TypeOK, RowTypes
<1>13. ASSUME NEW b \in Backend, NEW r \in Runner, StartSelected(b, r) PROVE TypeOK'
  <2>1. pc' \in [Backend -> [Runner -> Supervisor]]
    BY <1>13, PcType DEF StartSelected, TypeOK, Supervisor
  <2>2. faults' \in 0..MaxFaults
    BY <1>13, FaultType DEF StartSelected, TypeOK
  <2>3. attempt' \in [Runner -> [state : AttemptStates, generation : Generations]]
    BY <1>13 DEF StartSelected, TypeOK, AttemptStates
  <2> QED
    BY <1>13, <2>1, <2>2, <2>3 DEF StartSelected, TypeOK, Statuses
<1>14. ASSUME NEW b \in Backend, NEW r \in Runner, DiscardSelected(b, r) PROVE TypeOK'
  BY <1>14 DEF TypeOK, Generations, Statuses, Terminal, AttemptStates,
        WorkerStates, Phases, Supervisor, DispatchTask, DiscardSelected,
        process
<1>15. ASSUME NEW b \in Backend, NEW r \in Runner, ObserveCancellation(b, r) PROVE TypeOK'
  BY <1>15 DEF TypeOK, Generations, Statuses, Terminal, AttemptStates,
        WorkerStates, Phases, Supervisor, DispatchTask, ObserveCancellation,
        SetPc, durable
<1>16. ASSUME NEW b \in Backend, NEW r \in Runner, PreparationFails(b, r) PROVE TypeOK'
  BY <1>16 DEF TypeOK, Generations, Statuses, Terminal, AttemptStates,
        WorkerStates, Phases, Supervisor, DispatchTask, PreparationFails,
        SetPc, durable
<1>17. ASSUME NEW b \in Backend, NEW r \in Runner, CreateWorkers(b, r) PROVE TypeOK'
  <2>1. pc' \in [Backend -> [Runner -> Supervisor]]
    BY <1>17, PcType DEF CreateWorkers, Raises, Supervisor
  <2>2. faults' \in 0..MaxFaults
    BY <1>17, FaultType DEF CreateWorkers, TypeOK
  <2>3. worker' \in [Worker -> [state : WorkerStates, generation : Generations]]
    BY <1>17 DEF CreateWorkers, Raises, TypeOK, WorkerStates
  <2> QED
    BY <1>17, <2>1, <2>2, <2>3 DEF CreateWorkers, Raises, TypeOK
<1>18. ASSUME NEW b \in Backend, NEW r \in Runner, StopProgress(b, r) PROVE TypeOK'
  BY <1>18 DEF TypeOK, Generations, Statuses, Terminal, AttemptStates,
        WorkerStates, Phases, Supervisor, DispatchTask, StopProgress, SetPc,
        durable
<1>19. ASSUME NEW b \in Backend, NEW r \in Runner, Summarize(b, r) PROVE TypeOK'
  <2>1. pc' \in [Backend -> [Runner -> Supervisor]]
    BY <1>19, PcType DEF Summarize, Supervisor
  <2> QED
    BY <1>19, <2>1 DEF Summarize, TypeOK, durable
<1>20. ASSUME NEW b \in Backend, NEW r \in Runner, PersistResult(b, r) PROVE TypeOK'
  <2>1. pc' \in [Backend -> [Runner -> Supervisor]]
    BY <1>20, PcType DEF PersistResult, AbandonResult, TypeOK, Supervisor
  <2>2. faults' \in 0..MaxFaults
    BY <1>20, FaultType DEF PersistResult, TypeOK
  <2>3. RowTypes
    <3>1. CASE Owns(b)
      BY <1>20, <3>1, CompleteType DEF PersistResult, Terminal
    <3>2. CASE ~Owns(b)
      BY <1>20, <3>2 DEF PersistResult, RowTypes, TypeOK
    <3> QED
      BY <3>1, <3>2
  <2> QED
    BY <1>20, <2>1, <2>2, <2>3 DEF PersistResult, TypeOK, RowTypes
<1>21. ASSUME NEW b \in Backend, NEW r \in Runner, PersistEnd(b, r) PROVE TypeOK'
  <2> DEFINE p == pc[b][r]
             a == IF p = "interrupted" THEN "indeterminate" ELSE FinalStatus(p)
  <2>1. FinalStatus(p) \in Statuses /\ a \in AttemptStates
    BY DEF FinalStatus, Statuses, AttemptStates, Terminal
  <2>2. pc' \in [Backend -> [Runner -> Supervisor]]
    BY <1>21, PcType DEF PersistEnd, Supervisor
  <2>3. faults' \in 0..MaxFaults
    BY <1>21, FaultType DEF PersistEnd, TypeOK
  <2>4. RowTypes
    <3>1. CASE FinishRunner(r, FinalStatus(p), a)
      BY <3>1, <2>1, FinishType
    <3>2. CASE UNCHANGED <<status, worker, attempt>>
      BY <3>2 DEF RowTypes, TypeOK
    <3> QED
      BY <1>21, <3>1, <3>2 DEF PersistEnd
  <2> QED
    BY <1>21, <2>2, <2>3, <2>4 DEF PersistEnd, TypeOK, RowTypes
<1>22. ASSUME NEW b \in Backend, NEW r \in Runner, CloseExecution(b, r) PROVE TypeOK'
  BY <1>22 DEF TypeOK, Generations, Statuses, Terminal, AttemptStates,
        WorkerStates, Phases, Supervisor, DispatchTask, CloseExecution, SetPc,
        durable
<1>23. ASSUME NEW b \in Backend, NEW w \in Worker, ReserveWorker(b, w) PROVE TypeOK'
  <2>0. RunnerOf[w] \in Runner
    OBVIOUS
  <2>1. pc' \in [Backend -> [Runner -> Supervisor]]
    BY <1>23, <2>0, PcType DEF ReserveWorker, Raises, TypeOK, Supervisor
  <2>2. faults' \in 0..MaxFaults
    BY <1>23, FaultType DEF ReserveWorker, TypeOK
  <2>3. task' \in [Backend -> [Worker -> DispatchTask]]
    BY <1>23, TaskType DEF ReserveWorker, Raises, TypeOK, DispatchTask
  <2>4. worker' \in [Worker -> [state : WorkerStates, generation : Generations]]
    BY <1>23 DEF ReserveWorker, Raises, TypeOK, WorkerStates, WithState
  <2> QED
    BY <1>23, <2>1, <2>2, <2>3, <2>4 DEF ReserveWorker, TypeOK
<1>24. ASSUME NEW b \in Backend, NEW w \in Worker, RouterRejects(b, w) PROVE TypeOK'
  BY <1>24 DEF TypeOK, Generations, Statuses, Terminal, AttemptStates,
        WorkerStates, Phases, Supervisor, DispatchTask, RouterRejects,
        SetTask, durable
<1>25. ASSUME NEW b \in Backend, NEW w \in Worker, CancelTask(b, w) PROVE TypeOK'
  BY <1>25 DEF TypeOK, Generations, Statuses, Terminal, AttemptStates,
        WorkerStates, Phases, Supervisor, DispatchTask, CancelTask, SetTask,
        durable
<1>26. ASSUME NEW b \in Backend, NEW w \in Worker, SendRequest(b, w) PROVE TypeOK'
  BY <1>26 DEF TypeOK, Generations, Statuses, Terminal, AttemptStates,
        WorkerStates, Phases, Supervisor, DispatchTask, SendRequest, SetTask,
        durable
<1>27. ASSUME NEW b \in Backend, NEW w \in Worker, ReceiveResponse(b, w) PROVE TypeOK'
  BY <1>27 DEF TypeOK, Generations, Statuses, Terminal, AttemptStates,
        WorkerStates, Phases, Supervisor, DispatchTask, ReceiveResponse,
        SetTask, durable
<1>28. ASSUME NEW b \in Backend, NEW w \in Worker, CommitWorker(b, w) PROVE TypeOK'
  <2>0. RunnerOf[w] \in Runner
    OBVIOUS
  <2>1. pc' \in [Backend -> [Runner -> Supervisor]]
    <3> DEFINE q == pc[b][RunnerOf[w]]
               p == IF q = "running" THEN "interrupted" ELSE q
    <3>1. p \in Supervisor
      BY <2>0 DEF TypeOK, Supervisor
    <3>2. SetPc(b, RunnerOf[w], p) \/ UNCHANGED pc
      BY <1>28 DEF CommitWorker
    <3> QED
      BY <2>0, <3>1, <3>2, PcType DEF TypeOK
  <2>2. faults' \in 0..MaxFaults
    BY <1>28, FaultType DEF CommitWorker, TypeOK, RetainResult
  <2>3. task' \in [Backend -> [Worker -> DispatchTask]]
    BY <1>28, TaskType DEF CommitWorker, RetainResult, TypeOK, DispatchTask
  <2>4. worker' \in [Worker -> [state : WorkerStates, generation : Generations]]
    BY <1>28 DEF CommitWorker, TypeOK, WorkerStates, WithState
  <2>5. completed' \subseteq Worker
    BY <1>28 DEF CommitWorker, TypeOK
  <2> QED
    BY <1>28, <2>1, <2>2, <2>3, <2>4, <2>5 DEF CommitWorker, TypeOK
<1>29. ASSUME NEW b \in Backend, NEW w \in Worker, CancelStep(b, w) PROVE TypeOK'
  <2>1. RunnerOf[w] \in Runner
    OBVIOUS
  <2>2. pc' \in [Backend -> [Runner -> Supervisor]]
    BY <1>29, <2>1, PcType DEF CancelStep, Raises, TypeOK, Supervisor
  <2>3. faults' \in 0..MaxFaults
    BY <1>29, FaultType DEF CancelStep, TypeOK
  <2>4. worker' \in [Worker -> [state : WorkerStates, generation : Generations]]
    BY <1>29 DEF CancelStep, Raises, TypeOK, WorkerStates, WithState
  <2> QED
    BY <1>29, <2>2, <2>3, <2>4 DEF CancelStep, Raises, TypeOK
<1> QED
  BY <1>1, <1>2, <1>3, <1>4, <1>5, <1>6, <1>7, <1>8, <1>9, <1>10, <1>11,
        <1>12, <1>13, <1>14, <1>15, <1>16, <1>17, <1>18, <1>19, <1>20, <1>21,
        <1>22, <1>23, <1>24, <1>25, <1>26, <1>27, <1>28, <1>29 DEF Next,
        SupervisorStep, TaskStep

\* Every reachable state of the lease, the rows, the supervisors and the
\* dispatch tasks is well typed, whatever the sizes of the instance.
THEOREM TypeCorrect == Spec => []TypeOK
<1>1. Init => TypeOK
  BY DEF TypeOK, Generations, Statuses, Terminal, AttemptStates, WorkerStates,
        Phases, Supervisor, DispatchTask, Init
<1> QED
  BY <1>1, TypeStep, PTL DEF Spec

-----------------------------------------------------------------------------
(* At most one send *)

ledger == <<worker, task, sends, completed>>

\* Nothing changes in the ledger.
LEMMA LedgerFrame == SendLedger /\ UNCHANGED ledger => SendLedger'
  BY DEF SendLedger, ledger

\* Finishing a Runner closes its books without touching tasks or sends.
LEMMA LedgerSettle ==
  ASSUME TypeOK, SendLedger, NEW r \in Runner,
         worker' = worker \/ worker' = SettledWorkers(r),
         UNCHANGED <<task, sends, completed>>
  PROVE  SendLedger'
<1>1. \A w \in Worker :
        \/ worker'[w].state = worker[w].state
        \/ worker[w].state = "submitted" /\ worker'[w].state = "indeterminate"
        \/ worker[w].state = "created" /\ worker'[w].state = "cancelled"
  BY DEF SettledWorkers, Settled, WithState
<1> QED
  BY <1>1 DEF SendLedger, CommittedStates

\* Every step keeps the books of the Workers consistent with their sends.
LEMMA LedgerStep == TypeOK /\ SendLedger /\ [Next]_vars => SendLedger'
<1> SUFFICES ASSUME TypeOK, SendLedger, [Next]_vars PROVE SendLedger'
  OBVIOUS
<1>1. CASE UNCHANGED vars
  BY <1>1, LedgerFrame DEF vars, durable, process, ledger
<1>2. CASE LeaseExpires
  BY <1>2, LedgerFrame DEF LeaseExpires, process, ledger
<1>3. ASSUME NEW r \in Runner, RequestCancel(r) PROVE SendLedger'
  BY <1>3, LedgerFrame DEF RequestCancel, process, ledger
<1>4. ASSUME NEW b \in Backend, AcquireRuntime(b) PROVE SendLedger'
  BY <1>4, LedgerFrame DEF AcquireRuntime, ledger
<1>5. ASSUME NEW b \in Backend, SnapshotStale(b) PROVE SendLedger'
  BY <1>5, LedgerFrame DEF SnapshotStale, durable, ledger
<1>6. ASSUME NEW b \in Backend, StartFails(b) PROVE SendLedger'
  BY <1>6, LedgerFrame DEF StartFails, ledger
<1>7. ASSUME NEW b \in Backend, StartServing(b) PROVE SendLedger'
  BY <1>7, LedgerFrame DEF StartServing, durable, ledger
<1>8. ASSUME NEW b \in Backend, StopScheduler(b) PROVE SendLedger'
  BY <1>8, LedgerFrame DEF StopScheduler, Interrupt, durable, ledger
<1>9. ASSUME NEW b \in Backend, MaintenanceFails(b) PROVE SendLedger'
  BY <1>9, LedgerFrame DEF MaintenanceFails, Interrupt, durable, ledger
<1>10. ASSUME NEW b \in Backend, ReleaseRuntime(b) PROVE SendLedger'
  BY <1>10, LedgerFrame DEF ReleaseRuntime, ledger
<1>11. ASSUME NEW b \in Backend, Crash(b) PROVE SendLedger'
  BY <1>11 DEF Crash, durable, SendLedger, TypeOK
<1>12. ASSUME NEW b \in Backend, NEW r \in Runner, RequeueStale(b, r) PROVE SendLedger'
  BY <1>12, LedgerSettle DEF RequeueStale, FinishRunner
<1>13. ASSUME NEW b \in Backend, NEW r \in Runner, StartSelected(b, r) PROVE SendLedger'
  BY <1>13, LedgerFrame DEF StartSelected, ledger
<1>14. ASSUME NEW b \in Backend, NEW r \in Runner, DiscardSelected(b, r) PROVE SendLedger'
  BY <1>14, LedgerFrame DEF DiscardSelected, process, ledger
<1>15. ASSUME NEW b \in Backend, NEW r \in Runner, ObserveCancellation(b, r) PROVE SendLedger'
  BY <1>15, LedgerFrame DEF ObserveCancellation, durable, ledger
<1>16. ASSUME NEW b \in Backend, NEW r \in Runner, PreparationFails(b, r) PROVE SendLedger'
  BY <1>16, LedgerFrame DEF PreparationFails, durable, ledger
<1>17. ASSUME NEW b \in Backend, NEW r \in Runner, CreateWorkers(b, r) PROVE SendLedger'
  <2>1. \A v \in Worker :
            \/ worker'[v].state = worker[v].state
            \/ worker[v].state = "absent" /\ worker'[v].state = "created"
    BY <1>17 DEF CreateWorkers, Raises
  <2>2. UNCHANGED <<task, sends, completed>>
    BY <1>17 DEF CreateWorkers, Raises
  <2> QED
    BY <2>1, <2>2 DEF SendLedger, CommittedStates
<1>18. ASSUME NEW b \in Backend, NEW r \in Runner, StopProgress(b, r) PROVE SendLedger'
  BY <1>18, LedgerFrame DEF StopProgress, durable, ledger
<1>19. ASSUME NEW b \in Backend, NEW r \in Runner, Summarize(b, r) PROVE SendLedger'
  BY <1>19, LedgerFrame DEF Summarize, durable, ledger
<1>20. ASSUME NEW b \in Backend, NEW r \in Runner, PersistResult(b, r) PROVE SendLedger'
  BY <1>20, LedgerSettle DEF PersistResult, CompleteRunner
<1>21. ASSUME NEW b \in Backend, NEW r \in Runner, PersistEnd(b, r) PROVE SendLedger'
  BY <1>21, LedgerSettle DEF PersistEnd, FinishRunner
<1>22. ASSUME NEW b \in Backend, NEW r \in Runner, CloseExecution(b, r) PROVE SendLedger'
  BY <1>22 DEF CloseExecution, durable, SendLedger, TypeOK
<1>23. ASSUME NEW b \in Backend, NEW w \in Worker, ReserveWorker(b, w) PROVE SendLedger'
  <2>1. CASE UNCHANGED ledger
    BY <2>1, LedgerFrame
  <2>2. CASE ~UNCHANGED ledger
    <3>1. /\ worker[w].state = "created"
          /\ worker' = [worker EXCEPT ![w] = WithState(@, "submitted")]
          /\ UNCHANGED <<sends, completed>>
          /\ SetTask(b, w, "queued") \/ UNCHANGED task
      BY <1>23, <2>2 DEF ReserveWorker, Reservable, Raises, ledger
    <3>2. /\ worker'[w].state = "submitted"
          /\ \A v \in Worker \ {w} : worker'[v] = worker[v]
      BY <3>1 DEF WithState, TypeOK
    <3>3. /\ task'[b][w] \in {"none", "queued"}
          /\ \A c \in Backend, v \in Worker :
                c # b \/ v # w => task'[c][v] = task[c][v]
      BY <3>1 DEF SetTask, TypeOK, SendLedger
    <3> QED
      BY <3>1, <3>2, <3>3 DEF SendLedger, CommittedStates
  <2> QED
    BY <2>1, <2>2
<1>24. ASSUME NEW b \in Backend, NEW w \in Worker, RouterRejects(b, w) PROVE SendLedger'
  BY <1>24 DEF RouterRejects, SetTask, durable, SendLedger, TypeOK
<1>25. ASSUME NEW b \in Backend, NEW w \in Worker, CancelTask(b, w) PROVE SendLedger'
  BY <1>25 DEF CancelTask, SetTask, durable, SendLedger, TypeOK
<1>26. ASSUME NEW b \in Backend, NEW w \in Worker, SendRequest(b, w) PROVE SendLedger'
  <2>1. /\ task[b][w] = "queued"
        /\ UNCHANGED <<worker, completed>>
        /\ task'[b][w] = "executing"
        /\ \A c \in Backend, v \in Worker :
                c # b \/ v # w => task'[c][v] = task[c][v]
    BY <1>26 DEF SendRequest, SetTask, durable, TypeOK
  <2>2. /\ sends[w] = 0
        /\ sends'[w] = 1
        /\ \A v \in Worker \ {w} : sends'[v] = sends[v]
    BY <1>26, <2>1 DEF SendRequest, SendLedger, TypeOK
  <2>3. worker[w].state \notin {"absent", "created", "cancelled"}
    BY <2>1 DEF SendLedger
  <2> QED
    BY <2>1, <2>2, <2>3 DEF SendLedger, CommittedStates
<1>27. ASSUME NEW b \in Backend, NEW w \in Worker, ReceiveResponse(b, w) PROVE SendLedger'
  BY <1>27 DEF ReceiveResponse, SetTask, durable, SendLedger, TypeOK
<1>28. ASSUME NEW b \in Backend, NEW w \in Worker, CommitWorker(b, w) PROVE SendLedger'
  <2>1. /\ UNCHANGED sends
        /\ task'[b][w] \in {"none", task[b][w]}
        /\ \A c \in Backend, v \in Worker :
                c # b \/ v # w => task'[c][v] = task[c][v]
    BY <1>28 DEF CommitWorker, RetainResult, SetTask, TypeOK
  <2>2. CASE UNCHANGED <<worker, completed>>
    BY <1>28, <2>1, <2>2 DEF SendLedger
  <2>3. CASE ~UNCHANGED <<worker, completed>>
    <3>1. /\ worker[w].state = "submitted"
          /\ worker'[w].state =
                IF task[b][w] = "ok" THEN "succeeded" ELSE "failed"
          /\ \A v \in Worker \ {w} : worker'[v] = worker[v]
          /\ completed' = completed \cup {w}
      BY <1>28, <2>3 DEF CommitWorker, WithState, TypeOK
    <3> QED
      BY <1>28, <2>1, <3>1 DEF SendLedger, CommittedStates
  <2> QED
    BY <2>2, <2>3
<1>29. ASSUME NEW b \in Backend, NEW w \in Worker, CancelStep(b, w) PROVE SendLedger'
  <2>1. /\ UNCHANGED worker \/ (worker[w].state = "created" /\ worker' =
                                [worker EXCEPT ![w] = WithState(@, "cancelled")])
        /\ UNCHANGED <<task, sends, completed>>
    BY <1>29 DEF CancelStep, Raises
  <2>2. \A v \in Worker :
            \/ worker'[v] = worker[v]
            \/ worker[v].state = "created" /\ worker'[v].state = "cancelled"
    BY <2>1 DEF WithState, TypeOK
  <2> QED
    BY <2>1, <2>2 DEF SendLedger, CommittedStates
<1> QED
  BY <1>1, <1>2, <1>3, <1>4, <1>5, <1>6, <1>7, <1>8, <1>9, <1>10, <1>11,
        <1>12, <1>13, <1>14, <1>15, <1>16, <1>17, <1>18, <1>19, <1>20, <1>21,
        <1>22, <1>23, <1>24, <1>25, <1>26, <1>27, <1>28, <1>29 DEF Next,
        SupervisorStep, TaskStep

\* For every number of Backends, crashes, takeovers and lost replies: the books
\* and the sends agree in every reachable state.
THEOREM LedgerInvariant == Spec => []SendLedger
<1>1. Init => SendLedger
  BY DEF Init, SendLedger, CommittedStates
<1> QED
  BY <1>1, TypeCorrect, LedgerStep, PTL DEF Spec

\* No Worker's Provider request is ever sent twice.
THEOREM SentAtMostOnce == Spec => []AtMostOneSend
<1>1. SendLedger => AtMostOneSend
  BY DEF SendLedger, AtMostOneSend
<1> QED
  BY <1>1, LedgerInvariant, PTL

\* No request that was sent is ever booked as unsent.
THEOREM SendsAccounted == Spec => []SentIsAccounted
<1>1. SendLedger => SentIsAccounted
  BY DEF SendLedger, SentIsAccounted
<1> QED
  BY <1>1, LedgerInvariant, PTL

\* Every Worker recorded as succeeded was sent and has its message.
THEOREM SuccessesWereSent == Spec => []SuccessWasSent
<1>1. SendLedger => SuccessWasSent
  BY DEF SendLedger, SuccessWasSent, CommittedStates
<1> QED
  BY <1>1, LedgerInvariant, PTL

-----------------------------------------------------------------------------
(* Fencing: recovery leaves nothing of an earlier lease running *)

\* No row starts running; a row that goes on running keeps its attempt.
RowsShrink ==
    \A r \in Runner : status'[r] = "running" =>
        status[r] = "running" /\ attempt'[r] = attempt[r]

\* No process enters or leaves service, or goes back to recovery.
PhasesKept ==
    \A b \in Backend :
        /\ phase'[b] \in Started <=> phase[b] \in Started
        /\ phase'[b] = "recovering" =>
                phase[b] = "recovering" /\ stale'[b] = stale[b]

\* No supervisor appears, no dispatch task is left without one.
SupervisorsKept ==
    \A b \in Backend :
        /\ \A r \in Runner : pc'[b][r] # "idle" => pc[b][r] # "idle"
        /\ \A w \in Worker :
                task'[b][w] # "none" => pc'[b][RunnerOf[w]] # "idle"

\* What most steps preserve is enough for Fencing.
LEMMA FencingFrame ==
  ASSUME TypeOK, TypeOK', Fencing, RowsShrink, PhasesKept, SupervisorsKept,
         UNCHANGED <<lease, generation>>
  PROVE  Fencing'
<1>1. \A b \in Backend : Owns(b)' <=> Owns(b)
  BY DEF Owns
<1>2. \A b \in Backend : /\ phase[b] \in Started \cup {"acquired", "recovering", "down"}
                        /\ phase'[b] \in Started \cup {"acquired", "recovering", "down"}
  BY DEF TypeOK, Phases, Started
<1>3. NoForeignExecution'
  BY <1>1, <1>2 DEF Fencing, NoForeignExecution, RowsShrink, PhasesKept, Started
<1>4. \A b \in Backend, r \in Runner : pc'[b][r] # "idle" => phase'[b] \in Started
  BY DEF Fencing, PhasesKept, SupervisorsKept
<1>5. \A b \in Backend, w \in Worker :
            task'[b][w] # "none" => pc'[b][RunnerOf[w]] # "idle"
  BY DEF SupervisorsKept
<1>6. \A r \in Runner : status'[r] = "running" => attempt'[r].state = "executing"
  BY DEF Fencing, RowsShrink
<1>7. \A b \in Backend, r \in Runner :
            Owns(b)' /\ phase'[b] = "recovering" /\ status'[r] = "running"
            => r \in stale'[b]
  BY <1>1 DEF Fencing, RowsShrink, PhasesKept
<1> QED
  BY <1>3, <1>4, <1>5, <1>6, <1>7 DEF Fencing

\* finish_runner stops a Runner and touches no other.
LEMMA FinishShrinks ==
  ASSUME TypeOK, NEW r \in Runner, NEW f \in Terminal, NEW a,
         FinishRunner(r, f, a)
  PROVE  RowsShrink /\ status'[r] # "running"
  BY DEF TypeOK, FinishRunner, RowsShrink, Terminal

\* So does complete_runner.
LEMMA CompleteShrinks ==
  ASSUME TypeOK, NEW b, NEW r \in Runner, NEW f \in Terminal,
         CompleteRunner(b, r, f)
  PROVE  RowsShrink
  BY DEF TypeOK, CompleteRunner, RowsShrink, Terminal

\* Moving the supervisor of a Runner that has one, within its life.
LEMMA PcKept ==
  ASSUME TypeOK, Fencing, NEW b \in Backend, NEW r \in Runner, NEW p,
         p # "idle", pc[b][r] # "idle", SetPc(b, r, p), UNCHANGED task
  PROVE  SupervisorsKept
  BY DEF TypeOK, Fencing, SetPc, SupervisorsKept

\* Every step keeps Fencing.
LEMMA FencingStep == TypeOK /\ TypeOK' /\ Fencing /\ [Next]_vars => Fencing'
<1> SUFFICES ASSUME TypeOK, TypeOK', Fencing, [Next]_vars PROVE Fencing'
  OBVIOUS
<1>1. CASE UNCHANGED vars
  BY <1>1 DEF vars, durable, process, Fencing, NoForeignExecution, Owns
<1>2. CASE LeaseExpires
  BY <1>2 DEF LeaseExpires, process, Fencing, NoForeignExecution, Owns, TypeOK
<1>3. ASSUME NEW r \in Runner, RequestCancel(r) PROVE Fencing'
  <2>1. RowsShrink /\ PhasesKept /\ SupervisorsKept
    BY <1>3 DEF RequestCancel, process, RowsShrink, PhasesKept, SupervisorsKept,
                TypeOK, Fencing
  <2> QED
    BY <1>3, <2>1, FencingFrame DEF RequestCancel, process
<1>4. ASSUME NEW b \in Backend, AcquireRuntime(b) PROVE Fencing'
  <2>1. \A c \in Backend : Owns(c)' => c = b
    BY <1>4 DEF AcquireRuntime, Owns
  <2>2. phase'[b] = "acquired" /\ \A c \in Backend \ {b} : phase'[c] = phase[c]
    BY <1>4 DEF AcquireRuntime, TypeOK
  <2>3. \A r \in Runner : pc[b][r] = "idle"
    BY <1>4 DEF AcquireRuntime, Fencing, Started
  <2> QED
    BY <1>4, <2>1, <2>2, <2>3 DEF AcquireRuntime, Fencing, NoForeignExecution
<1>5. ASSUME NEW b \in Backend, SnapshotStale(b) PROVE Fencing'
  BY <1>5 DEF SnapshotStale, durable, Fencing, NoForeignExecution, Owns, Started, TypeOK
<1>6. ASSUME NEW b \in Backend, StartFails(b) PROVE Fencing'
  <2>1. \A c \in Backend : Owns(c)' => Owns(c) /\ lease' = lease
    BY <1>6 DEF StartFails, ReleaseLease, Owns, TypeOK
  <2>2. phase'[b] = "down" /\ \A c \in Backend \ {b} :
            phase'[c] = phase[c] /\ stale'[c] = stale[c]
    BY <1>6 DEF StartFails, TypeOK
  <2>3. \A r \in Runner : pc[b][r] = "idle"
    BY <1>6 DEF StartFails, Fencing, Started
  <2> QED
    BY <1>6, <2>1, <2>2, <2>3 DEF StartFails, Fencing, NoForeignExecution
<1>7. ASSUME NEW b \in Backend, StartServing(b) PROVE Fencing'
  BY <1>7 DEF StartServing, durable, Fencing, NoForeignExecution, Owns, Started, TypeOK
<1>8. ASSUME NEW b \in Backend, StopScheduler(b) PROVE Fencing'
  <2>1. PhasesKept
    BY <1>8 DEF StopScheduler, Interrupt, PhasesKept, Started, TypeOK
  <2>2. RowsShrink
    BY <1>8 DEF StopScheduler, Interrupt, durable, RowsShrink
  <2>3. SupervisorsKept
    BY <1>8 DEF StopScheduler, Interrupt, InterruptedAt, SupervisorsKept, Fencing, TypeOK
  <2> QED
    BY <1>8, <2>1, <2>2, <2>3, FencingFrame DEF StopScheduler, Interrupt, durable
<1>9. ASSUME NEW b \in Backend, MaintenanceFails(b) PROVE Fencing'
  <2>1. PhasesKept
    BY <1>9 DEF MaintenanceFails, Interrupt, PhasesKept, Started, TypeOK
  <2>2. RowsShrink
    BY <1>9 DEF MaintenanceFails, Interrupt, durable, RowsShrink
  <2>3. SupervisorsKept
    BY <1>9 DEF MaintenanceFails, Interrupt, InterruptedAt, SupervisorsKept, Fencing, TypeOK
  <2> QED
    BY <1>9, <2>1, <2>2, <2>3, FencingFrame DEF MaintenanceFails, Interrupt, durable
<1>10. ASSUME NEW b \in Backend, ReleaseRuntime(b) PROVE Fencing'
  <2>1. \A c \in Backend : Owns(c)' => Owns(c) /\ lease' = lease
    BY <1>10 DEF ReleaseRuntime, ReleaseLease, Owns, TypeOK
  <2>2. phase'[b] = "down" /\ \A c \in Backend \ {b} : phase'[c] = phase[c]
    BY <1>10 DEF ReleaseRuntime, TypeOK
  <2> QED
    BY <1>10, <2>1, <2>2 DEF ReleaseRuntime, Fencing, NoForeignExecution
<1>11. ASSUME NEW b \in Backend, Crash(b) PROVE Fencing'
  <2>1. /\ phase'[b] = "down"
        /\ \A r \in Runner : pc'[b][r] = "idle"
        /\ \A w \in Worker : task'[b][w] = "none"
        /\ \A c \in Backend \ {b} : /\ phase'[c] = phase[c]
                                   /\ stale'[c] = stale[c]
                                   /\ pc'[c] = pc[c]
                                   /\ task'[c] = task[c]
    BY <1>11 DEF Crash, TypeOK
  <2> QED
    BY <1>11, <2>1 DEF Crash, durable, Fencing, NoForeignExecution, Owns
<1>12. ASSUME NEW b \in Backend, NEW r \in Runner, RequeueStale(b, r) PROVE Fencing'
  <2>1. RowsShrink /\ status'[r] # "running"
    BY <1>12, FinishShrinks DEF RequeueStale, Terminal
  <2>2. \A c \in Backend : stale'[c] = IF c = b THEN stale[c] \ {r} ELSE stale[c]
    BY <1>12 DEF RequeueStale, TypeOK
  <2> QED
    BY <1>12, <2>1, <2>2 DEF RequeueStale, RowsShrink, Fencing, NoForeignExecution, Owns
<1>13. ASSUME NEW b \in Backend, NEW r \in Runner, StartSelected(b, r) PROVE Fencing'
  <2>1. /\ status'[r] = "running"
        /\ attempt'[r] = [state |-> "executing", generation |-> lease.generation]
        /\ \A q \in Runner \ {r} : status'[q] = status[q] /\ attempt'[q] = attempt[q]
    BY <1>13 DEF StartSelected, Owns, TypeOK
  <2>2. \A c \in Backend, q \in Runner : pc'[c][q] # pc[c][q] => c = b /\ q = r
    BY <1>13 DEF StartSelected, SetPc, TypeOK
  <2>3. \A w \in Worker : task[b][w] # "none" => pc'[b][RunnerOf[w]] # "idle"
    BY <1>13, <2>2 DEF StartSelected, Fencing
  <2> QED
    BY <1>13, <2>1, <2>2, <2>3 DEF StartSelected, Fencing, NoForeignExecution, Owns, Started
<1>14. ASSUME NEW b \in Backend, NEW r \in Runner, DiscardSelected(b, r) PROVE Fencing'
  <2>1. RowsShrink /\ PhasesKept /\ SupervisorsKept
    BY <1>14 DEF DiscardSelected, process, RowsShrink, PhasesKept,
                SupervisorsKept, TypeOK, Fencing
  <2> QED
    BY <1>14, <2>1, FencingFrame DEF DiscardSelected, process
<1>15. ASSUME NEW b \in Backend, NEW r \in Runner, ObserveCancellation(b, r) PROVE Fencing'
  <2>1. RowsShrink /\ PhasesKept
    BY <1>15 DEF ObserveCancellation, durable, RowsShrink, PhasesKept
  <2>2. SupervisorsKept
    BY <1>15, PcKept DEF ObserveCancellation
  <2> QED
    BY <1>15, <2>1, <2>2, FencingFrame DEF ObserveCancellation, durable
<1>16. ASSUME NEW b \in Backend, NEW r \in Runner, PreparationFails(b, r) PROVE Fencing'
  <2>1. RowsShrink /\ PhasesKept
    BY <1>16 DEF PreparationFails, durable, RowsShrink, PhasesKept
  <2>2. SupervisorsKept
    BY <1>16, PcKept DEF PreparationFails
  <2> QED
    BY <1>16, <2>1, <2>2, FencingFrame DEF PreparationFails, durable
<1>17. ASSUME NEW b \in Backend, NEW r \in Runner, CreateWorkers(b, r) PROVE Fencing'
  <2>1. RowsShrink /\ PhasesKept
    BY <1>17 DEF CreateWorkers, durable, RowsShrink, PhasesKept, Raises
  <2>2. SupervisorsKept
    BY <1>17, PcKept DEF CreateWorkers, Raises
  <2> QED
    BY <1>17, <2>1, <2>2, FencingFrame DEF CreateWorkers, durable, Raises
<1>18. ASSUME NEW b \in Backend, NEW r \in Runner, StopProgress(b, r) PROVE Fencing'
  <2>1. RowsShrink /\ PhasesKept
    BY <1>18 DEF StopProgress, durable, RowsShrink, PhasesKept
  <2>2. SupervisorsKept
    BY <1>18, PcKept DEF StopProgress
  <2> QED
    BY <1>18, <2>1, <2>2, FencingFrame DEF StopProgress, durable
<1>19. ASSUME NEW b \in Backend, NEW r \in Runner, Summarize(b, r) PROVE Fencing'
  <2>1. RowsShrink /\ PhasesKept
    BY <1>19 DEF Summarize, durable, RowsShrink, PhasesKept
  <2>2. SupervisorsKept
    BY <1>19, PcKept DEF Summarize
  <2> QED
    BY <1>19, <2>1, <2>2, FencingFrame DEF Summarize, durable
<1>20. ASSUME NEW b \in Backend, NEW r \in Runner, PersistResult(b, r) PROVE Fencing'
  <2>1. RowsShrink
    <3>1. CASE Owns(b)
      BY <1>20, <3>1, CompleteShrinks DEF PersistResult, Terminal
    <3>2. CASE ~Owns(b)
      BY <1>20, <3>2 DEF PersistResult, RowsShrink
    <3> QED
      BY <3>1, <3>2
  <2>2. SupervisorsKept
    <3>1. CASE UNCHANGED pc
      BY <1>20, <3>1 DEF PersistResult, SupervisorsKept, Fencing
    <3>2. CASE ~UNCHANGED pc
      BY <1>20, <3>2, PcKept DEF PersistResult, AbandonResult
    <3> QED
      BY <3>1, <3>2
  <2> QED
    BY <1>20, <2>1, <2>2, FencingFrame DEF PersistResult, PhasesKept
<1>21. ASSUME NEW b \in Backend, NEW r \in Runner, PersistEnd(b, r) PROVE Fencing'
  <2>1. RowsShrink
    <3>1. CASE UNCHANGED <<status, worker, attempt>>
      BY <3>1 DEF RowsShrink
    <3>2. CASE ~UNCHANGED <<status, worker, attempt>>
      BY <1>21, <3>2, FinishShrinks DEF PersistEnd, FinalStatus, Terminal
    <3> QED
      BY <3>1, <3>2
  <2>2. SupervisorsKept
    BY <1>21, PcKept DEF PersistEnd
  <2> QED
    BY <1>21, <2>1, <2>2, FencingFrame DEF PersistEnd, PhasesKept
<1>22. ASSUME NEW b \in Backend, NEW r \in Runner, CloseExecution(b, r) PROVE Fencing'
  <2>1. RowsShrink /\ PhasesKept
    BY <1>22 DEF CloseExecution, durable, RowsShrink, PhasesKept
  <2>2. /\ \A c \in Backend, q \in Runner :
                pc'[c][q] = IF c = b /\ q = r THEN "idle" ELSE pc[c][q]
        /\ \A c \in Backend, w \in Worker :
                task'[c][w] = IF c = b /\ RunnerOf[w] = r THEN "none" ELSE task[c][w]
    BY <1>22 DEF CloseExecution, SetPc, TypeOK
  <2>3. SupervisorsKept
    BY <2>2 DEF SupervisorsKept, Fencing
  <2> QED
    BY <1>22, <2>1, <2>3, FencingFrame DEF CloseExecution, durable
<1>23. ASSUME NEW b \in Backend, NEW w \in Worker, ReserveWorker(b, w) PROVE Fencing'
  <2>1. RowsShrink /\ PhasesKept
    BY <1>23 DEF ReserveWorker, RowsShrink, PhasesKept
  <2>2. SupervisorsKept
    <3>1. CASE UNCHANGED task
      <4>1. SetPc(b, RunnerOf[w], "failing")
        BY <1>23, <3>1 DEF ReserveWorker, Raises, SetTask, TypeOK
      <4> QED
        BY <1>23, <3>1, <4>1, PcKept DEF ReserveWorker
    <3>2. CASE ~UNCHANGED task
      <4>1. SetTask(b, w, "queued") /\ UNCHANGED pc /\ pc[b][RunnerOf[w]] # "idle"
        BY <1>23, <3>2 DEF ReserveWorker, Raises
      <4>2. \A c \in Backend, v \in Worker :
                c # b \/ v # w => task'[c][v] = task[c][v]
        BY <4>1 DEF SetTask, TypeOK
      <4> QED
        BY <4>1, <4>2 DEF SupervisorsKept, Fencing
    <3> QED
      BY <3>1, <3>2
  <2> QED
    BY <1>23, <2>1, <2>2, FencingFrame DEF ReserveWorker
<1>24. ASSUME NEW b \in Backend, NEW w \in Worker, RouterRejects(b, w) PROVE Fencing'
  <2>1. RowsShrink /\ PhasesKept
    BY <1>24 DEF RouterRejects, durable, RowsShrink, PhasesKept
  <2>2. SupervisorsKept
    BY <1>24 DEF RouterRejects, SetTask, SupervisorsKept, Fencing, TypeOK
  <2> QED
    BY <1>24, <2>1, <2>2, FencingFrame DEF RouterRejects, durable
<1>25. ASSUME NEW b \in Backend, NEW w \in Worker, CancelTask(b, w) PROVE Fencing'
  <2>1. RowsShrink /\ PhasesKept
    BY <1>25 DEF CancelTask, durable, RowsShrink, PhasesKept
  <2>2. SupervisorsKept
    BY <1>25 DEF CancelTask, SetTask, SupervisorsKept, Fencing, TypeOK
  <2> QED
    BY <1>25, <2>1, <2>2, FencingFrame DEF CancelTask, durable
<1>26. ASSUME NEW b \in Backend, NEW w \in Worker, SendRequest(b, w) PROVE Fencing'
  <2>1. RowsShrink /\ PhasesKept
    BY <1>26 DEF SendRequest, durable, RowsShrink, PhasesKept
  <2>2. SupervisorsKept
    BY <1>26 DEF SendRequest, SetTask, SupervisorsKept, Fencing, TypeOK
  <2> QED
    BY <1>26, <2>1, <2>2, FencingFrame DEF SendRequest, durable
<1>27. ASSUME NEW b \in Backend, NEW w \in Worker, ReceiveResponse(b, w) PROVE Fencing'
  <2>1. RowsShrink /\ PhasesKept
    BY <1>27 DEF ReceiveResponse, durable, RowsShrink, PhasesKept
  <2>2. SupervisorsKept
    BY <1>27 DEF ReceiveResponse, SetTask, SupervisorsKept, Fencing, TypeOK
  <2> QED
    BY <1>27, <2>1, <2>2, FencingFrame DEF ReceiveResponse, durable
<1>28. ASSUME NEW b \in Backend, NEW w \in Worker, CommitWorker(b, w) PROVE Fencing'
  <2>1. RowsShrink /\ PhasesKept
    BY <1>28 DEF CommitWorker, RowsShrink, PhasesKept
  <2>2. \A c \in Backend, v \in Worker : task'[c][v] # "none" => task[c][v] # "none"
    <3>1. SetTask(b, w, "none") \/ UNCHANGED task
      BY <1>28 DEF CommitWorker, RetainResult
    <3>2. CASE SetTask(b, w, "none")
      <4>1. \A c \in Backend, v \in Worker :
                task'[c][v] = IF c = b /\ v = w THEN "none" ELSE task[c][v]
        BY <3>2 DEF SetTask, TypeOK
      <4> QED
        BY <4>1
    <3> QED
      BY <3>1, <3>2
  <2>3. \A c \in Backend, q \in Runner : (pc'[c][q] = "idle") <=> (pc[c][q] = "idle")
    <3> DEFINE r == RunnerOf[w]
               p == IF pc[b][r] = "running" THEN "interrupted" ELSE pc[b][r]
    <3>1. r \in Runner /\ ((p = "idle") <=> (pc[b][r] = "idle"))
      OBVIOUS
    <3>2. SetPc(b, r, p) \/ UNCHANGED pc
      BY <1>28 DEF CommitWorker
    <3> HIDE DEF r, p
    <3> QED
      BY <3>1, <3>2 DEF SetPc, TypeOK
  <2>4. SupervisorsKept
    BY <2>2, <2>3 DEF SupervisorsKept, Fencing
  <2> QED
    BY <1>28, <2>1, <2>4, FencingFrame DEF CommitWorker
<1>29. ASSUME NEW b \in Backend, NEW w \in Worker, CancelStep(b, w) PROVE Fencing'
  <2>1. RowsShrink /\ PhasesKept
    BY <1>29 DEF CancelStep, RowsShrink, PhasesKept
  <2>2. SupervisorsKept
    <3>1. CASE UNCHANGED pc
      BY <1>29, <3>1 DEF CancelStep, Raises, SupervisorsKept, Fencing
    <3>2. CASE ~UNCHANGED pc
      BY <1>29, <3>2, PcKept DEF CancelStep, Raises
    <3> QED
      BY <3>1, <3>2
  <2> QED
    BY <1>29, <2>1, <2>2, FencingFrame DEF CancelStep
<1> QED
  BY <1>1, <1>2, <1>3, <1>4, <1>5, <1>6, <1>7, <1>8, <1>9, <1>10, <1>11,
        <1>12, <1>13, <1>14, <1>15, <1>16, <1>17, <1>18, <1>19, <1>20, <1>21,
        <1>22, <1>23, <1>24, <1>25, <1>26, <1>27, <1>28, <1>29 DEF Next,
        SupervisorStep, TaskStep

\* Supervisors and dispatch tasks exist only in started processes, and what
\* runs belongs to the live lease or is still to be recovered.
THEOREM FencingInvariant == Spec => []Fencing
<1>1. Init => Fencing
  BY DEF Init, Fencing, NoForeignExecution, Owns
<1> QED
  BY <1>1, TypeCorrect, FencingStep, PTL DEF Spec

\* Recovery leaves nothing of an earlier lease running.
THEOREM RecoveryIsComplete == Spec => []NoForeignExecution
<1>1. Fencing => NoForeignExecution
  BY DEF Fencing
<1> QED
  BY <1>1, FencingInvariant, PTL

-----------------------------------------------------------------------------
(* Committed outputs are final *)

\* A committed Worker row and its message stay as they are.
OutputsKept ==
    \A w \in Worker : worker[w].state \in CommittedStates =>
        worker'[w] = worker[w] /\ w \in completed'

\* The rows and messages do not change.
LEMMA OutputsFrame ==
  SendLedger /\ UNCHANGED <<worker, completed>> => OutputsKept
  BY DEF SendLedger, OutputsKept

\* Finishing a Runner does not touch committed rows.
LEMMA OutputsSettle ==
  ASSUME TypeOK, SendLedger, NEW r \in Runner, UNCHANGED completed,
         worker' = worker \/ worker' = SettledWorkers(r)
  PROVE  OutputsKept
<1>1. \A w \in Worker : worker[w].state \in CommittedStates =>
            WithState(worker[w], Settled(worker[w].state)) = worker[w]
  BY DEF Settled, WithState, CommittedStates, TypeOK
<1> QED
  BY <1>1 DEF SettledWorkers, SendLedger, OutputsKept

\* No step changes a committed output.
LEMMA OutputsStep == TypeOK /\ SendLedger /\ [Next]_vars => OutputsKept
<1> SUFFICES ASSUME TypeOK, SendLedger, [Next]_vars PROVE OutputsKept
  OBVIOUS
<1>1. CASE UNCHANGED vars
  BY <1>1, OutputsFrame DEF vars, durable, process
<1>2. CASE LeaseExpires
  BY <1>2, OutputsFrame DEF LeaseExpires, process
<1>3. ASSUME NEW r \in Runner, RequestCancel(r) PROVE OutputsKept
  BY <1>3, OutputsFrame DEF RequestCancel
<1>4. ASSUME NEW b \in Backend, AcquireRuntime(b) PROVE OutputsKept
  BY <1>4, OutputsFrame DEF AcquireRuntime
<1>5. ASSUME NEW b \in Backend, SnapshotStale(b) PROVE OutputsKept
  BY <1>5, OutputsFrame DEF SnapshotStale, durable
<1>6. ASSUME NEW b \in Backend, StartFails(b) PROVE OutputsKept
  BY <1>6, OutputsFrame DEF StartFails
<1>7. ASSUME NEW b \in Backend, StartServing(b) PROVE OutputsKept
  BY <1>7, OutputsFrame DEF StartServing, durable
<1>8. ASSUME NEW b \in Backend, StopScheduler(b) PROVE OutputsKept
  BY <1>8, OutputsFrame DEF StopScheduler, Interrupt, durable
<1>9. ASSUME NEW b \in Backend, MaintenanceFails(b) PROVE OutputsKept
  BY <1>9, OutputsFrame DEF MaintenanceFails, Interrupt, durable
<1>10. ASSUME NEW b \in Backend, ReleaseRuntime(b) PROVE OutputsKept
  BY <1>10, OutputsFrame DEF ReleaseRuntime
<1>11. ASSUME NEW b \in Backend, Crash(b) PROVE OutputsKept
  BY <1>11, OutputsFrame DEF Crash, durable
<1>12. ASSUME NEW b \in Backend, NEW r \in Runner, RequeueStale(b, r) PROVE OutputsKept
  BY <1>12, OutputsSettle DEF RequeueStale, FinishRunner
<1>13. ASSUME NEW b \in Backend, NEW r \in Runner, StartSelected(b, r) PROVE OutputsKept
  BY <1>13, OutputsFrame DEF StartSelected
<1>14. ASSUME NEW b \in Backend, NEW r \in Runner, DiscardSelected(b, r) PROVE OutputsKept
  BY <1>14, OutputsFrame DEF DiscardSelected
<1>15. ASSUME NEW b \in Backend, NEW r \in Runner, ObserveCancellation(b, r) PROVE OutputsKept
  BY <1>15, OutputsFrame DEF ObserveCancellation, durable
<1>16. ASSUME NEW b \in Backend, NEW r \in Runner, PreparationFails(b, r) PROVE OutputsKept
  BY <1>16, OutputsFrame DEF PreparationFails, durable
<1>17. ASSUME NEW b \in Backend, NEW r \in Runner, CreateWorkers(b, r) PROVE OutputsKept
  BY <1>17 DEF CreateWorkers, Raises, OutputsKept, SendLedger, CommittedStates
<1>18. ASSUME NEW b \in Backend, NEW r \in Runner, StopProgress(b, r) PROVE OutputsKept
  BY <1>18, OutputsFrame DEF StopProgress, durable
<1>19. ASSUME NEW b \in Backend, NEW r \in Runner, Summarize(b, r) PROVE OutputsKept
  BY <1>19, OutputsFrame DEF Summarize, durable
<1>20. ASSUME NEW b \in Backend, NEW r \in Runner, PersistResult(b, r) PROVE OutputsKept
  BY <1>20, OutputsSettle DEF PersistResult, CompleteRunner
<1>21. ASSUME NEW b \in Backend, NEW r \in Runner, PersistEnd(b, r) PROVE OutputsKept
  BY <1>21, OutputsSettle DEF PersistEnd, FinishRunner
<1>22. ASSUME NEW b \in Backend, NEW r \in Runner, CloseExecution(b, r) PROVE OutputsKept
  BY <1>22, OutputsFrame DEF CloseExecution, durable
<1>23. ASSUME NEW b \in Backend, NEW w \in Worker, ReserveWorker(b, w) PROVE OutputsKept
  <2>1. CASE UNCHANGED worker
    BY <1>23, <2>1, OutputsFrame DEF ReserveWorker
  <2>2. CASE ~UNCHANGED worker
    BY <1>23, <2>2 DEF ReserveWorker, Reservable, Raises, OutputsKept, SendLedger,
                   CommittedStates, TypeOK
  <2> QED
    BY <2>1, <2>2
<1>24. ASSUME NEW b \in Backend, NEW w \in Worker, RouterRejects(b, w) PROVE OutputsKept
  BY <1>24, OutputsFrame DEF RouterRejects, durable
<1>25. ASSUME NEW b \in Backend, NEW w \in Worker, CancelTask(b, w) PROVE OutputsKept
  BY <1>25, OutputsFrame DEF CancelTask, durable
<1>26. ASSUME NEW b \in Backend, NEW w \in Worker, SendRequest(b, w) PROVE OutputsKept
  BY <1>26, OutputsFrame DEF SendRequest, durable
<1>27. ASSUME NEW b \in Backend, NEW w \in Worker, ReceiveResponse(b, w) PROVE OutputsKept
  BY <1>27, OutputsFrame DEF ReceiveResponse, durable
<1>28. ASSUME NEW b \in Backend, NEW w \in Worker, CommitWorker(b, w) PROVE OutputsKept
  <2>1. CASE UNCHANGED <<worker, completed>>
    BY <2>1, OutputsFrame
  <2>2. CASE ~UNCHANGED <<worker, completed>>
    <3>1. /\ worker[w].state = "submitted"
          /\ \A v \in Worker \ {w} : worker'[v] = worker[v]
          /\ completed' = completed \cup {w}
      BY <1>28, <2>2 DEF CommitWorker, TypeOK
    <3> QED
      BY <3>1 DEF OutputsKept, SendLedger, CommittedStates
  <2> QED
    BY <2>1, <2>2
<1>29. ASSUME NEW b \in Backend, NEW w \in Worker, CancelStep(b, w) PROVE OutputsKept
  <2>1. /\ UNCHANGED worker \/ (worker[w].state = "created" /\ worker' =
                                [worker EXCEPT ![w] = WithState(@, "cancelled")])
        /\ UNCHANGED <<task, sends, completed>>
    BY <1>29 DEF CancelStep, Raises
  <2>2. \A v \in Worker :
            \/ worker'[v] = worker[v]
            \/ worker[v].state = "created" /\ worker'[v].state = "cancelled"
    BY <2>1 DEF WithState, TypeOK
  <2> QED
    BY <2>1, <2>2 DEF OutputsKept, SendLedger, CommittedStates
<1> QED
  BY <1>1, <1>2, <1>3, <1>4, <1>5, <1>6, <1>7, <1>8, <1>9, <1>10, <1>11,
        <1>12, <1>13, <1>14, <1>15, <1>16, <1>17, <1>18, <1>19, <1>20, <1>21,
        <1>22, <1>23, <1>24, <1>25, <1>26, <1>27, <1>28, <1>29 DEF Next,
        SupervisorStep, TaskStep

-----------------------------------------------------------------------------
(* Terminal Runners are settled *)

\* What Settlement is about does not change.
LEMMA SettlementFrame ==
  Settlement /\ UNCHANGED <<status, attempt, worker>> => Settlement'
  BY DEF Settlement, TerminalSettled, WorkersOf

\* A queued Runner that is cancelled has nothing to settle.
LEMMA SettlementQueued ==
  ASSUME TypeOK, Settlement, NEW r \in Runner,
         status' = status \/ (status[r] = "queued"
                              /\ status' = [status EXCEPT ![r] = "cancelled"]),
         UNCHANGED <<attempt, worker>>
  PROVE  Settlement'
  BY DEF Settlement, TerminalSettled, WorkersOf, TypeOK, Terminal

\* Settling leaves no Worker of the Runner open, and no other Worker changed.
LEMMA SettledStates ==
  ASSUME TypeOK, NEW r \in Runner, worker' = SettledWorkers(r)
  PROVE  \A w \in Worker :
            /\ RunnerOf[w] = r => worker'[w].state \notin {"created", "submitted"}
            /\ RunnerOf[w] # r => worker'[w] = worker[w]
  BY DEF SettledWorkers, Settled, WithState

\* A Runner that was running is finished: its attempt and Workers are closed.
LEMMA SettlementFinish ==
  ASSUME TypeOK, Settlement, NEW r \in Runner, NEW f \in Terminal, NEW row,
         status' = [status EXCEPT ![r] = f],
         attempt' = [attempt EXCEPT ![r] = row],
         row.state # "executing",
         worker' = SettledWorkers(r)
  PROVE  Settlement'
<1>1. /\ status'[r] = f
      /\ attempt'[r].state # "executing"
      /\ \A q \in Runner \ {r} : status'[q] = status[q] /\ attempt'[q] = attempt[q]
  BY DEF TypeOK
<1> QED
  BY <1>1, SettledStates DEF Settlement, TerminalSettled, WorkersOf, Terminal

\* finish_runner settles.
LEMMA SettlementFinishRunner ==
  ASSUME TypeOK, Settlement, NEW r \in Runner, NEW f \in Terminal,
         NEW a \in Terminal \cup {"indeterminate"}, FinishRunner(r, f, a)
  PROVE  Settlement'
<1>1. CASE status[r] = "running"
  <2> DEFINE row == IF attempt[r].state = "absent" THEN attempt[r]
                    ELSE WithState(attempt[r], a)
  <2>1. row.state # "executing"
    BY DEF WithState, Terminal
  <2>2. attempt' = [attempt EXCEPT ![r] = row]
    BY <1>1 DEF FinishRunner
  <2> HIDE DEF row
  <2>3. status' = [status EXCEPT ![r] = f] /\ worker' = SettledWorkers(r)
    BY <1>1 DEF FinishRunner
  <2> QED
    BY <2>1, <2>2, <2>3, SettlementFinish
<1>2. CASE status[r] # "running"
  BY <1>2, SettlementFrame DEF FinishRunner
<1> QED
  BY <1>1, <1>2

\* Every step keeps Settlement.
LEMMA SettlementStep ==
  TypeOK /\ Fencing /\ Settlement /\ [Next]_vars => Settlement'
<1> SUFFICES ASSUME TypeOK, Fencing, Settlement, [Next]_vars PROVE Settlement'
  OBVIOUS
<1>1. CASE UNCHANGED vars
  BY <1>1, SettlementFrame DEF vars, durable, process
<1>2. CASE LeaseExpires
  BY <1>2, SettlementFrame DEF LeaseExpires, process
<1>3. ASSUME NEW r \in Runner, RequestCancel(r) PROVE Settlement'
  <2>1. \/ status' = status
        \/ status[r] = "queued" /\ status' = [status EXCEPT ![r] = "cancelled"]
    BY <1>3 DEF RequestCancel, TypeOK
  <2> QED
    BY <1>3, <2>1, SettlementQueued DEF RequestCancel
<1>4. ASSUME NEW b \in Backend, AcquireRuntime(b) PROVE Settlement'
  BY <1>4, SettlementFrame DEF AcquireRuntime
<1>5. ASSUME NEW b \in Backend, SnapshotStale(b) PROVE Settlement'
  BY <1>5, SettlementFrame DEF SnapshotStale, durable
<1>6. ASSUME NEW b \in Backend, StartFails(b) PROVE Settlement'
  BY <1>6, SettlementFrame DEF StartFails
<1>7. ASSUME NEW b \in Backend, StartServing(b) PROVE Settlement'
  BY <1>7, SettlementFrame DEF StartServing, durable
<1>8. ASSUME NEW b \in Backend, StopScheduler(b) PROVE Settlement'
  BY <1>8, SettlementFrame DEF StopScheduler, Interrupt, durable
<1>9. ASSUME NEW b \in Backend, MaintenanceFails(b) PROVE Settlement'
  BY <1>9, SettlementFrame DEF MaintenanceFails, Interrupt, durable
<1>10. ASSUME NEW b \in Backend, ReleaseRuntime(b) PROVE Settlement'
  BY <1>10, SettlementFrame DEF ReleaseRuntime
<1>11. ASSUME NEW b \in Backend, Crash(b) PROVE Settlement'
  BY <1>11, SettlementFrame DEF Crash, durable
<1>12. ASSUME NEW b \in Backend, NEW r \in Runner, RequeueStale(b, r) PROVE Settlement'
  BY <1>12, SettlementFinishRunner DEF RequeueStale, Terminal
<1>13. ASSUME NEW b \in Backend, NEW r \in Runner, StartSelected(b, r) PROVE Settlement'
  BY <1>13 DEF StartSelected, Settlement, TerminalSettled, WorkersOf, TypeOK, Terminal
<1>14. ASSUME NEW b \in Backend, NEW r \in Runner, DiscardSelected(b, r) PROVE Settlement'
  BY <1>14, SettlementQueued DEF DiscardSelected
<1>15. ASSUME NEW b \in Backend, NEW r \in Runner, ObserveCancellation(b, r) PROVE Settlement'
  BY <1>15, SettlementFrame DEF ObserveCancellation, durable
<1>16. ASSUME NEW b \in Backend, NEW r \in Runner, PreparationFails(b, r) PROVE Settlement'
  BY <1>16, SettlementFrame DEF PreparationFails, durable
<1>17. ASSUME NEW b \in Backend, NEW r \in Runner, CreateWorkers(b, r) PROVE Settlement'
  <2>1. /\ \A w \in Worker : worker'[w] # worker[w] =>
                RunnerOf[w] = r /\ status[r] = "running"
        /\ UNCHANGED <<status, attempt>>
    BY <1>17 DEF CreateWorkers, Raises, Accepting
  <2> QED
    BY <2>1 DEF Settlement, TerminalSettled, WorkersOf, Terminal
<1>18. ASSUME NEW b \in Backend, NEW r \in Runner, StopProgress(b, r) PROVE Settlement'
  BY <1>18, SettlementFrame DEF StopProgress, durable
<1>19. ASSUME NEW b \in Backend, NEW r \in Runner, Summarize(b, r) PROVE Settlement'
  BY <1>19, SettlementFrame DEF Summarize, durable
<1>20. ASSUME NEW b \in Backend, NEW r \in Runner, PersistResult(b, r) PROVE Settlement'
  <2>1. CASE Owns(b) /\ Completable(r)
    <3>1. /\ attempt[r].generation = generation[b]
          /\ attempt[r].state = "executing"
      <4>1. phase[b] \in Started
        BY <1>20 DEF PersistResult, Fencing
      <4> QED
        BY <2>1, <4>1 DEF Fencing, NoForeignExecution, Owns, Started, Completable
    <3> DEFINE f == IF pc[b][r] = "completing_ok" THEN "succeeded" ELSE "failed"
    <3>2. f \in Terminal /\ WithState(attempt[r], f).state # "executing"
      BY DEF Terminal, WithState
    <3>3. CompleteRunner(b, r, f)
      BY <1>20, <2>1 DEF PersistResult
    <3> HIDE DEF f
    <3>4. /\ status' = [status EXCEPT ![r] = f]
          /\ attempt' = [attempt EXCEPT ![r] = WithState(attempt[r], f)]
          /\ worker' = SettledWorkers(r)
      BY <2>1, <3>1, <3>3 DEF CompleteRunner
    <3> QED
      BY <3>2, <3>4, SettlementFinish
  <2>2. CASE ~(Owns(b) /\ Completable(r))
    BY <1>20, <2>2, SettlementFrame DEF PersistResult, CompleteRunner
  <2> QED
    BY <2>1, <2>2
<1>21. ASSUME NEW b \in Backend, NEW r \in Runner, PersistEnd(b, r) PROVE Settlement'
  <2>1. CASE UNCHANGED <<status, worker, attempt>>
    BY <2>1, SettlementFrame
  <2>2. CASE ~UNCHANGED <<status, worker, attempt>>
    <3> DEFINE p == pc[b][r]
               a == IF p = "interrupted" THEN "indeterminate" ELSE FinalStatus(p)
    <3>1. FinalStatus(p) \in Terminal /\ a \in Terminal \cup {"indeterminate"}
      BY DEF FinalStatus, Terminal
    <3>2. FinishRunner(r, FinalStatus(p), a)
      BY <1>21, <2>2 DEF PersistEnd
    <3> QED
      BY <3>1, <3>2, SettlementFinishRunner
  <2> QED
    BY <2>1, <2>2
<1>22. ASSUME NEW b \in Backend, NEW r \in Runner, CloseExecution(b, r) PROVE Settlement'
  BY <1>22, SettlementFrame DEF CloseExecution, durable
<1>23. ASSUME NEW b \in Backend, NEW w \in Worker, ReserveWorker(b, w) PROVE Settlement'
  <2>1. /\ \A v \in Worker : worker'[v] # worker[v] =>
                v = w /\ status[RunnerOf[v]] = "running"
        /\ UNCHANGED <<status, attempt>>
    BY <1>23 DEF ReserveWorker, Reservable, Raises, Accepting, TypeOK
  <2> QED
    BY <2>1 DEF Settlement, TerminalSettled, WorkersOf, Terminal
<1>24. ASSUME NEW b \in Backend, NEW w \in Worker, RouterRejects(b, w) PROVE Settlement'
  BY <1>24, SettlementFrame DEF RouterRejects, durable
<1>25. ASSUME NEW b \in Backend, NEW w \in Worker, CancelTask(b, w) PROVE Settlement'
  BY <1>25, SettlementFrame DEF CancelTask, durable
<1>26. ASSUME NEW b \in Backend, NEW w \in Worker, SendRequest(b, w) PROVE Settlement'
  BY <1>26, SettlementFrame DEF SendRequest, durable
<1>27. ASSUME NEW b \in Backend, NEW w \in Worker, ReceiveResponse(b, w) PROVE Settlement'
  BY <1>27, SettlementFrame DEF ReceiveResponse, durable
<1>28. ASSUME NEW b \in Backend, NEW w \in Worker, CommitWorker(b, w) PROVE Settlement'
  <2>1. /\ \A v \in Worker : worker'[v] # worker[v] =>
                v = w /\ status[RunnerOf[v]] = "running"
        /\ UNCHANGED <<status, attempt>>
    <3>1. CASE UNCHANGED worker
      BY <1>28, <3>1 DEF CommitWorker
    <3>2. CASE ~UNCHANGED worker
      <4>1. /\ status[RunnerOf[w]] = "running"
            /\ \E row : worker' = [worker EXCEPT ![w] = row]
            /\ UNCHANGED <<status, attempt>>
        BY <1>28, <3>2 DEF CommitWorker
      <4> QED
        BY <4>1 DEF TypeOK
    <3> QED
      BY <3>1, <3>2
  <2> QED
    BY <2>1 DEF Settlement, TerminalSettled, WorkersOf, Terminal
<1>29. ASSUME NEW b \in Backend, NEW w \in Worker, CancelStep(b, w) PROVE Settlement'
  <2>1. /\ \A v \in Worker : worker'[v] # worker[v] =>
                v = w /\ status[RunnerOf[v]] = "running"
        /\ UNCHANGED <<status, attempt>>
    BY <1>29 DEF CancelStep, Raises, Accepting, TypeOK
  <2> QED
    BY <2>1 DEF Settlement, TerminalSettled, WorkersOf, Terminal
<1> QED
  BY <1>1, <1>2, <1>3, <1>4, <1>5, <1>6, <1>7, <1>8, <1>9, <1>10, <1>11,
        <1>12, <1>13, <1>14, <1>15, <1>16, <1>17, <1>18, <1>19, <1>20, <1>21,
        <1>22, <1>23, <1>24, <1>25, <1>26, <1>27, <1>28, <1>29 DEF Next,
        SupervisorStep, TaskStep

\* A finished Runner never leaves an open attempt, a waiting Worker or one in
\* flight behind, whichever Backend finished it.
THEOREM FinishedIsSettled == Spec => []TerminalSettled
<1>1. Init => Settlement
  BY DEF Init, Settlement, TerminalSettled, Terminal, WorkersOf
<1>2. Settlement => TerminalSettled
  BY DEF Settlement
<1> QED
  BY <1>1, <1>2, TypeCorrect, FencingInvariant, SettlementStep, PTL DEF Spec

-----------------------------------------------------------------------------
(* Only the live lease commits *)

\* Every output committed by this step goes into the attempt of the live lease.
CommitFenced ==
    \A w \in Worker :
        worker[w].state # worker'[w].state /\ worker'[w].state \in CommittedStates
        => /\ lease.live
           /\ attempt[RunnerOf[w]] =
                [state |-> "executing", generation |-> lease.generation]

\* No Worker row changes.
LEMMA CommitFrame == UNCHANGED worker => CommitFenced
  BY DEF CommitFenced

\* Settling commits nothing.
LEMMA CommitSettle ==
  ASSUME TypeOK, NEW r \in Runner, worker' = worker \/ worker' = SettledWorkers(r)
  PROVE  CommitFenced
  BY DEF CommitFenced, SettledWorkers, Settled, WithState, CommittedStates

\* Every step commits under the live lease only.
LEMMA CommitStep == TypeOK /\ Fencing /\ [Next]_vars => CommitFenced
<1> SUFFICES ASSUME TypeOK, Fencing, [Next]_vars PROVE CommitFenced
  OBVIOUS
<1>1. CASE UNCHANGED vars
  BY <1>1, CommitFrame DEF vars, durable, process
<1>2. CASE LeaseExpires
  BY <1>2, CommitFrame DEF LeaseExpires, process
<1>3. ASSUME NEW r \in Runner, RequestCancel(r) PROVE CommitFenced
  BY <1>3, CommitFrame DEF RequestCancel
<1>4. ASSUME NEW b \in Backend, AcquireRuntime(b) PROVE CommitFenced
  BY <1>4, CommitFrame DEF AcquireRuntime
<1>5. ASSUME NEW b \in Backend, SnapshotStale(b) PROVE CommitFenced
  BY <1>5, CommitFrame DEF SnapshotStale, durable
<1>6. ASSUME NEW b \in Backend, StartFails(b) PROVE CommitFenced
  BY <1>6, CommitFrame DEF StartFails
<1>7. ASSUME NEW b \in Backend, StartServing(b) PROVE CommitFenced
  BY <1>7, CommitFrame DEF StartServing, durable
<1>8. ASSUME NEW b \in Backend, StopScheduler(b) PROVE CommitFenced
  BY <1>8, CommitFrame DEF StopScheduler, Interrupt, durable
<1>9. ASSUME NEW b \in Backend, MaintenanceFails(b) PROVE CommitFenced
  BY <1>9, CommitFrame DEF MaintenanceFails, Interrupt, durable
<1>10. ASSUME NEW b \in Backend, ReleaseRuntime(b) PROVE CommitFenced
  BY <1>10, CommitFrame DEF ReleaseRuntime
<1>11. ASSUME NEW b \in Backend, Crash(b) PROVE CommitFenced
  BY <1>11, CommitFrame DEF Crash, durable
<1>12. ASSUME NEW b \in Backend, NEW r \in Runner, RequeueStale(b, r) PROVE CommitFenced
  BY <1>12, CommitSettle DEF RequeueStale, FinishRunner
<1>13. ASSUME NEW b \in Backend, NEW r \in Runner, StartSelected(b, r) PROVE CommitFenced
  BY <1>13, CommitFrame DEF StartSelected
<1>14. ASSUME NEW b \in Backend, NEW r \in Runner, DiscardSelected(b, r) PROVE CommitFenced
  BY <1>14, CommitFrame DEF DiscardSelected
<1>15. ASSUME NEW b \in Backend, NEW r \in Runner, ObserveCancellation(b, r) PROVE CommitFenced
  BY <1>15, CommitFrame DEF ObserveCancellation, durable
<1>16. ASSUME NEW b \in Backend, NEW r \in Runner, PreparationFails(b, r) PROVE CommitFenced
  BY <1>16, CommitFrame DEF PreparationFails, durable
<1>17. ASSUME NEW b \in Backend, NEW r \in Runner, CreateWorkers(b, r) PROVE CommitFenced
  BY <1>17 DEF CreateWorkers, Raises, CommitFenced, CommittedStates
<1>18. ASSUME NEW b \in Backend, NEW r \in Runner, StopProgress(b, r) PROVE CommitFenced
  BY <1>18, CommitFrame DEF StopProgress, durable
<1>19. ASSUME NEW b \in Backend, NEW r \in Runner, Summarize(b, r) PROVE CommitFenced
  BY <1>19, CommitFrame DEF Summarize, durable
<1>20. ASSUME NEW b \in Backend, NEW r \in Runner, PersistResult(b, r) PROVE CommitFenced
  BY <1>20, CommitSettle DEF PersistResult, CompleteRunner
<1>21. ASSUME NEW b \in Backend, NEW r \in Runner, PersistEnd(b, r) PROVE CommitFenced
  BY <1>21, CommitSettle DEF PersistEnd, FinishRunner
<1>22. ASSUME NEW b \in Backend, NEW r \in Runner, CloseExecution(b, r) PROVE CommitFenced
  BY <1>22, CommitFrame DEF CloseExecution, durable
<1>23. ASSUME NEW b \in Backend, NEW w \in Worker, ReserveWorker(b, w) PROVE CommitFenced
  <2>1. UNCHANGED worker \/ worker' = [worker EXCEPT ![w] = WithState(@, "submitted")]
    BY <1>23 DEF ReserveWorker, Raises
  <2> QED
    <3>1. \A v \in Worker : worker'[v] = worker[v] \/ worker'[v].state = "submitted"
      BY <2>1 DEF WithState, TypeOK
    <3> QED
      BY <3>1 DEF CommitFenced, CommittedStates
<1>24. ASSUME NEW b \in Backend, NEW w \in Worker, RouterRejects(b, w) PROVE CommitFenced
  BY <1>24, CommitFrame DEF RouterRejects, durable
<1>25. ASSUME NEW b \in Backend, NEW w \in Worker, CancelTask(b, w) PROVE CommitFenced
  BY <1>25, CommitFrame DEF CancelTask, durable
<1>26. ASSUME NEW b \in Backend, NEW w \in Worker, SendRequest(b, w) PROVE CommitFenced
  BY <1>26, CommitFrame DEF SendRequest, durable
<1>27. ASSUME NEW b \in Backend, NEW w \in Worker, ReceiveResponse(b, w) PROVE CommitFenced
  BY <1>27, CommitFrame DEF ReceiveResponse, durable
<1>28. ASSUME NEW b \in Backend, NEW w \in Worker, CommitWorker(b, w) PROVE CommitFenced
  <2>1. CASE UNCHANGED worker
    BY <2>1, CommitFrame
  <2>2. CASE ~UNCHANGED worker
    <3>1. /\ Owns(b)
          /\ status[RunnerOf[w]] = "running"
          /\ task[b][w] # "none"
          /\ \E row : worker' = [worker EXCEPT ![w] = row]
      BY <1>28, <2>2 DEF CommitWorker
    <3>2. RunnerOf[w] \in Runner /\ phase[b] \in Started
      BY <3>1 DEF Fencing
    <3>3. attempt[RunnerOf[w]] =
                [state |-> "executing", generation |-> lease.generation]
      BY <3>1, <3>2 DEF Fencing, NoForeignExecution, Started
    <3> QED
      BY <3>1, <3>3 DEF CommitFenced, Owns, TypeOK
  <2> QED
    BY <2>1, <2>2
<1>29. ASSUME NEW b \in Backend, NEW w \in Worker, CancelStep(b, w) PROVE CommitFenced
  <2>1. /\ UNCHANGED worker \/ (worker[w].state = "created" /\ worker' =
                                [worker EXCEPT ![w] = WithState(@, "cancelled")])
        /\ UNCHANGED <<task, sends, completed>>
    BY <1>29 DEF CancelStep, Raises
  <2>2. \A v \in Worker :
            \/ worker'[v] = worker[v]
            \/ worker[v].state = "created" /\ worker'[v].state = "cancelled"
    BY <2>1 DEF WithState, TypeOK
  <2> QED
    BY <2>2 DEF CommitFenced, CommittedStates
<1> QED
  BY <1>1, <1>2, <1>3, <1>4, <1>5, <1>6, <1>7, <1>8, <1>9, <1>10, <1>11,
        <1>12, <1>13, <1>14, <1>15, <1>16, <1>17, <1>18, <1>19, <1>20, <1>21,
        <1>22, <1>23, <1>24, <1>25, <1>26, <1>27, <1>28, <1>29 DEF Next,
        SupervisorStep, TaskStep

-----------------------------------------------------------------------------
(* What a recorded success means *)

\* No Runner becomes succeeded, no supervisor starts to record a success, and
\* cancellation is not requested for a succeeded Runner.
OutcomeKept ==
    /\ \A r \in Runner : status'[r] = "succeeded" =>
            /\ status[r] = "succeeded"
            /\ cancelRequested'[r] = cancelRequested[r]
    /\ \A b \in Backend, r \in Runner :
            pc'[b][r] = "completing_ok" => pc[b][r] = "completing_ok"

\* Together with the durability of outputs that keeps Outcome.
LEMMA OutcomeFrame ==
  ASSUME TypeOK, Outcome, OutputsKept, OutcomeKept
  PROVE  Outcome'
<1>1. \A w \in Worker : worker[w].state = "succeeded" => worker'[w].state = "succeeded"
  BY DEF OutputsKept, CommittedStates
<1> QED
  BY <1>1 DEF Outcome, OutcomeKept, SuccessHasOutput, CancelledNeverSucceeds, WorkersOf

\* Moving a supervisor elsewhere, rows unchanged.
LEMMA OutcomePc ==
  ASSUME TypeOK, NEW b \in Backend, NEW r \in Runner, NEW p,
         p # "completing_ok", SetPc(b, r, p), UNCHANGED <<status, cancelRequested>>
  PROVE  OutcomeKept
  BY DEF OutcomeKept, SetPc, TypeOK

\* finish_runner never records a success.
LEMMA OutcomeFinish ==
  ASSUME TypeOK, NEW r \in Runner, NEW f, NEW a, f # "succeeded",
         FinishRunner(r, f, a) \/ UNCHANGED status, UNCHANGED cancelRequested,
         \A c \in Backend, q \in Runner :
            pc'[c][q] = "completing_ok" => pc[c][q] = "completing_ok"
  PROVE  OutcomeKept
  BY DEF OutcomeKept, FinishRunner, TypeOK

\* Every step keeps Outcome.
LEMMA OutcomeStep ==
  TypeOK /\ SendLedger /\ Outcome /\ [Next]_vars => Outcome'
<1> SUFFICES ASSUME TypeOK, SendLedger, Outcome, [Next]_vars PROVE Outcome'
  OBVIOUS
<1> USE OutputsStep
<1>1. CASE UNCHANGED vars
  BY <1>1, OutcomeFrame DEF vars, durable, process, OutcomeKept
<1>2. CASE LeaseExpires
  BY <1>2, OutcomeFrame DEF LeaseExpires, process, OutcomeKept
<1>3. ASSUME NEW r \in Runner, RequestCancel(r) PROVE Outcome'
  <2>1. OutcomeKept
    BY <1>3 DEF RequestCancel, process, Terminal, TypeOK, OutcomeKept
  <2> QED
    BY <2>1, OutcomeFrame
<1>4. ASSUME NEW b \in Backend, AcquireRuntime(b) PROVE Outcome'
  <2>1. OutcomeKept
    BY <1>4 DEF AcquireRuntime, OutcomeKept
  <2> QED
    BY <2>1, OutcomeFrame
<1>5. ASSUME NEW b \in Backend, SnapshotStale(b) PROVE Outcome'
  <2>1. OutcomeKept
    BY <1>5 DEF SnapshotStale, durable, OutcomeKept
  <2> QED
    BY <2>1, OutcomeFrame
<1>6. ASSUME NEW b \in Backend, StartFails(b) PROVE Outcome'
  <2>1. OutcomeKept
    BY <1>6 DEF StartFails, OutcomeKept
  <2> QED
    BY <2>1, OutcomeFrame
<1>7. ASSUME NEW b \in Backend, StartServing(b) PROVE Outcome'
  <2>1. OutcomeKept
    BY <1>7 DEF StartServing, durable, OutcomeKept
  <2> QED
    BY <2>1, OutcomeFrame
<1>8. ASSUME NEW b \in Backend, StopScheduler(b) PROVE Outcome'
  <2>1. OutcomeKept
    BY <1>8 DEF StopScheduler, Interrupt, InterruptedAt, durable, TypeOK, OutcomeKept
  <2> QED
    BY <2>1, OutcomeFrame
<1>9. ASSUME NEW b \in Backend, MaintenanceFails(b) PROVE Outcome'
  <2>1. OutcomeKept
    BY <1>9 DEF MaintenanceFails, Interrupt, InterruptedAt, durable, TypeOK, OutcomeKept
  <2> QED
    BY <2>1, OutcomeFrame
<1>10. ASSUME NEW b \in Backend, ReleaseRuntime(b) PROVE Outcome'
  <2>1. OutcomeKept
    BY <1>10 DEF ReleaseRuntime, OutcomeKept
  <2> QED
    BY <2>1, OutcomeFrame
<1>11. ASSUME NEW b \in Backend, Crash(b) PROVE Outcome'
  <2>1. OutcomeKept
    BY <1>11 DEF Crash, durable, TypeOK, OutcomeKept
  <2> QED
    BY <2>1, OutcomeFrame
<1>12. ASSUME NEW b \in Backend, NEW r \in Runner, RequeueStale(b, r) PROVE Outcome'
  <2>1. OutcomeKept
    BY <1>12, OutcomeFinish DEF RequeueStale
  <2> QED
    BY <2>1, OutcomeFrame
<1>13. ASSUME NEW b \in Backend, NEW r \in Runner, StartSelected(b, r) PROVE Outcome'
  <2>1. OutcomeKept
    <3>1. UNCHANGED pc \/ SetPc(b, r, "preparing")
      BY <1>13 DEF StartSelected
    <3> QED
      <4>1. \A c \in Backend, q \in Runner :
                pc'[c][q] = "completing_ok" => pc[c][q] = "completing_ok"
        BY <3>1, PcAt
      <4>2. \A q \in Runner : status'[q] = "succeeded" => status[q] = "succeeded"
        BY <1>13 DEF StartSelected, TypeOK
      <4> QED
        BY <1>13, <4>1, <4>2 DEF StartSelected, OutcomeKept
  <2> QED
    BY <2>1, OutcomeFrame
<1>14. ASSUME NEW b \in Backend, NEW r \in Runner, DiscardSelected(b, r) PROVE Outcome'
  <2>1. OutcomeKept
    BY <1>14 DEF DiscardSelected, process, TypeOK, OutcomeKept
  <2> QED
    BY <2>1, OutcomeFrame
<1>15. ASSUME NEW b \in Backend, NEW r \in Runner, ObserveCancellation(b, r) PROVE Outcome'
  <2>1. OutcomeKept
    BY <1>15, OutcomePc DEF ObserveCancellation, durable
  <2> QED
    BY <2>1, OutcomeFrame
<1>16. ASSUME NEW b \in Backend, NEW r \in Runner, PreparationFails(b, r) PROVE Outcome'
  <2>1. OutcomeKept
    BY <1>16, OutcomePc DEF PreparationFails, durable
  <2> QED
    BY <2>1, OutcomeFrame
<1>17. ASSUME NEW b \in Backend, NEW r \in Runner, CreateWorkers(b, r) PROVE Outcome'
  <2>1. OutcomeKept
    BY <1>17, OutcomePc DEF CreateWorkers, Raises
  <2> QED
    BY <2>1, OutcomeFrame
<1>18. ASSUME NEW b \in Backend, NEW r \in Runner, StopProgress(b, r) PROVE Outcome'
  <2>1. OutcomeKept
    BY <1>18, OutcomePc DEF StopProgress, durable
  <2> QED
    BY <2>1, OutcomeFrame
<1>19. ASSUME NEW b \in Backend, NEW r \in Runner, Summarize(b, r) PROVE Outcome'
  <2>1. UNCHANGED <<worker, status, cancelRequested>>
    BY <1>19 DEF Summarize, durable
  <2>2. \A c \in Backend, q \in Runner :
            pc'[c][q] = "completing_ok" =>
                \/ pc[c][q] = "completing_ok"
                \/ q = r /\ \E w \in WorkersOf(r) : worker[w].state = "succeeded"
    BY <1>19, PcAt DEF Summarize
  <2> QED
    BY <2>1, <2>2 DEF Outcome, SuccessHasOutput, CancelledNeverSucceeds, WorkersOf
<1>20. ASSUME NEW b \in Backend, NEW r \in Runner, PersistResult(b, r) PROVE Outcome'
  <2>1. \A c \in Backend, q \in Runner :
            pc'[c][q] = "completing_ok" => pc[c][q] = "completing_ok"
    <3>1. UNCHANGED pc \/ \E p : p # "completing_ok" /\ SetPc(b, r, p)
      BY <1>20 DEF PersistResult, AbandonResult
    <3> QED
      BY <3>1, PcAt
  <2>2. /\ UNCHANGED cancelRequested
        /\ \A q \in Runner : status'[q] = "succeeded" =>
              \/ status[q] = "succeeded"
              \/ q = r /\ pc[b][r] = "completing_ok" /\ ~cancelRequested[r]
    BY <1>20 DEF PersistResult, CompleteRunner, Completable, TypeOK
  <2>3. \A w \in Worker : worker[w].state = "succeeded" => worker'[w].state = "succeeded"
    BY DEF OutputsKept, CommittedStates
  <2> QED
    BY <2>1, <2>2, <2>3 DEF Outcome, SuccessHasOutput, CancelledNeverSucceeds, WorkersOf
<1>21. ASSUME NEW b \in Backend, NEW r \in Runner, PersistEnd(b, r) PROVE Outcome'
  <2>1. \A c \in Backend, q \in Runner :
            pc'[c][q] = "completing_ok" => pc[c][q] = "completing_ok"
    <3>1. \E p : p # "completing_ok" /\ SetPc(b, r, p)
      BY <1>21 DEF PersistEnd
    <3> QED
      BY <3>1, PcAt
  <2>2. FinalStatus(pc[b][r]) # "succeeded"
    BY DEF FinalStatus
  <2>3. OutcomeKept
    BY <1>21, <2>1, <2>2, OutcomeFinish DEF PersistEnd
  <2> QED
    BY <2>3, OutcomeFrame
<1>22. ASSUME NEW b \in Backend, NEW r \in Runner, CloseExecution(b, r) PROVE Outcome'
  <2>1. OutcomeKept
    BY <1>22, OutcomePc DEF CloseExecution, durable
  <2> QED
    BY <2>1, OutcomeFrame
<1>23. ASSUME NEW b \in Backend, NEW w \in Worker, ReserveWorker(b, w) PROVE Outcome'
  <2>1. CASE UNCHANGED pc
    <3>1. OutcomeKept
      BY <1>23, <2>1 DEF ReserveWorker, OutcomeKept
    <3> QED
      BY <3>1, OutcomeFrame
  <2>2. CASE ~UNCHANGED pc
    <3>1. OutcomeKept
      BY <1>23, <2>2, OutcomePc DEF ReserveWorker, Raises
    <3> QED
      BY <3>1, OutcomeFrame
  <2> QED
    BY <2>1, <2>2
<1>24. ASSUME NEW b \in Backend, NEW w \in Worker, RouterRejects(b, w) PROVE Outcome'
  <2>1. OutcomeKept
    BY <1>24 DEF RouterRejects, durable, OutcomeKept
  <2> QED
    BY <2>1, OutcomeFrame
<1>25. ASSUME NEW b \in Backend, NEW w \in Worker, CancelTask(b, w) PROVE Outcome'
  <2>1. OutcomeKept
    BY <1>25 DEF CancelTask, durable, OutcomeKept
  <2> QED
    BY <2>1, OutcomeFrame
<1>26. ASSUME NEW b \in Backend, NEW w \in Worker, SendRequest(b, w) PROVE Outcome'
  <2>1. OutcomeKept
    BY <1>26 DEF SendRequest, durable, OutcomeKept
  <2> QED
    BY <2>1, OutcomeFrame
<1>27. ASSUME NEW b \in Backend, NEW w \in Worker, ReceiveResponse(b, w) PROVE Outcome'
  <2>1. OutcomeKept
    BY <1>27 DEF ReceiveResponse, durable, OutcomeKept
  <2> QED
    BY <2>1, OutcomeFrame
<1>28. ASSUME NEW b \in Backend, NEW w \in Worker, CommitWorker(b, w) PROVE Outcome'
  <2> DEFINE r == RunnerOf[w]
             p == IF pc[b][r] = "running" THEN "interrupted" ELSE pc[b][r]
  <2>1. r \in Runner /\ (p = "completing_ok" => pc[b][r] = "completing_ok")
    OBVIOUS
  <2>2. /\ SetPc(b, r, p) \/ UNCHANGED pc
        /\ UNCHANGED <<status, cancelRequested>>
    BY <1>28 DEF CommitWorker
  <2> HIDE DEF r, p
  <2>3. OutcomeKept
    BY <2>1, <2>2, PcAt DEF OutcomeKept
  <2> QED
    BY <2>3, OutcomeFrame
<1>29. ASSUME NEW b \in Backend, NEW w \in Worker, CancelStep(b, w) PROVE Outcome'
  <2>1. CASE UNCHANGED pc
    <3>1. OutcomeKept
      BY <1>29, <2>1 DEF CancelStep, OutcomeKept
    <3> QED
      BY <3>1, OutcomeFrame
  <2>2. CASE ~UNCHANGED pc
    <3>1. OutcomeKept
      BY <1>29, <2>2, OutcomePc DEF CancelStep, Raises
    <3> QED
      BY <3>1, OutcomeFrame
  <2> QED
    BY <2>1, <2>2
<1> QED
  BY <1>1, <1>2, <1>3, <1>4, <1>5, <1>6, <1>7, <1>8, <1>9, <1>10, <1>11,
        <1>12, <1>13, <1>14, <1>15, <1>16, <1>17, <1>18, <1>19, <1>20, <1>21,
        <1>22, <1>23, <1>24, <1>25, <1>26, <1>27, <1>28, <1>29 DEF Next,
        SupervisorStep, TaskStep

\* The invariant behind the two theorems that follow.
THEOREM OutcomeInvariant == Spec => []Outcome
<1>1. Init => Outcome
  BY DEF Init, Outcome, SuccessHasOutput, CancelledNeverSucceeds
<1> QED
  BY <1>1, TypeCorrect, LedgerInvariant, OutcomeStep, PTL DEF Spec

\* A succeeded Runner has a committed successful output.
THEOREM SuccessesHaveOutput == Spec => []SuccessHasOutput
<1>1. Outcome => SuccessHasOutput
  BY DEF Outcome
<1> QED
  BY <1>1, OutcomeInvariant, PTL

\* A Runner whose cancellation was accepted is never recorded as succeeded.
THEOREM CancellationWins == Spec => []CancelledNeverSucceeds
<1>1. Outcome => CancelledNeverSucceeds
  BY DEF Outcome
<1> QED
  BY <1>1, OutcomeInvariant, PTL

\* Outputs are committed into the open attempt of the live lease alone, and no
\* recovery, cancellation, duplicate or stale commit alters one or drops its message.
THEOREM CommitsAreFinal == Spec => OutputsAreFinal
<1>1. TypeOK /\ SendLedger /\ Fencing /\ [Next]_vars =>
        [\A w \in Worker :
            /\ worker[w].state \in CommittedStates => worker'[w] = worker[w] /\ w \in completed'
            /\ worker[w].state # worker'[w].state /\ worker'[w].state \in CommittedStates
               => /\ lease.live
                  /\ attempt[RunnerOf[w]] =
                        [state |-> "executing", generation |-> lease.generation]]_vars
  BY OutputsStep, CommitStep DEF OutputsKept, CommitFenced
<1> QED
  BY <1>1, TypeCorrect, LedgerInvariant, FencingInvariant, PTL DEF Spec, OutputsAreFinal

\* The books about Workers and Runners agree with what was sent: the four
\* theorems about them together.
THEOREM BooksAlwaysAgree == Spec => []BooksAgree
<1>1. SentIsAccounted /\ SuccessWasSent /\ SuccessHasOutput /\ TerminalSettled => BooksAgree
  BY DEF BooksAgree
<1> QED
  BY <1>1, SendsAccounted, SuccessesWereSent, SuccessesHaveOutput, FinishedIsSettled, PTL
=============================================================================
