------------------------- MODULE TaskInstanceProofs -------------------------
(***************************************************************************)
(* Theorems about TaskInstance, for any graph of nodes, delays, payloads   *)
(* and prompt hashes.                                                      *)
(***************************************************************************)
EXTENDS TaskInstance, TLAPS

\* Only the end of a Runner records a result, so it is recorded once.
Recorded == \A n \in Node : result[n] # "none" => runner[n] \in Outcomes

\* The decision that node n is ready stays right for ever.
ReadyForever(n) ==
    /\ lifetime >= DelayOf[n]
    /\ \A d \in DependenciesOf[n] : result[d] = "succeeded" /\ age[d] >= DelayOf[n]

\* What an old snapshot calls ready still is.
SnapshotIsRight == \A n \in snapshot : ReadyForever(n)

\* As long as nothing went wrong, the prompt of a succeeded request is the one
\* its payload was first sent with.
PromptsAgree ==
    instance \in {"planned", "active", "completed"} =>
        \A n \in Node \ Batch :
            result[n] = "succeeded" =>
                promptHash[n] = hashes[PayloadOf[n]] /\ promptHash[n] # NoHash

-----------------------------------------------------------------------------
\* The outcomes a checkpoint records are outcomes of Runners.
LEMMA CheckpointTypes ==
    ASSUME TypeOK, NEW n \in Node, NEW outcome \in Outcomes, NEW h \in Hash \cup {NoHash},
           Checkpoint(n, outcome, h), runner[n] \in {"queued", "running"},
           UNCHANGED <<snapshot, locks>>
    PROVE  TypeOK'
<1> USE ConstantsAssumption DEF TypeOK, Outcomes, RunnerStatuses, NodeStates, InstanceStates, locks
<1>1. /\ result' \in [Node -> {"none"} \cup Outcomes]
      /\ promptHash' \in [Node -> Hash \cup {NoHash}]
      /\ age' \in [Node -> 0..MaxDelay]
      /\ lifetime' \in 0..MaxDelay
      /\ UNCHANGED <<snapshot, cancelling, locked>>
  BY DEF Checkpoint
<1>2. CASE Settled(n)
  BY <1>1, <1>2 DEF Checkpoint, Settled, Queued
<1>3. CASE ~Settled(n) /\ Fails(n, outcome, h)
  BY <1>1, <1>3 DEF Checkpoint, CancelRest, Queued, Open
<1>4. CASE ~Settled(n) /\ ~Fails(n, outcome, h)
  BY <1>1, <1>4 DEF Checkpoint
<1> QED BY <1>2, <1>3, <1>4

\* One step keeps the types, and nodes and Runners agree.
LEMMA TypeStep == TypeOK /\ [Next]_vars => TypeOK'
<1> SUFFICES ASSUME TypeOK, [Next]_vars PROVE TypeOK'
  OBVIOUS
<1> USE ConstantsAssumption DEF TypeOK, Outcomes, RunnerStatuses, NodeStates, InstanceStates,
        rows, time, locks
<1>1. CASE Tick
  BY <1>1 DEF Tick, Older
<1>2. CASE TakeSnapshot
  BY <1>2 DEF TakeSnapshot
<1>3. ASSUME NEW n \in Node, Activate(n) PROVE TypeOK'
  BY <1>3 DEF Activate, Activatable, Open
<1>4. ASSUME NEW n \in Node, StartSelected(n) PROVE TypeOK'
  BY <1>4 DEF StartSelected, AdmitOrDiscard
<1>5. ASSUME NEW n \in Node, CompleteRunner(n) PROVE TypeOK'
  BY <1>5, CheckpointTypes DEF CompleteRunner
<1>6. ASSUME NEW n \in Node, FinishRunner(n) PROVE TypeOK'
  BY <1>6, CheckpointTypes DEF FinishRunner
<1>7. ASSUME NEW n \in Node, RequestCancel(n) PROVE TypeOK'
  <2>1. CASE runner[n] = "queued" /\ Checkpoint(n, "cancelled", NoHash)
    BY <1>7, <2>1, CheckpointTypes DEF RequestCancel
  <2>2. CASE runner[n] = "running"
    BY <1>7, <2>2 DEF RequestCancel
  <2> QED BY <1>7, <2>1, <2>2 DEF RequestCancel
<1>8. CASE LockRunners
  BY <1>8 DEF LockRunners
<1>9. CASE CancelCampaign
  BY <1>9 DEF CancelCampaign, Queued, Open, Over
<1>10. CASE AbortCancel
  BY <1>10 DEF AbortCancel
<1>11. CASE UNCHANGED vars
  BY <1>11 DEF vars
<1> QED BY <1>1, <1>2, <1>3, <1>4, <1>5, <1>6, <1>7, <1>8, <1>9, <1>10, <1>11 DEF Next

\* Every reachable state of an instance is well typed, and a node is emitted
\* exactly when it has a Runner.
THEOREM InstanceTypes == Spec => []TypeOK
<1>1. ASSUME Init PROVE TypeOK
  <2>1. age \in [Node -> 0..MaxDelay] /\ lifetime \in 0..MaxDelay
    BY <1>1, ConstantsAssumption DEF Init
  <2>2. /\ node \in [Node -> NodeStates]
        /\ \A n \in Node : node[n] # "emitted" /\ runner[n] = "none"
    BY <1>1 DEF Init, NodeStates
  <2>3. /\ instance \in InstanceStates
        /\ runner \in [Node -> RunnerStatuses]
        /\ result \in [Node -> {"none"} \cup Outcomes]
    BY <1>1 DEF Init, InstanceStates, RunnerStatuses
  <2>4. /\ promptHash \in [Node -> Hash \cup {NoHash}]
        /\ hashes \in [Payload -> Hash \cup {NoHash}]
    BY <1>1 DEF Init
  <2>5. /\ cancelRequested \subseteq Node /\ snapshot \subseteq Node /\ locked \subseteq Node
        /\ cancelling \in BOOLEAN
    BY <1>1 DEF Init
  <2> QED BY <2>1, <2>2, <2>3, <2>4, <2>5 DEF TypeOK
<1> QED BY <1>1, TypeStep, PTL DEF Spec

-----------------------------------------------------------------------------
\* Every step either records the end of one Runner that was queued or running,
\* or leaves results and prompts alone.
LEMMA StepKinds ==
    ASSUME TypeOK, [Next]_vars
    PROVE  \/ UNCHANGED <<result, promptHash, hashes>>
           \/ \E n \in Node, outcome \in Outcomes, h \in Hash \cup {NoHash} :
                 /\ runner[n] \in {"queued", "running"}
                 /\ Checkpoint(n, outcome, h)
                 /\ UNCHANGED <<snapshot, locks>>
<1> USE DEF Outcomes, rows, time
<1>1. CASE Tick
  BY <1>1 DEF Tick
<1>2. CASE TakeSnapshot
  BY <1>2 DEF TakeSnapshot
<1>3. ASSUME NEW n \in Node, Activate(n) PROVE UNCHANGED <<result, promptHash, hashes>>
  BY <1>3 DEF Activate
<1>4. ASSUME NEW n \in Node, StartSelected(n) PROVE UNCHANGED <<result, promptHash, hashes>>
  BY <1>4 DEF StartSelected
<1>5. ASSUME NEW n \in Node, CompleteRunner(n) \/ FinishRunner(n) \/ RequestCancel(n)
      PROVE  \/ UNCHANGED <<result, promptHash, hashes>>
             \/ \E outcome \in Outcomes, h \in Hash \cup {NoHash} :
                   /\ runner[n] \in {"queued", "running"}
                   /\ Checkpoint(n, outcome, h)
                   /\ UNCHANGED <<snapshot, locks>>
  <2>1. CASE CompleteRunner(n)
    BY <2>1 DEF CompleteRunner
  <2>2. CASE FinishRunner(n)
    BY <2>2 DEF FinishRunner
  <2>3. CASE RequestCancel(n)
    BY <2>3 DEF RequestCancel
  <2> QED BY <1>5, <2>1, <2>2, <2>3
<1>6. CASE LockRunners \/ CancelCampaign \/ AbortCancel \/ UNCHANGED vars
  BY <1>6 DEF LockRunners, CancelCampaign, AbortCancel, vars
<1> QED BY <1>1, <1>2, <1>3, <1>4, <1>5, <1>6 DEF Next

\* A checkpoint writes the result of its own Runner only.
LEMMA CheckpointWrites ==
    ASSUME TypeOK, NEW n \in Node, NEW outcome \in Outcomes, NEW h \in Hash \cup {NoHash},
           Checkpoint(n, outcome, h)
    PROVE  /\ runner'[n] = outcome /\ result'[n] = outcome /\ promptHash'[n] = h
           /\ lifetime' = lifetime
           /\ \A m \in Node \ {n} : /\ result'[m] = result[m] /\ age'[m] = age[m]
                                    /\ promptHash'[m] = promptHash[m]
                                    /\ runner'[m] \in {runner[m], "cancelled"}
                                    /\ runner'[m] # runner[m] => runner[m] = "queued"
<1> USE DEF TypeOK
<1>1. CASE Settled(n)
  BY <1>1 DEF Checkpoint
<1>2. CASE ~Settled(n) /\ Fails(n, outcome, h)
  BY <1>2 DEF Checkpoint, CancelRest, Queued
<1>3. CASE ~Settled(n) /\ ~Fails(n, outcome, h)
  BY <1>3 DEF Checkpoint
<1> QED BY <1>1, <1>2, <1>3

\* A Runner that has ended keeps its status.
LEMMA EndedStays ==
    ASSUME TypeOK, [Next]_vars, NEW n \in Node, runner[n] \in Outcomes
    PROVE  runner'[n] = runner[n]
<1> USE DEF TypeOK, Outcomes, rows, time
<1>1. CASE Tick \/ TakeSnapshot \/ LockRunners \/ AbortCancel \/ UNCHANGED vars
  BY <1>1 DEF Tick, TakeSnapshot, LockRunners, AbortCancel, vars
<1>2. ASSUME NEW m \in Node, Activate(m) PROVE runner'[n] = runner[n]
  BY <1>2 DEF Activate, Activatable, Open
<1>3. ASSUME NEW m \in Node, StartSelected(m) PROVE runner'[n] = runner[n]
  BY <1>3 DEF StartSelected
<1>4. ASSUME NEW m \in Node, CompleteRunner(m) \/ FinishRunner(m) PROVE runner'[n] = runner[n]
  <2>1. PICK outcome \in Outcomes, h \in Hash \cup {NoHash} : Checkpoint(m, outcome, h)
    BY <1>4 DEF CompleteRunner, FinishRunner
  <2>2. m # n
    BY <1>4 DEF CompleteRunner, FinishRunner
  <2> QED BY <2>1, <2>2, CheckpointWrites
<1>5. ASSUME NEW m \in Node, RequestCancel(m) PROVE runner'[n] = runner[n]
  <2>1. CASE runner[m] = "queued" /\ Checkpoint(m, "cancelled", NoHash)
    BY <2>1, CheckpointWrites
  <2>2. CASE UNCHANGED runner
    BY <2>2
  <2> QED BY <1>5, <2>1, <2>2 DEF RequestCancel
<1>6. CASE CancelCampaign
  BY <1>6 DEF CancelCampaign, Queued
<1> QED BY <1>1, <1>2, <1>3, <1>4, <1>5, <1>6 DEF Next

\* One step keeps: results are recorded once, when the Runner ends.
LEMMA RecordedStep == TypeOK /\ Recorded /\ [Next]_vars => Recorded'
<1> SUFFICES ASSUME TypeOK, Recorded, [Next]_vars, NEW m \in Node, result'[m] # "none"
             PROVE  runner'[m] \in Outcomes
  BY DEF Recorded
<1>1. CASE result[m] # "none"
  BY <1>1, EndedStays DEF Recorded
<1>2. CASE result[m] = "none"
  <2>1. PICK n \in Node, outcome \in Outcomes, h \in Hash \cup {NoHash} :
            Checkpoint(n, outcome, h)
    BY <1>2, StepKinds
  <2> QED BY <1>2, <2>1, CheckpointWrites
<1> QED BY <1>1, <1>2

\* A recorded result and the age of it never go back.
LEMMA ResultsStay ==
    ASSUME TypeOK, Recorded, [Next]_vars, NEW m \in Node, result[m] # "none"
    PROVE  /\ result'[m] = result[m] /\ promptHash'[m] = promptHash[m]
           /\ age'[m] >= age[m]
<1> USE ConstantsAssumption DEF TypeOK
<1>1. runner[m] \notin {"queued", "running"}
  BY DEF Recorded, Outcomes
<1>2. CASE Tick
  BY <1>2 DEF Tick, Older, rows
<1>3. CASE UNCHANGED time /\ UNCHANGED <<result, promptHash, hashes>>
  BY <1>3 DEF time
<1>4. ASSUME NEW n \in Node, NEW outcome \in Outcomes, NEW h \in Hash \cup {NoHash},
             Checkpoint(n, outcome, h), runner[n] \in {"queued", "running"}
      PROVE  result'[m] = result[m] /\ promptHash'[m] = promptHash[m] /\ age'[m] = age[m]
  BY <1>1, <1>4, CheckpointWrites
<1>5. CASE \E n \in Node : CompleteRunner(n) \/ FinishRunner(n) \/ RequestCancel(n)
  <2>1. PICK n \in Node : CompleteRunner(n) \/ FinishRunner(n) \/ RequestCancel(n)
    BY <1>5
  <2>2. CASE CompleteRunner(n)
    BY <1>4, <2>2 DEF CompleteRunner, Outcomes
  <2>3. CASE FinishRunner(n)
    BY <1>4, <2>3 DEF FinishRunner, Outcomes
  <2>4. CASE RequestCancel(n)
    BY <1>3, <1>4, <2>4 DEF RequestCancel, Outcomes
  <2> QED BY <2>1, <2>2, <2>3, <2>4
<1>6. CASE \/ TakeSnapshot \/ LockRunners \/ CancelCampaign \/ AbortCancel
           \/ \E n \in Node : Activate(n) \/ StartSelected(n)
  BY <1>3, <1>6
     DEF TakeSnapshot, LockRunners, CancelCampaign, AbortCancel, Activate, StartSelected, rows
<1>7. CASE UNCHANGED vars
  BY <1>3, <1>7 DEF vars, rows
<1> QED BY <1>2, <1>5, <1>6, <1>7 DEF Next

\* The lifetime of an instance does not go back.
LEMMA LifetimeGrows == ASSUME TypeOK, [Next]_vars PROVE lifetime' >= lifetime
<1> USE ConstantsAssumption DEF TypeOK
<1>1. CASE Tick
  BY <1>1 DEF Tick, Older
<1>2. CASE UNCHANGED lifetime
  BY <1>2
<1>3. ASSUME NEW n \in Node, CompleteRunner(n) \/ FinishRunner(n) \/ RequestCancel(n)
      PROVE  UNCHANGED lifetime
  <2>1. ASSUME NEW outcome, NEW h, Checkpoint(n, outcome, h) PROVE UNCHANGED lifetime
    BY <2>1 DEF Checkpoint
  <2> QED BY <1>3, <2>1 DEF CompleteRunner, FinishRunner, RequestCancel, time
<1>4. CASE \/ TakeSnapshot \/ LockRunners \/ CancelCampaign \/ AbortCancel \/ UNCHANGED vars
           \/ \E n \in Node : Activate(n) \/ StartSelected(n)
  BY <1>2, <1>4
     DEF TakeSnapshot, LockRunners, CancelCampaign, AbortCancel, Activate, StartSelected, vars, time
<1> QED BY <1>1, <1>2, <1>3, <1>4 DEF Next

-----------------------------------------------------------------------------
\* What is right about readiness stays right.
LEMMA ReadyStays ==
    ASSUME TypeOK, Recorded, [Next]_vars, NEW n \in Node, ReadyForever(n)
    PROVE  ReadyForever(n)'
<1> USE ConstantsAssumption
<1>1. lifetime' >= DelayOf[n]
  BY LifetimeGrows, TypeStep DEF ReadyForever, TypeOK
<1>2. ASSUME NEW d \in DependenciesOf[n]
      PROVE  result'[d] = "succeeded" /\ age'[d] >= DelayOf[n]
  <2>1. d \in Node /\ result[d] # "none" /\ age[d] >= DelayOf[n]
    BY <1>2 DEF ReadyForever
  <2>2. result'[d] = result[d] /\ age'[d] >= age[d]
    BY <2>1, ResultsStay
  <2>3. age[d] \in Int /\ age'[d] \in Int /\ DelayOf[n] \in Int
    BY <2>1, TypeStep DEF TypeOK
  <2> QED BY <1>2, <2>1, <2>2, <2>3 DEF ReadyForever
<1> QED BY <1>1, <1>2 DEF ReadyForever

\* A node joins the snapshot only when it is ready, and becomes emitted only
\* out of the snapshot.
LEMMA EmittedFromSnapshot ==
    ASSUME TypeOK, [Next]_vars, NEW n \in Node
    PROVE  /\ n \in snapshot' => n \in snapshot \/ ReadyForever(n)
           /\ node'[n] = "emitted" => node[n] = "emitted" \/ n \in snapshot
<1> USE DEF TypeOK, rows
<1>1. CASE TakeSnapshot
  <2>1. DependenciesDone(n) /\ Due(n) => ReadyForever(n)
    BY DEF DependenciesDone, Due, ReadyForever
  <2> QED BY <1>1, <2>1 DEF TakeSnapshot
<1>2. ASSUME NEW m \in Node, Activate(m)
      PROVE  /\ snapshot' \subseteq snapshot
             /\ node'[n] = "emitted" => node[n] = "emitted" \/ n \in snapshot
  BY <1>2 DEF Activate
<1>3. ASSUME NEW m \in Node, NEW outcome, NEW h, Checkpoint(m, outcome, h)
      PROVE  node'[n] = "emitted" => node[n] = "emitted"
  BY <1>3 DEF Checkpoint, CancelRest
<1>4. ASSUME NEW m \in Node,
             StartSelected(m) \/ CompleteRunner(m) \/ FinishRunner(m) \/ RequestCancel(m)
      PROVE  snapshot' = snapshot /\ (node'[n] = "emitted" => node[n] = "emitted")
  BY <1>3, <1>4 DEF StartSelected, CompleteRunner, FinishRunner, RequestCancel
<1>5. CASE Tick \/ LockRunners \/ CancelCampaign \/ AbortCancel \/ UNCHANGED vars
  BY <1>5 DEF Tick, LockRunners, CancelCampaign, AbortCancel, vars
<1> QED BY <1>1, <1>2, <1>4, <1>5 DEF Next

\* A node is emitted only when its dependencies have succeeded and its delay
\* has passed: activate_node may trust any old snapshot, because readiness is
\* never lost.
THEOREM DependenciesCome == Spec => []DependenciesFirst
<1> DEFINE Inv == Recorded /\ SnapshotIsRight /\ DependenciesFirst
<1>1. Init => Inv
  BY DEF Init, Recorded, SnapshotIsRight, DependenciesFirst
<1>2. TypeOK /\ Inv /\ [Next]_vars => Inv'
  <2> SUFFICES ASSUME TypeOK, Inv, [Next]_vars PROVE Inv'
    OBVIOUS
  <2>1. Recorded'
    BY RecordedStep
  <2>2. SnapshotIsRight'
    <3> SUFFICES ASSUME NEW n \in snapshot' PROVE ReadyForever(n)'
      BY DEF SnapshotIsRight
    <3>1. n \in Node
      BY TypeStep DEF TypeOK
    <3> QED BY <3>1, EmittedFromSnapshot, ReadyStays DEF SnapshotIsRight
  <2>3. DependenciesFirst'
    <3> SUFFICES ASSUME NEW n \in Node, node'[n] = "emitted" PROVE ReadyForever(n)'
      BY DEF DependenciesFirst, ReadyForever
    <3>1. ReadyForever(n)
      BY EmittedFromSnapshot DEF SnapshotIsRight, DependenciesFirst, ReadyForever
    <3> QED BY <3>1, ReadyStays
  <2> QED BY <2>1, <2>2, <2>3
<1> QED BY <1>1, <1>2, InstanceTypes, PTL DEF Spec

-----------------------------------------------------------------------------
\* No step moves an instance that is over.
LEMMA FinalStep == ASSUME Over, [Next]_vars PROVE instance' = instance
<1> USE DEF rows
<1>1. ASSUME NEW n \in Node, NEW outcome, NEW h, Checkpoint(n, outcome, h)
      PROVE  instance' = instance
  BY <1>1 DEF Checkpoint, Settled
<1>2. ASSUME NEW n \in Node, CompleteRunner(n) \/ FinishRunner(n) \/ RequestCancel(n)
      PROVE  instance' = instance
  BY <1>1, <1>2 DEF CompleteRunner, FinishRunner, RequestCancel
<1>3. ASSUME NEW n \in Node, Activate(n) \/ StartSelected(n) PROVE instance' = instance
  BY <1>3 DEF Activate, Activatable, StartSelected
<1>4. CASE Tick \/ TakeSnapshot \/ LockRunners \/ CancelCampaign \/ AbortCancel \/ UNCHANGED vars
  BY <1>4 DEF Tick, TakeSnapshot, LockRunners, CancelCampaign, AbortCancel, vars
<1> QED BY <1>2, <1>3, <1>4 DEF Next

\* Only start_selected makes a Runner run, and it looks at the instance.
LEMMA StartStep ==
    ASSUME TypeOK, [Next]_vars, NEW n \in Node, runner[n] # "running", runner'[n] = "running"
    PROVE  ~Over
<1> USE DEF TypeOK, Outcomes, rows
<1>1. ASSUME NEW m \in Node, NEW outcome \in Outcomes, NEW h \in Hash \cup {NoHash},
             Checkpoint(m, outcome, h)
      PROVE  FALSE
  BY <1>1, CheckpointWrites
<1>2. ASSUME NEW m \in Node, CompleteRunner(m) \/ FinishRunner(m) \/ RequestCancel(m)
      PROVE  FALSE
  BY <1>1, <1>2 DEF CompleteRunner, FinishRunner, RequestCancel
<1>3. ASSUME NEW m \in Node, Activate(m) PROVE FALSE
  BY <1>3 DEF Activate
<1>4. ASSUME NEW m \in Node, StartSelected(m) PROVE ~Over
  BY <1>4 DEF StartSelected, AdmitOrDiscard
<1>5. CASE Tick \/ TakeSnapshot \/ LockRunners \/ AbortCancel \/ UNCHANGED vars
  BY <1>5 DEF Tick, TakeSnapshot, LockRunners, AbortCancel, vars
<1>6. CASE CancelCampaign
  BY <1>6 DEF CancelCampaign
<1> QED BY <1>2, <1>3, <1>4, <1>5, <1>6 DEF Next

-----------------------------------------------------------------------------
\* A checkpoint that ends an instance leaves nothing open in it, and nothing
\* queued when it failed.
LEMMA CheckpointStops ==
    ASSUME TypeOK, FailureStopsTheRest, NEW n \in Node, NEW outcome \in Outcomes,
           NEW h \in Hash \cup {NoHash}, runner[n] \in {"queued", "running"},
           Checkpoint(n, outcome, h)
    PROVE  FailureStopsTheRest'
<1> USE DEF TypeOK, FailureStopsTheRest, Over, Open, Queued, Outcomes
<1>1. CASE Settled(n)
  BY <1>1 DEF Checkpoint
<1>2. CASE ~Settled(n) /\ Fails(n, outcome, h)
  BY <1>2 DEF Checkpoint, CancelRest, NodeStates
<1>3. CASE ~Settled(n) /\ ~Fails(n, outcome, h)
  BY <1>3 DEF Checkpoint, AllSucceeded, Settled
<1> QED BY <1>1, <1>2, <1>3

\* Once an instance is over none of its nodes can be activated, and once it
\* failed none of its Runners is queued.
THEOREM FailureStops == Spec => []FailureStopsTheRest
<1>1. Init => FailureStopsTheRest
  BY DEF Init, FailureStopsTheRest, Over, Queued
<1>2. TypeOK /\ FailureStopsTheRest /\ [Next]_vars => FailureStopsTheRest'
  <2> SUFFICES ASSUME TypeOK, FailureStopsTheRest, [Next]_vars PROVE FailureStopsTheRest'
    OBVIOUS
  <2> USE DEF TypeOK, FailureStopsTheRest, Over, Open, Queued, rows
  <2>1. ASSUME NEW n \in Node, CompleteRunner(n) \/ FinishRunner(n) \/ RequestCancel(n)
        PROVE  FailureStopsTheRest'
    <3>1. CASE \E outcome \in Outcomes, h \in Hash \cup {NoHash} :
                  Checkpoint(n, outcome, h) /\ runner[n] \in {"queued", "running"}
      BY <3>1, CheckpointStops
    <3>2. CASE UNCHANGED <<instance, node, runner>>
      BY <3>2
    <3> QED BY <2>1, <3>1, <3>2 DEF CompleteRunner, FinishRunner, RequestCancel, Outcomes
  <2>2. ASSUME NEW n \in Node, Activate(n) PROVE FailureStopsTheRest'
    BY <2>2 DEF Activate, Activatable
  <2>3. ASSUME NEW n \in Node, StartSelected(n) PROVE FailureStopsTheRest'
    BY <2>3 DEF StartSelected, AdmitOrDiscard
  <2>4. CASE Tick \/ TakeSnapshot \/ LockRunners \/ AbortCancel \/ UNCHANGED vars
    BY <2>4 DEF Tick, TakeSnapshot, LockRunners, AbortCancel, vars
  <2>5. CASE CancelCampaign
    BY <2>5 DEF CancelCampaign
  <2> QED BY <2>1, <2>2, <2>3, <2>4, <2>5 DEF Next
<1> QED BY <1>1, <1>2, InstanceTypes, PTL DEF Spec

-----------------------------------------------------------------------------
\* A step that records no result does not complete an instance, and reopens none.
LEMMA OnlyCheckpointsComplete ==
    ASSUME TypeOK, [Next]_vars,
           ~\E n \in Node, outcome \in Outcomes, h \in Hash \cup {NoHash} :
               Checkpoint(n, outcome, h) /\ runner[n] \in {"queued", "running"}
    PROVE  /\ instance' = "completed" => instance = "completed"
           /\ Over => instance' = instance
           /\ instance' \in {"planned", "active"} => instance \in {"planned", "active"}
           /\ UNCHANGED <<result, promptHash, hashes>>
<1> USE DEF TypeOK, Over, InstanceStates, rows
<1>1. ASSUME NEW n \in Node, CompleteRunner(n) \/ FinishRunner(n) \/ RequestCancel(n)
      PROVE  UNCHANGED <<instance, result, promptHash, hashes>>
  BY <1>1 DEF CompleteRunner, FinishRunner, RequestCancel, Outcomes
<1>2. ASSUME NEW n \in Node, Activate(n) \/ StartSelected(n)
      PROVE  /\ instance' = instance \/ (~Over /\ instance' = "active")
             /\ UNCHANGED <<result, promptHash, hashes>>
  BY <1>2 DEF Activate, Activatable, StartSelected
<1>3. CASE Tick \/ TakeSnapshot \/ LockRunners \/ CancelCampaign \/ AbortCancel \/ UNCHANGED vars
  BY <1>3 DEF Tick, TakeSnapshot, LockRunners, CancelCampaign, AbortCancel, vars
<1> QED BY <1>1, <1>2, <1>3 DEF Next

\* One checkpoint keeps both directions of CompletedMeansAll: the checkpoint that
\* records the last success is the one that completes the instance.
LEMMA CheckpointCompletes ==
    ASSUME TypeOK, Recorded, CompletedMeansAll, NEW n \in Node, NEW outcome \in Outcomes,
           NEW h \in Hash \cup {NoHash}, runner[n] \in {"queued", "running"},
           Checkpoint(n, outcome, h)
    PROVE  CompletedMeansAll'
<1> USE DEF TypeOK, CompletedMeansAll, Over, Settled
<1>1. /\ result'[n] = outcome
      /\ \A m \in Node \ {n} : result'[m] = result[m]
      /\ result[n] = "none"
  BY CheckpointWrites DEF Recorded, Outcomes
<1>2. CASE Settled(n)
  BY <1>1, <1>2 DEF Checkpoint
<1>3. CASE ~Settled(n) /\ Fails(n, outcome, h)
  BY <1>3 DEF Checkpoint
<1>4. CASE ~Settled(n) /\ ~Fails(n, outcome, h)
  <2>1. outcome = "succeeded"
    BY <1>4 DEF Fails
  <2>2. (\A m \in Node \ {n} : result[m] = "succeeded") => AllSucceeded(n)
    BY DEF AllSucceeded, Recorded, Outcomes
  <2> QED BY <1>1, <1>4, <2>1, <2>2 DEF Checkpoint, AllSucceeded
<1> QED BY <1>2, <1>3, <1>4

\* An instance completes exactly with the last of its successes.
THEOREM CompletionIsExact == Spec => []CompletedMeansAll
<1> DEFINE Inv == Recorded /\ CompletedMeansAll
<1>1. Init => Inv
  BY ConstantsAssumption DEF Init, Recorded, CompletedMeansAll
<1>2. TypeOK /\ Inv /\ [Next]_vars => Inv'
  <2> SUFFICES ASSUME TypeOK, Inv, [Next]_vars PROVE Inv'
    OBVIOUS
  <2>1. CASE \E n \in Node, outcome \in Outcomes, h \in Hash \cup {NoHash} :
                Checkpoint(n, outcome, h) /\ runner[n] \in {"queued", "running"}
    BY <2>1, CheckpointCompletes, RecordedStep
  <2>2. CASE ~\E n \in Node, outcome \in Outcomes, h \in Hash \cup {NoHash} :
                Checkpoint(n, outcome, h) /\ runner[n] \in {"queued", "running"}
    <3>1. CompletedMeansAll'
      BY <2>2, OnlyCheckpointsComplete DEF CompletedMeansAll, Over
    <3> QED BY <3>1, RecordedStep
  <2> QED BY <2>1, <2>2
<1> QED BY <1>1, <1>2, InstanceTypes, PTL DEF Spec

-----------------------------------------------------------------------------
\* One checkpoint keeps PromptsAgree: a payload is never sent with two prompts.
LEMMA CheckpointAgrees ==
    ASSUME TypeOK, Recorded, CompletedMeansAll, PromptsAgree, NEW n \in Node,
           NEW outcome \in Outcomes, NEW h \in Hash \cup {NoHash},
           runner[n] \in {"queued", "running"}, Checkpoint(n, outcome, h)
    PROVE  PromptsAgree'
<1> USE ConstantsAssumption DEF TypeOK
<1>1. /\ result'[n] = outcome /\ promptHash'[n] = h
      /\ \A m \in Node \ {n} : result'[m] = result[m] /\ promptHash'[m] = promptHash[m]
  BY CheckpointWrites
<1>2. instance # "completed"
  BY DEF CompletedMeansAll, Recorded, Outcomes
<1>3. CASE Settled(n)
  BY <1>2, <1>3 DEF Checkpoint, Settled, Over, PromptsAgree
<1>4. CASE ~Settled(n) /\ Fails(n, outcome, h)
  BY <1>4 DEF Checkpoint, PromptsAgree
<1>5. CASE ~Settled(n) /\ ~Fails(n, outcome, h)
  <2>1. instance \in {"planned", "active"} /\ ~BadHash(n, h)
    BY <1>5 DEF Settled, Over, InstanceStates, Fails
  <2>2. CASE n \in Batch
    BY <1>1, <1>5, <2>1, <2>2 DEF Checkpoint, PromptsAgree
  <2>3. CASE n \notin Batch
    <3>1. h # NoHash /\ hashes[PayloadOf[n]] \in {NoHash, h}
      BY <2>1, <2>3 DEF BadHash
    <3>2. hashes' = [hashes EXCEPT ![PayloadOf[n]] = h] /\ PayloadOf[n] \in Payload
      BY <1>5, <2>3 DEF Checkpoint
    <3>3. ASSUME NEW m \in Node \ Batch, result'[m] = "succeeded"
          PROVE  promptHash'[m] = hashes'[PayloadOf[m]] /\ promptHash'[m] # NoHash
      <4>1. CASE m = n
        BY <1>1, <3>1, <3>2, <4>1
      <4>2. CASE m # n
        <5>1. promptHash[m] = hashes[PayloadOf[m]] /\ promptHash[m] # NoHash
          BY <1>1, <2>1, <3>3, <4>2 DEF PromptsAgree
        <5> QED BY <1>1, <3>1, <3>2, <3>3, <4>2, <5>1
      <4> QED BY <4>1, <4>2
    <3> QED BY <3>3 DEF PromptsAgree
  <2> QED BY <2>2, <2>3
<1> QED BY <1>3, <1>4, <1>5

\* A completed instance sent one prompt per payload, however its replays ran.
THEOREM OnePromptPerPayload == Spec => []SamePromptPerPayload
<1> DEFINE Inv == Recorded /\ CompletedMeansAll /\ PromptsAgree
<1>1. Init => Inv
  BY ConstantsAssumption DEF Init, Recorded, CompletedMeansAll, PromptsAgree
<1>2. TypeOK /\ Recorded /\ CompletedMeansAll /\ PromptsAgree /\ [Next]_vars => PromptsAgree'
  <2> SUFFICES ASSUME TypeOK, Recorded, CompletedMeansAll, PromptsAgree, [Next]_vars
               PROVE  PromptsAgree'
    OBVIOUS
  <2>1. CASE \E n \in Node, outcome \in Outcomes, h \in Hash \cup {NoHash} :
                Checkpoint(n, outcome, h) /\ runner[n] \in {"queued", "running"}
    BY <2>1, CheckpointAgrees
  <2>2. CASE ~\E n \in Node, outcome \in Outcomes, h \in Hash \cup {NoHash} :
                Checkpoint(n, outcome, h) /\ runner[n] \in {"queued", "running"}
    BY <2>2, OnlyCheckpointsComplete DEF PromptsAgree
  <2> QED BY <2>1, <2>2
<1>3. TypeOK /\ Recorded /\ [Next]_vars => Recorded'
  BY RecordedStep
<1>4. CompletedMeansAll /\ PromptsAgree => SamePromptPerPayload
  BY ConstantsAssumption DEF CompletedMeansAll, PromptsAgree, SamePromptPerPayload
<1> QED BY <1>1, <1>2, <1>3, <1>4, InstanceTypes, CompletionIsExact, PTL DEF Spec

\* A completed instance ran all of its nodes, with one prompt per payload.
THEOREM CompletionSound == Spec => []CompletionIsSound
<1>1. CompletedMeansAll /\ SamePromptPerPayload => CompletionIsSound
  BY DEF CompletionIsSound
<1> QED BY <1>1, CompletionIsExact, OnePromptPerPayload, PTL

\* An instance that is over neither changes nor starts anything: late checkpoints,
\* activations and cancellations leave it, and start_selected discards its Runners.
THEOREM OverForGood == Spec => OverIsOver
<1>1. TypeOK /\ [Next]_vars =>
        [Over => /\ instance' = instance
                 /\ \A n \in Node : runner'[n] = "running" => runner[n] = "running"]_vars
  BY FinalStep, StartStep
<1> QED BY <1>1, InstanceTypes, PTL DEF Spec, OverIsOver
=============================================================================
