----------------------------- MODULE MessageBus -----------------------------
(***************************************************************************)
(* RunnerMessageBus and MessageReconciler: the mailbox of one Runner.      *)
(*                                                                         *)
(* A message is stored by a transaction and then delivered to a bounded    *)
(* buffer by whoever stored it.  The reconciler reads unacknowledged       *)
(* messages back from the store.  run() receives a batch, applies it,      *)
(* acknowledges it durably and only then drops it from the buffer.  Every  *)
(* await between those steps is an interleaving point.                     *)
(*                                                                         *)
(* The generation counter of the bus is represented by what receive        *)
(* compares: changed says that it moved since receive last read it.        *)
(***************************************************************************)
EXTENDS Integers, FiniteSets

CONSTANTS
    Message,        \* numbered by (created_at, id), the order of recovery
    Capacity,       \* of the buffer
    BatchLimit      \* limit of receive

ASSUME MessageAssumption == Message \subseteq Nat
ASSUME CapacityAssumption == {Capacity, BatchLimit} \subseteq Nat \ {0}

None == -1

VARIABLES
    stored,         \* durable: runner_messages
    receipts,       \* durable: runner_message_receipts
    undelivered,    \* stored, deliver_committed still to come
    buffer,         \* subscription.messages
    recovered,      \* subscription.recovered_ids
    revision,       \* subscription.revision
    subscribed,     \* the subscription exists
    closed,
    changed,        \* _generation # observed_generation
    pc,             \* run() and its receive task
    batch,          \* what run() received and has not dropped yet
    reader,         \* the reconciler: [at, revision, found]
    handled,        \* messages run() has applied: self.results
    times           \* history: how often a message was handed to run()

store == <<stored, receipts>>
vars == <<stored, receipts, undelivered, buffer, recovered, revision, subscribed,
          closed, changed, pc, batch, reader, handled, times>>

\* "looking": receive reads the generation and the buffer; "waiting": it
\* waits, or is about to wait, on the condition; "received": it returned a
\* batch; "applied": run() has applied it; "acknowledged": its receipts are
\* committed; "stopped": run() has ended.
ConsumerStates ==
    {"looking", "waiting", "received", "applied", "acknowledged", "stopped"}
ReaderStates == {"idle", "reading", "recovering"}

\* Rows, buffer, reconciler and consumer keep their types.
TypeOK ==
    /\ stored \subseteq Message
    /\ receipts \subseteq stored
    /\ undelivered \subseteq stored
    /\ buffer \subseteq stored
    /\ Cardinality(buffer) <= Capacity
    /\ recovered \subseteq buffer
    /\ revision \in Nat
    /\ subscribed \in BOOLEAN
    /\ closed \in BOOLEAN
    /\ changed \in BOOLEAN
    /\ pc \in ConsumerStates
    /\ batch \subseteq stored
    /\ reader \in [at : ReaderStates, revision : Nat, found : stored \cup {None}]
    /\ handled \subseteq stored
    /\ times \in [Message -> Nat]

NoPass == [at |-> "idle", revision |-> 0, found |-> None]

Init ==
    /\ stored = {}
    /\ receipts = {}
    /\ undelivered = {}
    /\ buffer = {}
    /\ recovered = {}
    /\ revision = 0
    /\ subscribed = FALSE
    /\ closed = FALSE
    /\ changed = FALSE
    /\ pc = "looking"
    /\ batch = {}
    /\ reader = NoPass
    /\ handled = {}
    /\ times = [m \in Message |-> 0]

-----------------------------------------------------------------------------
(* Publishers: dispatch tasks, timers, run() itself *)

\* The transaction of commit_worker or publish_message.
Store(m) ==
    /\ m \notin stored
    /\ stored' = stored \cup {m}
    /\ undelivered' = undelivered \cup {m}
    /\ UNCHANGED <<receipts, buffer, recovered, revision, subscribed, closed,
                   changed, pc, batch, reader, handled, times>>

\* Room for a message that is not buffered yet.
Fits(m) == subscribed /\ Cardinality(buffer) < Capacity /\ m \notin buffer

\* Variant: the sender delivers again and again.
DeliverAgain(m) ==
    /\ m \in undelivered
    /\ ~closed
    /\ buffer' = IF Fits(m) THEN buffer \cup {m} ELSE buffer
    /\ changed' = TRUE
    /\ UNCHANGED <<stored, receipts, undelivered, recovered, revision, subscribed,
                   closed, pc, batch, reader, handled, times>>

\* deliver_committed: an overflow is left to the reconciler.
Deliver(m) ==
    /\ m \in undelivered
    /\ undelivered' = undelivered \ {m}
    /\ IF closed THEN UNCHANGED <<buffer, changed>>
       ELSE /\ buffer' = IF Fits(m) THEN buffer \cup {m} ELSE buffer
            /\ changed' = TRUE
    /\ UNCHANGED <<stored, receipts, recovered, revision, subscribed, closed,
                   pc, batch, reader, handled, times>>

-----------------------------------------------------------------------------
(* The reconciler *)

\* A pass starts: the mailbox has room, and its revision is noted.
StartPass ==
    /\ reader.at = "idle"
    /\ ~closed
    /\ subscribed
    /\ Cardinality(buffer) < Capacity
    /\ reader' = [at |-> "reading", revision |-> revision, found |-> None]
    /\ UNCHANGED <<store, undelivered, buffer, recovered, revision, subscribed,
                   closed, changed, pc, batch, handled, times>>

Pending == stored \ receipts

\* pending_messages_batch with limit 1: the oldest unacknowledged message.  A
\* failing read ends the pass.
ReadPending ==
    /\ reader.at = "reading"
    /\ \/ \E m \in Pending :
            /\ \A n \in Pending : m <= n
            /\ reader' = [reader EXCEPT !.at = "recovering", !.found = m]
       \/ reader' = NoPass
    /\ UNCHANGED <<store, undelivered, buffer, recovered, revision, subscribed,
                   closed, changed, pc, batch, handled, times>>

\* Variant: the snapshot is used however old it is.
AnyRevision == ~closed /\ subscribed /\ Cardinality(buffer) < Capacity

\* Nothing was acknowledged since the pass started, and there is room.
Fresh ==
    /\ ~closed
    /\ subscribed
    /\ revision = reader.revision
    /\ Cardinality(buffer) < Capacity

\* Variant: receive is notified, but the message is not buffered.
RecoverNotice ==
    /\ reader.at = "recovering"
    /\ reader' = NoPass
    /\ changed' = (changed \/ Fresh)
    /\ UNCHANGED <<store, undelivered, buffer, recovered, revision, subscribed, closed, pc,
                   batch, handled, times>>

\* _recover
Recover ==
    LET m == reader.found IN
    /\ reader.at = "recovering"
    /\ reader' = NoPass
    /\ IF Fresh
       THEN /\ changed' = TRUE
            /\ IF m \in buffer THEN UNCHANGED <<buffer, recovered>>
               ELSE /\ buffer' = buffer \cup {m}
                    /\ recovered' = recovered \cup {m}
       ELSE UNCHANGED <<buffer, recovered, changed>>
    /\ UNCHANGED <<store, undelivered, revision, subscribed, closed, pc, batch,
                   handled, times>>

-----------------------------------------------------------------------------
(* run() *)

\* What receive may return: the buffer, or BatchLimit of its messages (the
\* first ones; which ones does not matter here).
Batches ==
    {b \in SUBSET buffer :
        Cardinality(b) = IF Cardinality(buffer) < BatchLimit
                         THEN Cardinality(buffer) ELSE BatchLimit}

\* receive: subscribes the first time, reads the generation, and returns what
\* is buffered; on a closed bus it raises.
Look ==
    /\ pc = "looking"
    /\ \/ /\ closed
          /\ pc' = "stopped"
          /\ UNCHANGED <<subscribed, changed, batch, times>>
       \/ /\ ~closed
          /\ subscribed' = TRUE
          /\ changed' = FALSE
          /\ \/ /\ buffer = {}
                /\ pc' = "waiting"
                /\ UNCHANGED <<batch, times>>
             \/ /\ buffer # {}
                /\ pc' = "received"
                /\ batch' \in Batches
                /\ times' = [m \in Message |->
                      times[m] + IF m \in batch' THEN 1 ELSE 0]
    /\ UNCHANGED <<store, undelivered, buffer, recovered, revision, closed,
                   reader, handled>>

\* The condition's predicate: the generation moved, also when the bus closes.
WakeUp ==
    /\ pc = "waiting"
    /\ changed
    /\ pc' = "looking"
    /\ UNCHANGED <<store, undelivered, buffer, recovered, revision, subscribed,
                   closed, changed, batch, reader, handled, times>>

\* run() applies the batch: results.setdefault, on_message.
Apply ==
    /\ pc = "received"
    /\ handled' = handled \cup batch
    /\ pc' = "applied"
    /\ UNCHANGED <<store, undelivered, buffer, recovered, revision, subscribed,
                   closed, changed, batch, reader, times>>

\* The transaction of acknowledge_messages.
Acknowledge ==
    /\ pc = "applied"
    /\ receipts' = receipts \cup batch
    /\ pc' = "acknowledged"
    /\ UNCHANGED <<stored, undelivered, buffer, recovered, revision, subscribed,
                   closed, changed, batch, reader, handled, times>>

\* The rest of acknowledge_many: every message moves the revision and leaves
\* the buffer, if the subscription is still there; run() receives again.
Drop ==
    /\ pc = "acknowledged"
    /\ buffer' = buffer \ batch
    /\ revision' = IF subscribed THEN revision + Cardinality(batch) ELSE revision
    /\ recovered' = recovered \ batch
    /\ batch' = {}
    /\ pc' = "looking"
    /\ UNCHANGED <<store, undelivered, subscribed, closed, changed, reader,
                   handled, times>>

\* run() ends: timeout, cancellation, failure or completion.
EndRun ==
    /\ pc # "stopped"
    /\ pc' = "stopped"
    /\ batch' = {}
    /\ UNCHANGED <<store, undelivered, buffer, recovered, revision, subscribed,
                   closed, changed, reader, handled, times>>

\* close, by unregister or because a commit was rejected.
Close ==
    /\ ~closed
    /\ closed' = TRUE
    /\ subscribed' = FALSE
    /\ buffer' = {}
    /\ recovered' = {}
    /\ changed' = TRUE
    /\ UNCHANGED <<store, undelivered, revision, pc, batch, reader, handled, times>>

-----------------------------------------------------------------------------
Consumer == Look \/ WakeUp \/ Apply \/ Acknowledge \/ Drop
Reader == StartPass \/ ReadPending \/ Recover

Next ==
    \/ \E m \in Message : Store(m) \/ Deliver(m)
    \/ Reader
    \/ Consumer
    \/ EndRun
    \/ Close

Spec == Init /\ [][Next]_vars

\* The event loop runs run() and whoever has to deliver; the reconciler starts
\* a pass at least every interval_seconds; a failing read is not permanent.
\* Nothing obliges messages to be stored, run() to end or the bus to be closed.
FairSpec ==
    /\ Spec
    /\ WF_vars(Consumer)
    /\ \A m \in Message : WF_vars(Deliver(m))
    /\ WF_vars(StartPass)
    /\ WF_vars(ReadPending)
    /\ SF_vars(ReadPending /\ reader'.at = "recovering")
    /\ WF_vars(Recover)

-----------------------------------------------------------------------------
(* Properties *)

\* The reconciler never brings an acknowledged message back, whatever is
\* acknowledged while it reads: what it put into the buffer is pending, or
\* about to be dropped by the acknowledgement that just committed.
RecoveredIsPending ==
    \A m \in recovered \cap receipts :
        pc = "stopped" \/ (pc = "acknowledged" /\ m \in batch)

\* receive never waits for a change that already happened.
NoLostWakeup == pc = "waiting" /\ buffer # {} => changed

\* A message reaches run() at most twice: once more only when its own delivery
\* came after the reconciler had recovered it and run() acknowledged it.
AtMostOneRedelivery ==
    \A m \in Message : times[m] <= 1 + (IF m \in undelivered THEN 0 ELSE 1)

\* The strengthening behind AtMostOneRedelivery, while run() goes on: what was
\* never acknowledged and is not being handled was never handed over, and what
\* waits in the buffer was handed over at most once, and then only if its own
\* delivery has taken place since.
HandedOverOnce ==
    /\ pc \in {"looking", "waiting"} => batch = {}
    /\ pc = "acknowledged" => batch \subseteq receipts
    /\ \A m \in Message :
        /\ m \notin stored => times[m] = 0
        /\ pc # "stopped" /\ m \notin receipts \cup batch => times[m] = 0
        /\ pc # "stopped" /\ m \in buffer \ batch =>
                times[m] <= (IF m \in undelivered THEN 0 ELSE 1)

\* The batch of run() stays buffered until its receipts are committed: the
\* reconciler finds it there while it is still pending in the store.
BatchIsBuffered == ~closed => batch \subseteq buffer

\* The buffer is what run() may rely on, as stated above: within its capacity,
\* free of what is done, complete in what is being handled, and announced.
BufferConsistent == TypeOK /\ RecoveredIsPending /\ NoLostWakeup /\ BatchIsBuffered

\* The strengthening behind RecoveredIsPending.  A pass never knows a later
\* revision than the current one, and as long as the revision it noted is
\* current, the message it read is unacknowledged or its acknowledgement has
\* not reached the buffer yet.
ReadsAreCurrent ==
    /\ pc \in {"received", "applied", "acknowledged"} =>
            batch # {} /\ (closed \/ subscribed)
    /\ reader.at # "idle" => reader.revision <= revision
    /\ /\ reader.at = "recovering"
       /\ reader.revision = revision
       /\ ~closed
       /\ reader.found \in receipts
       => pc = "stopped" \/ (pc = "acknowledged" /\ reader.found \in batch)
    /\ RecoveredIsPending

\* The mailbox that run() relies on.
Abstract == INSTANCE Mailbox WITH closed <- closed \/ pc = "stopped"

\* MessageBus implements it: stored messages are handled sooner or later, while
\* run() goes on, although the buffer overflows and deliveries are late.
Delivery == Abstract!Spec
=============================================================================
