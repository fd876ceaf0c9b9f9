---------------------------- MODULE RequestRouter ----------------------------
(***************************************************************************)
(* RequestRouter: the Ray actor that gives the slots of the request actors *)
(* to the waiting requests of Runners, one Runner after the other.         *)
(*                                                                         *)
(* The router runs on one event loop and holds its condition's lock        *)
(* between two awaits, so an action is what a coroutine does from taking   *)
(* the lock to condition.wait() or to the end of the block.  A waiting     *)
(* coroutine is "asleep" until notify_all and then "awake": it runs again  *)
(* later, in any order, and has to find out for itself what changed.       *)
(***************************************************************************)
EXTENDS Integers, Sequences, FiniteSets, SequencesExt

CONSTANTS
    Runner,
    Request,        \* callers of execute, each with one call at a time
    RunnerOf,       \* the Runner each calls for
    Actors,         \* number of request actors
    Limit,          \* requests_per_actor
    MaxRequests,    \* max_requests of the performance guard
    MaxPending

Actor == 1..Actors

ASSUME RunnerOfAssumption == RunnerOf \in [Request -> Runner]
ASSUME PositiveAssumption ==
    {Actors, Limit, MaxRequests, MaxPending} \subseteq Nat \ {0}

VARIABLES
    pc,             \* where the call of each caller is
    slot,           \* the request actor of an executing call, else 0
    queues,         \* per Runner, its waiting calls; absent is empty
    order,          \* the Runners in turn
    busy,           \* slots taken per request actor
    cancelled,      \* Runners cancelled
    passed          \* history: grants to s while r was waiting

vars == <<pc, slot, queues, order, busy, cancelled, passed>>

\* "idle": before a call, or after one that returned or was refused.
States == {"idle", "asleep", "awake", "executing"}

\* Queues, turns, slots and the states of calls keep their types.
TypeOK ==
    /\ pc \in [Request -> States]
    /\ slot \in [Request -> Actor \cup {0}]
    /\ queues \in [Runner -> Seq(Request)]
    /\ order \in Seq(Runner)
    /\ busy \in [Actor -> 0..Limit]
    /\ cancelled \subseteq Runner
    /\ passed \in [Runner -> [Runner -> Nat]]

Init ==
    /\ pc = [q \in Request |-> "idle"]
    /\ slot = [q \in Request |-> 0]
    /\ queues = [r \in Runner |-> <<>>]
    /\ order = <<>>
    /\ busy = [a \in Actor |-> 0]
    /\ cancelled = {}
    /\ passed = [r \in Runner |-> [s \in Runner |-> 0]]

-----------------------------------------------------------------------------
Waiting == {q \in Request : pc[q] \in {"asleep", "awake"}}
Executing == {q \in Request : pc[q] = "executing"}
Pending == SumFunction([r \in Runner |-> Len(queues[r])])

\* sum(self.busy): the slots of all request actors that are taken, counted.
BusySlots == Cardinality({x \in Actor \X (1..Limit) : x[2] <= busy[x[1]]})

Capacity == IF MaxRequests < Actors * Limit THEN MaxRequests ELSE Actors * Limit

\* The least busy request actor, the first of them.
Candidate == CHOOSE a \in Actor :
    \A c \in Actor : busy[a] < busy[c] \/ (busy[a] = busy[c] /\ a <= c)

SlotFree == busy[Candidate] < Limit /\ BusySlots < Capacity

\* condition.notify_all, while the call q goes on to p.
NotifyAll(q, p) ==
    pc' = [c \in Request |->
              IF c = q THEN p ELSE IF pc[c] = "asleep" THEN "awake" ELSE pc[c]]

\* Variant: the Runner just served stays at the head.
KeepTurn(ord) == ord

\* order.rotate(-1)
Rotate(ord) == Tail(ord) \o <<Head(ord)>>

\* What the history notes when queues become qs and granted, a set of at most
\* one Runner, got a slot.
Passed(qs, granted) ==
    [r \in Runner |-> [s \in Runner |->
        IF qs[r] = <<>> \/ r \in granted THEN 0
        ELSE passed[r][s] + IF s \in granted THEN 1 ELSE 0]]

\* The finally block of the wait: _remove, then notify_all.
Leave(q, p, qs, ord, granted) ==
    LET r == RunnerOf[q]
        left == [qs EXCEPT ![r] = RemoveFirst(@, q)]
    IN
    /\ queues' = left
    /\ order' = IF left[r] = <<>> THEN RemoveFirst(ord, r) ELSE ord
    /\ NotifyAll(q, p)
    /\ passed' = Passed(left, granted)

\* One turn of the while loop of execute, on the queues and the order that q
\* finds: refused, granted a slot, or asleep.
Turn(q, qs, ord) ==
    LET r == RunnerOf[q]
        next == Head(ord) = r /\ Head(qs[r]) = q /\ SlotFree
    IN
    \/ /\ r \in cancelled
       /\ Leave(q, "idle", qs, ord, {})
       /\ UNCHANGED <<slot, busy>>
    \/ /\ r \notin cancelled
       /\ next
       /\ slot' = [slot EXCEPT ![q] = Candidate]
       /\ busy' = [busy EXCEPT ![Candidate] = @ + 1]
       /\ Leave(q, "executing", qs, Rotate(ord), {r})
    \/ /\ r \notin cancelled
       /\ ~next
       /\ pc' = [pc EXCEPT ![q] = "asleep"]
       /\ queues' = qs
       /\ order' = ord
       /\ UNCHANGED <<slot, busy, passed>>

-----------------------------------------------------------------------------
\* Variant: the newest call of a Runner goes first.
EnterInFront(q) ==
    LET r == RunnerOf[q] IN
    /\ pc[q] = "idle"
    /\ Pending < MaxPending
    /\ Turn(q, [queues EXCEPT ![r] = <<q>> \o @],
               IF queues[r] = <<>> THEN Append(order, r) ELSE order)
    /\ UNCHANGED cancelled

\* execute is called: refused at max_pending, else queued behind the calls of
\* its Runner.
Enter(q) ==
    LET r == RunnerOf[q] IN
    /\ pc[q] = "idle"
    /\ \/ /\ Pending >= MaxPending
          /\ UNCHANGED <<pc, slot, queues, order, busy, passed>>
       \/ /\ Pending < MaxPending
          /\ Turn(q, [queues EXCEPT ![r] = Append(@, q)],
                     IF queues[r] = <<>> THEN Append(order, r) ELSE order)
    /\ UNCHANGED cancelled

\* A notified call takes the lock again and looks.
Recheck(q) ==
    /\ pc[q] = "awake"
    /\ Turn(q, queues, order)
    /\ UNCHANGED cancelled

\* The request actor answered or died: the slot is free.
Finish(q) ==
    /\ pc[q] = "executing"
    /\ busy' = [busy EXCEPT ![slot[q]] = @ - 1]
    /\ slot' = [slot EXCEPT ![q] = 0]
    /\ NotifyAll(q, "idle")
    /\ UNCHANGED <<queues, order, cancelled, passed>>

\* cancel(runner_id)
Cancel(r) ==
    /\ cancelled' = cancelled \cup {r}
    /\ pc' = [c \in Request |-> IF pc[c] = "asleep" THEN "awake" ELSE pc[c]]
    /\ UNCHANGED <<slot, queues, order, busy, passed>>

Next ==
    \/ \E q \in Request : Enter(q) \/ Recheck(q) \/ Finish(q)
    \/ \E r \in Runner : Cancel(r)

Spec == Init /\ [][Next]_vars

\* The event loop runs every runnable coroutine, and a Provider call ends: the
\* client has a timeout.  Only Recheck takes a call out of "awake" and it always
\* does, so weak fairness of Recheck(q) is that q is not awake for ever, a form that
\* spares TLC its ENABLED.
FairSpec ==
    /\ Spec
    /\ \A q \in Request : []<>(pc[q] # "awake") /\ WF_vars(Finish(q))

-----------------------------------------------------------------------------
(* Properties *)

\* The turns are exactly the Runners with a waiting call, each once, and the
\* queues hold exactly the waiting calls: a stale head would stop the router.
TurnsAreWaiting ==
    /\ IsInjective(order)
    /\ ToSet(order) = {r \in Runner : queues[r] # <<>>}
    /\ \A r \in Runner :
        /\ IsInjective(queues[r])
        /\ ToSet(queues[r]) = {q \in Waiting : RunnerOf[q] = r}

\* The books agree with the physical executions: an actor is charged for
\* exactly the calls it executes, never beyond its limit or the guard's.
SlotAccounting ==
    /\ \A a \in Actor :
         /\ busy[a] = Cardinality({q \in Executing : slot[q] = a})
         /\ busy[a] <= Limit
    /\ BusySlots <= MaxRequests

\* Whoever could go on has been told: the head of the turn when a slot is free,
\* and every waiting call of a cancelled Runner.
NoLostWakeup ==
    /\ order # <<>> /\ SlotFree => pc[Head(queues[Head(order)])] = "awake"
    /\ \A q \in Waiting : RunnerOf[q] \in cancelled => pc[q] = "awake"

\* While a Runner waits, no other Runner is served twice: a large backlog does
\* not outrank other Runners (limitations.md, "one Worker per nonempty queue
\* per turn").
OneGrantPerTurn == \A r, s \in Runner : passed[r][s] <= 1

\* The router is consistent and fair: its turns, its slots, whom it has woken and
\* whom it has served, as stated above.
RouterInvariant ==
    TypeOK /\ TurnsAreWaiting /\ SlotAccounting /\ NoLostWakeup /\ OneGrantPerTurn

\* What RouterInvariant rests on.  A Runner served while another waits stands
\* behind it in the turns; nothing is noted of a Runner that does not wait; and
\* the executing calls, finitely many, are those with a request actor.
ServedStandBehind ==
    /\ \A i, j \in DOMAIN order : passed[order[i]][order[j]] # 0 => i < j
    /\ \A r, s \in Runner : queues[r] = <<>> => passed[r][s] = 0
    /\ \A q \in Request : pc[q] = "executing" <=> slot[q] # 0
    /\ IsFiniteSet(Executing)

\* A waiting call is eventually executed or refused.
WaitingEnds == \A q \in Request : q \in Waiting ~> q \notin Waiting
=============================================================================
