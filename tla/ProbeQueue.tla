----------------------------- MODULE ProbeQueue -----------------------------
(***************************************************************************)
(* The threads of a cache probe (_execute_cache_probe) and the queue they  *)
(* share (DependentPlanQueue).  A family of requests is a prime and the    *)
(* warm repeats after it, sent one after the other, perhaps with a delay   *)
(* in between, and given up when one of them fails.                        *)
(*                                                                         *)
(* Every wait in claim ends after a quarter of a second at the latest, so  *)
(* a waiting thread looks again without being notified.  The clock is      *)
(* reduced to whether the deadline has passed.                             *)
(***************************************************************************)
EXTENDS Integers, FiniteSets, FiniteSetsExt

CONSTANTS
    Families,       \* 1..trials: their places in the shuffled plan
    Repeats,        \* repeats_after_prime
    Slots,          \* the threads
    Idle,           \* a thread at the head of its loop
    Claiming        \* a thread in claim

VARIABLES
    delayed,        \* is there a delay between the requests of a family?
    left,           \* _families: the occurrences not yet released
    ready,          \* _ready
    skipped,        \* _skipped
    inflight,       \* _inflight
    queueClosed,    \* _closed
    timers,         \* the requests whose Timer runs
    slot,           \* the request of each thread
    slotEnded,      \* the threads that have returned
    results,        \* completed: the requests with a result, and its kind
    failed,         \* errors
    late            \* has the deadline passed?

queue == <<left, ready, skipped, inflight, queueClosed, timers>>
vars == <<delayed, queue, slot, slotEnded, results, failed, late>>

Occurrences == 0..Repeats
Plan == Families \X Occurrences
Index(r) == r[1] * (Repeats + 1) + r[2]     \* dispatch_index

Init ==
    /\ delayed \in BOOLEAN
    /\ left = [f \in Families |-> Occurrences \ {0}]
    /\ ready = {<<f, 0>> : f \in Families}
    /\ skipped = {} /\ timers = {}
    /\ inflight = 0
    /\ queueClosed = FALSE
    /\ slot = [t \in Slots |-> Idle]
    /\ slotEnded = {}
    /\ results = {}
    /\ failed = FALSE
    /\ late = FALSE

\* The deadline passes.
Expire ==
    /\ ~late
    /\ late' = TRUE
    /\ UNCHANGED <<delayed, queue, slot, slotEnded, results, failed>>

At(t, place) == slot[t] = place /\ t \notin slotEnded
Waits == ready = {} /\ inflight > 0 /\ ~queueClosed

\* The head of the loop of execute_slot.
Loop(t) ==
    /\ At(t, Idle)
    /\ \/ ~late /\ slot' = [slot EXCEPT ![t] = Claiming] /\ UNCHANGED slotEnded
       \/ late /\ slotEnded' = slotEnded \cup {t} /\ UNCHANGED slot
    /\ UNCHANGED <<delayed, queue, results, failed, late>>

\* claim waits for requests in flight until the deadline, and closes the queue.
GiveUp(t) ==
    /\ At(t, Claiming) /\ Waits /\ late
    /\ queueClosed' = TRUE
    /\ slotEnded' = slotEnded \cup {t}
    /\ UNCHANGED <<delayed, left, ready, skipped, inflight, timers, slot, results, failed, late>>

\* claim finds nothing to wait for.
Leave(t) ==
    /\ At(t, Claiming)
    /\ queueClosed \/ (ready = {} /\ inflight = 0)
    /\ slotEnded' = slotEnded \cup {t}
    /\ UNCHANGED <<delayed, queue, slot, results, failed, late>>

\* claim: the first of the ready requests, even if the deadline has passed
\* since the head of the loop.
Claim(t) ==
    /\ At(t, Claiming) /\ ~queueClosed /\ ready # {}
    /\ LET r == CHOOSE x \in ready : \A y \in ready : Index(x) <= Index(y) IN
        /\ slot' = [slot EXCEPT ![t] = r]
        /\ ready' = ready \ {r}
    /\ inflight' = inflight + 1
    /\ UNCHANGED <<delayed, left, skipped, queueClosed, timers, slotEnded, results, failed, late>>

\* The Timer of a delayed request counts as one in flight.
TimerCount == 1

\* Variant: the last of the requests that are left is taken.
LastLeft(f) == Max(left[f])

\* remaining.pop(0)
FirstLeft(f) == Min(left[f])
Following(f) == <<f, FirstLeft(f)>>

\* The result of a request, and complete: its successor is released or waits
\* for its Timer, the rest of a failed family is skipped.
Complete(t) ==
    LET r == slot[t]
        f == r[1]
        more == left[f] # {}
    IN
    /\ r \in Plan
    /\ slot' = [slot EXCEPT ![t] = Idle]
    /\ \E ok \in BOOLEAN :
        /\ results' = results \cup {<<r, ok>>}
        /\ left' = [left EXCEPT ![f] = IF ~ok \/ ~more THEN {} ELSE @ \ {FirstLeft(f)}]
        /\ ready' = IF ok /\ more /\ ~delayed THEN ready \cup {Following(f)} ELSE ready
        /\ timers' = IF ok /\ more /\ delayed THEN timers \cup {Following(f)} ELSE timers
        /\ inflight' = inflight - 1 + IF ok /\ more /\ delayed THEN TimerCount ELSE 0
        /\ skipped' = IF ok THEN skipped ELSE skipped \cup {<<f, k>> : k \in left[f]}
    /\ UNCHANGED <<delayed, queueClosed, slotEnded, failed, late>>

\* _release, by the Timer.
Release ==
    /\ \E r \in timers :
        /\ timers' = timers \ {r}
        /\ ready' = ready \cup {r}
    /\ inflight' = inflight - TimerCount
    /\ UNCHANGED <<delayed, left, skipped, queueClosed, slot, slotEnded, results, failed, late>>

\* The launcher raises: the queue is closed and the thread ends.
Break(t) ==
    /\ slot[t] \in Plan
    /\ queueClosed' = TRUE
    /\ failed' = TRUE
    /\ slot' = [slot EXCEPT ![t] = Idle]
    /\ slotEnded' = slotEnded \cup {t}
    /\ UNCHANGED <<delayed, left, ready, skipped, inflight, timers, results, late>>

Next ==
    \/ Expire \/ Release
    \/ \E t \in Slots : Loop(t) \/ GiveUp(t) \/ Leave(t) \/ Claim(t) \/ Complete(t) \/ Break(t)

Spec == Init /\ [][Next]_vars

-----------------------------------------------------------------------------
(* Properties.                                                             *)

Sent == {r \in Plan : \E t \in Slots : slot[t] = r} \cup {x[1] : x \in results}
Joined == slotEnded = Slots

\* quality_flags.timed_out, at the end.
TimedOut == late /\ Cardinality(results) < Cardinality(Plan)

\* No request is sent before every earlier one of its family has succeeded, and
\* none is given up in silence: when the threads have ended without an error,
\* each request has a result, is skipped for a failure in its family, or the
\* probe is reported as timed out, although threads leave as soon as they find
\* nothing to do (DependentPlanQueue.claim and complete).
FamiliesInOrder ==
    /\ \A r \in Sent : \A k \in 0..(r[2] - 1) : <<<<r[1], k>>, TRUE>> \in results
    /\ \A r \in skipped : r \notin Sent /\ \E k \in 0..(r[2] - 1) : <<<<r[1], k>>, FALSE>> \in results
    /\ Joined /\ ~failed =>
            \A r \in Plan : r \in skipped \/ r \in {x[1] : x \in results} \/ TimedOut

-----------------------------------------------------------------------------
(* What FamiliesInOrder rests on.                                          *)

Busy == {t \in Slots : slot[t] \in Plan}
Live == ready \cup timers \cup {slot[t] : t \in Busy}

\* A request waits, is delayed or is sent in one place, and no two of a family are.
OnePlace ==
    /\ ready \cap timers = {}
    /\ \A t \in Busy : slot[t] \notin ready \cup timers
    /\ \A t, u \in Busy : slot[t] = slot[u] => t = u
    /\ \A r, s \in Live : r[1] = s[1] => r = s

\* The family of a live request is at that request: those before it succeeded and
\* those after it are left.
FamilyAt ==
    \A r \in Live :
        /\ r \in Plan
        /\ left[r[1]] = (r[2] + 1)..Repeats
        /\ \A k \in 0..(r[2] - 1) : <<<<r[1], k>>, TRUE>> \in results
        /\ \A x \in results : x[1][1] = r[1] => x[1][2] < r[2] /\ x[2] = TRUE

\* Results come once and in order, and what is skipped comes after a failure.
Recorded ==
    /\ results \subseteq Plan \X BOOLEAN
    /\ \A x, y \in results : x[1] = y[1] => x = y
    /\ \A x \in results : \A k \in 0..(x[1][2] - 1) : <<<<x[1][1], k>>, TRUE>> \in results
    /\ skipped \subseteq Plan
    /\ \A r \in skipped : /\ \A x \in results : x[1] # r
                          /\ \E k \in 0..(r[2] - 1) : <<<<r[1], k>>, FALSE>> \in results

\* A family without a live request is settled, unless a thread broke.
Settled ==
    failed \/ \A f \in Families :
        \/ \E r \in Live : r[1] = f
        \/ \A k \in Occurrences : <<f, k>> \in skipped \/ \E x \in results : x[1] = <<f, k>>

\* What is in flight is counted, so that a thread that leaves has seen everything.
Counted ==
    /\ inflight \in Int
    /\ failed \/ inflight = Cardinality(Busy) + Cardinality(timers)
    /\ queueClosed => late \/ failed
    /\ slotEnded # {} => late \/ failed \/ Live = {}

ProbeInvariant ==
    /\ left = [f \in Families |-> left[f]]
    /\ slot = [t \in Slots |-> slot[t]]
    /\ OnePlace /\ FamilyAt /\ Recorded /\ Settled /\ Counted

=============================================================================
