---------------------------- MODULE MCRunnerPlan ----------------------------
(***************************************************************************)
(* A daily plan that skips, in a zone whose second day loses the hour the  *)
(* plan fires at.                                                          *)
(***************************************************************************)
EXTENDS RunnerPlan, TLC

CONSTANT daily

Zone == [t \in 0..Horizon |-> IF t < 4 THEN 0 ELSE 1]

OnePlan ==
    daily :> [startsAt |-> 1, endsAt |-> Never, maxOccurrences |-> 3, grace |-> 2,
              overlap |-> "skip",
              recurrence |-> [kind |-> "calendar", frequency |-> "daily",
                              interval |-> 1, clock |-> 1]]

PlannerSymmetry == Permutations(Planners)

=============================================================================
