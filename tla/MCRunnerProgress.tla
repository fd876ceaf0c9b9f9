-------------------------- MODULE MCRunnerProgress --------------------------
(***************************************************************************)
(* A chain of two steps with a delay, a step with a due time, and a step   *)
(* that joins them after another delay; Runners with a window of two, and  *)
(* serial ones with a cooldown.                                            *)
(***************************************************************************)
EXTENDS RunnerProgress

CONSTANTS a, b, c, d

MCOrder == <<a, b, c, d>>
MCDependencies == a :> {} @@ b :> {a} @@ c :> {} @@ d :> {b, c}
MCDelay == a :> 0 @@ b :> 1 @@ c :> 0 @@ d :> 1
MCDueAt == a :> 0 @@ b :> 0 @@ c :> 2 @@ d :> 0
MCModes == {[window |-> 2, cooldown |-> NoCooldown], [window |-> 1, cooldown |-> 2]}

=============================================================================
