------------------------- MODULE MCRunnerLifecycle -------------------------
(* Small instances of RunnerLifecycle for TLC. *)
EXTENDS RunnerLifecycle, TLC

CONSTANTS b1, b2, r1, w1, w2

\* Two Workers of one Runner.
MCOneRunner == w1 :> r1 @@ w2 :> r1

\* A Runner with one Worker.
MCSingle == w1 :> r1

MCSymmetry == Permutations({b1, b2}) \cup Permutations({w1, w2})
=============================================================================
