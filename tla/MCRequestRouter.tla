--------------------------- MODULE MCRequestRouter ---------------------------
(* RequestRouter for TLC: three Runners, of which the first has a backlog. *)
EXTENDS RequestRouter, TLC

CONSTANTS r1, r2, r3, q1, q2, q3, q4, q5

MCBacklog ==
    (q1 :> r1) @@ (q2 :> r1) @@ (q3 :> r1) @@ (q4 :> r2) @@ (q5 :> r3)
=============================================================================
