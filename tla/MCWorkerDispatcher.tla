------------------------- MODULE MCWorkerDispatcher -------------------------
(* WorkerDispatcher for TLC: two Runners share a child runtime, a third one  *)
(* its parent.                                                               *)
EXTENDS WorkerDispatcher, TLC

CONSTANTS r1, r2, r3, s1, s2, s3, s4, child, parent

MCRunnerOf == [s \in Step |-> IF s \in {s1, s2} THEN r1 ELSE IF s = s3 THEN r2 ELSE r3]
MCRuntimesOf == (r1 :> <<child, parent>>) @@ (r2 :> <<child, parent>>) @@ (r3 :> <<parent>>)
MCLimit == (child :> 1) @@ (parent :> 2)
MCSymmetry == Permutations({s1, s2})
=============================================================================
