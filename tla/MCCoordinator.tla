--------------------------- MODULE MCCoordinator ---------------------------
(***************************************************************************)
(* A Campaign of two rounds, and a task.                                   *)
(***************************************************************************)
EXTENDS Coordinator

CONSTANTS a1, a2, b1, A, B

Campaigns == [r \in Runner |-> IF r = b1 THEN B ELSE A]
Rounds == [r \in Runner |-> CASE r = a1 -> 1 [] r = a2 -> 2 [] OTHER -> 0]

=============================================================================
