--------------------------- MODULE MCTaskInstance ---------------------------
(***************************************************************************)
(* A request, two parallel requests that replay its payload, one of them   *)
(* after a delay, and a batch that joins the first two.                    *)
(***************************************************************************)
EXTENDS TaskInstance

CONSTANTS first, replay, later, join, prompt

Dependencies ==
    [n \in Node |-> CASE n = first -> {} [] n = join -> {first, replay} [] OTHER -> {first}]
Delays == [n \in Node |-> IF n = later THEN 1 ELSE 0]
Payloads == [n \in Node |-> prompt]

=============================================================================
