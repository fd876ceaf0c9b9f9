------------------------------- MODULE Mailbox -------------------------------
(***************************************************************************)
(* What the mailbox of a Runner promises: a message is handled only after  *)
(* it was stored, it is never un-handled, and unless the mailbox is closed *)
(* every stored message is eventually handled.                             *)
(***************************************************************************)
CONSTANT Message

VARIABLES stored, handled, closed

mailboxVars == <<stored, handled, closed>>

Init ==
    /\ stored = {}
    /\ handled = {}
    /\ closed = FALSE

Store(m) ==
    /\ m \notin stored
    /\ stored' = stored \cup {m}
    /\ UNCHANGED <<handled, closed>>

\* A batch: some of the stored messages, among them those handled before.
Handle(batch) ==
    /\ handled' = handled \cup batch
    /\ UNCHANGED <<stored, closed>>

Close ==
    /\ closed' = TRUE
    /\ UNCHANGED <<stored, handled>>

Next ==
    \/ \E m \in Message : Store(m)
    \/ \E batch \in SUBSET stored : Handle(batch)
    \/ Close

Safety == Init /\ [][Next]_mailboxVars

Spec ==
    /\ Safety
    /\ \A m \in Message : (m \in stored ~> m \in handled \/ closed)
=============================================================================
