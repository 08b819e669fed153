-------------------------- MODULE AtMostOnceSender --------------------------
(***************************************************************************)
(* What a connection may expect of its sender, whatever threads are behind *)
(* it: a message handed over gets a fresh identifier, the write of a       *)
(* message is attempted at most once, its outcome is reported to the       *)
(* listener exactly when it was attempted, and no write succeeds after the *)
(* stream was closed.  No order between messages is promised.              *)
(***************************************************************************)
EXTENDS Integers, Sequences

VARIABLES
    issued,     \* the last identifier handed out
    pending,    \* identifiers accepted, not yet attempted
    log,        \* outcomes reported to MessageSendListener, in order
    open        \* the output stream can still be written

vars == <<issued, pending, log, open>>

Init ==
    /\ issued = 0
    /\ pending = {}
    /\ log = <<>>
    /\ open = TRUE

Accept ==
    /\ issued' = issued + 1
    /\ pending' = pending \cup {issued + 1}
    /\ UNCHANGED <<log, open>>

Attempt(id, ok) ==
    /\ id \in pending
    /\ ok => open
    /\ pending' = pending \ {id}
    /\ log' = Append(log, [id |-> id, success |-> ok])
    /\ UNCHANGED <<issued, open>>

Close ==
    /\ open
    /\ open' = FALSE
    /\ UNCHANGED <<issued, pending, log>>

Next ==
    \/ Accept
    \/ \E id \in pending, ok \in BOOLEAN : Attempt(id, ok)
    \/ Close

Spec == Init /\ [][Next]_vars
=============================================================================
