---------------------------- MODULE AtLeastOnce ----------------------------
(***************************************************************************)
(* What the transactional outbox promises to the code that writes an event *)
(* in the same transaction as its Canon change: once the event is          *)
(* published it is owed to its handler until a handler call has returned   *)
(* normally, and only then may it be acknowledged.  A handler may be       *)
(* called again, even after the acknowledgement.                           *)
(***************************************************************************)

CONSTANT Events

VARIABLES
    state,      \* state[e]: "unpublished", "owed", "acked" or "dropped"
    delivered   \* the events whose handler has returned normally at least once

vars == <<state, delivered>>

Init ==
    /\ state = [e \in Events |-> "unpublished"]
    /\ delivered = {}

Publish(e) ==
    /\ state[e] = "unpublished"
    /\ state' = [state EXCEPT ![e] = "owed"]
    /\ UNCHANGED delivered

\* A handler call returns.  A stale worker may still be inside its call when
\* the event was acknowledged or dropped by somebody else.
Deliver(e) ==
    /\ state[e] # "unpublished"
    /\ delivered' = delivered \cup {e}
    /\ UNCHANGED state

Acknowledge(e) ==
    /\ state[e] = "owed"
    /\ e \in delivered
    /\ state' = [state EXCEPT ![e] = "acked"]
    /\ UNCHANGED delivered

\* The project the event belongs to is deleted.
Drop(e) ==
    /\ state[e] # "unpublished"
    /\ state' = [state EXCEPT ![e] = "dropped"]
    /\ UNCHANGED delivered

Next == \E e \in Events : Publish(e) \/ Deliver(e) \/ Acknowledge(e) \/ Drop(e)

Spec == Init /\ [][Next]_vars
=============================================================================
