--------------------------- MODULE EventDelivery ---------------------------
(***************************************************************************)
(* What a queue-backed bus promises: an event is accepted at most once and *)
(* its handlers run at most once, after it was accepted.                   *)
(***************************************************************************)
EXTENDS Naturals

CONSTANT Events

VARIABLES
    accepted,    \* events the queue has taken
    handled      \* how many times each event was dispatched

vars == <<accepted, handled>>

Init == accepted = {} /\ handled = [e \in Events |-> 0]

Accept(e) ==
    /\ e \notin accepted
    /\ accepted' = accepted \cup {e}
    /\ UNCHANGED handled

Handle(e) ==
    /\ e \in accepted
    /\ handled[e] = 0
    /\ handled' = [handled EXCEPT ![e] = 1]
    /\ UNCHANGED accepted

Next == \E e \in Events : Accept(e) \/ Handle(e)

Spec == Init /\ [][Next]_vars

=============================================================================
