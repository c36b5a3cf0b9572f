--------------------------- MODULE OrderLifecycle ---------------------------
(***************************************************************************)
(* What the order management system promises, whoever drives it: an order  *)
(* appears once, as NEW, reaches at most one terminal status and keeps it. *)
(* The executors' specifications are shown to implement this one.          *)
(***************************************************************************)
EXTENDS Oms

CONSTANT Cids          \* client order ids

VARIABLE status        \* the status each id has reached

Init == status = [c \in Cids |-> "absent"]

Register(c) ==
    /\ status[c] = "absent"
    /\ status' = [status EXCEPT ![c] = "NEW"]

Settle(c, target) ==
    /\ status[c] = "NEW"
    /\ status' = [status EXCEPT ![c] = target]

Next == \E c \in Cids : Register(c) \/ \E t \in Terminal : Settle(c, t)

Spec == Init /\ [][Next]_status

=============================================================================
