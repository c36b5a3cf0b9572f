-------------------------------- MODULE Oms --------------------------------
(***************************************************************************)
(* The order book that every executor shares (oms/oms.py): a map from      *)
(* client order ids to statuses, "absent" standing for an id that is not a *)
(* key of _orders.  The module has no variables; the modules of the        *)
(* executors own the map and change it with these operators only.          *)
(***************************************************************************)

Terminal == {"FILLED", "CANCELED", "REJECTED"}
Status   == {"absent", "NEW"} \cup Terminal

\* submit: an id seen before keeps its order, a fresh one becomes NEW.
Submit(orders, c) ==
    [orders EXCEPT ![c] = IF @ = "absent" THEN "NEW" ELSE @]

\* _transition raises ValueError unless the order is still NEW.
MayTransition(orders, c) == orders[c] = "NEW"

MutTransition(orders, c, target) == [orders EXCEPT ![c] = "FILLED"]

\* fill, cancel and reject, once _transition has let them through.
Transition(orders, c, target) == [orders EXCEPT ![c] = target]

=============================================================================
