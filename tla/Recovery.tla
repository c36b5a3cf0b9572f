------------------------------ MODULE Recovery ------------------------------
(***************************************************************************)
(* execution/recovery.py: after a restart the state is a REST snapshot     *)
(* overlaid with the user stream's events, the latest event winning.  The  *)
(* exchange is what changes with every event; the snapshot shows it at     *)
(* some moment and the stream was listened to from some other on.          *)
(***************************************************************************)
EXTENDS Integers, Sequences, SequencesExt

CONSTANTS Statuses       \* the statuses OrderStatus parses

Kinds == {"position", "order"}

\* An event of an unknown kind or with an unknown status raises.
Supported(event) ==
    /\ event.kind \in Kinds
    /\ event.kind = "order" => event.value \in Statuses

Overlay(state, event) ==
    [state EXCEPT ![event.kind] =
        [key \in DOMAIN @ \cup {event.key} |->
            IF key = event.key THEN event.value ELSE @[key]]]

MutRecoverState(snapshot, events) ==
    FoldRight(LAMBDA e, s : Overlay(s, e), events, snapshot)

RecoverState(snapshot, events) == FoldLeft(Overlay, snapshot, events)

\* The exchange's own state after its first n events.
ExchangeAfter(events, n) ==
    FoldLeft(Overlay, [kind \in Kinds |-> <<>>], SubSeq(events, 1, n))

=============================================================================
