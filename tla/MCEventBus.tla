----------------------------- MODULE MCEventBus -----------------------------
(* Small instances of EventBus.  Liveness is checked, so no symmetry. *)
EXTENDS EventBus

=============================================================================
