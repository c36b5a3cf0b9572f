---------------------------- MODULE MCUserStream ----------------------------
(* Small instances of UserStream.  Liveness is checked, so no symmetry. *)
EXTENDS UserStream

=============================================================================
