--------------------------- MODULE MCMultiAccount ---------------------------
(* Small instances of MultiAccount. *)
EXTENDS MultiAccount, TLC

MCQuantities == {-3, -1, 1}

PostSymmetry == Permutations(PostIds)

=============================================================================
