--------------------------- MODULE MCLiveTrading ---------------------------
(* Small instances of LiveTrading: exchange orders are interchangeable. *)
EXTENDS LiveTrading, TLC

PostSymmetry == Permutations(PostIds)
BothSymmetry == Permutations(PostIds) \cup Permutations(Cids)

=============================================================================
