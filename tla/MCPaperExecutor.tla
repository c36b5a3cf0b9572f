-------------------------- MODULE MCPaperExecutor --------------------------
(* Two prefixes, each used up to twice, on a position of up to two lots.    *)
(* Prices are multiples of a tick that the averages of up to six lots divide. *)
EXTENDS PaperExecutor, TLC
Perms == Permutations(Prefixes)
MCTargets == {-1, 0, 1, 2}
MCPrices == {2 * 43200, 3 * 43200}
=============================================================================
