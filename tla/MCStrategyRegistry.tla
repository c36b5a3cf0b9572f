------------------------- MODULE MCStrategyRegistry -------------------------
(* Small instances of StrategyRegistry: ids and versions are symmetric. *)
EXTENDS StrategyRegistry, TLC

RegistrySymmetry == Permutations(Strategies) \cup Permutations(Versions)

=============================================================================
