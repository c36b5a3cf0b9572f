\* Two strategies with two versions each, routed in one regime.
SPECIFICATION Spec
CONSTANTS
    Strategies = {s1, s2}
    Versions = {v1, v2}
    Regimes = {trend}
    NoVersion = NoVersion
    NoRoute = NoRoute
SYMMETRY RegistrySymmetry
INVARIANTS
    OneActiveVersion
    BindingsAreCurrent
