-------------------------- MODULE StrategyRegistry --------------------------
(***************************************************************************)
(* StrategyRegistry (strategy/registry.py): the lifecycle of strategies,   *)
(* the status of their versions, and the regime routes that                *)
(* resolve_regime_bindings turns into the strategies to run.  A call that  *)
(* raises changes nothing and is no step.  Weights, names, changelogs and  *)
(* feature dependencies, which no decision here reads, are left out.       *)
(***************************************************************************)

CONSTANTS
    Strategies,     \* strategy ids
    Versions,       \* version strings
    Regimes,
    NoVersion,      \* active_version is None; a route that pins no version
    NoRoute         \* a strategy without a route in a regime

ASSUME RegistryAssumption ==
    /\ NoVersion \notin Versions
    /\ NoRoute \notin Versions \cup {NoVersion}

VARIABLES
    lifecycle,      \* of each strategy, "absent" before register_strategy
    versions,       \* the status of each version of each strategy
    activeVersion,  \* active_version of each strategy
    routes          \* _regime_routes: the version each route pins

vars == <<lifecycle, versions, activeVersion, routes>>

Lifecycle     == {"draft", "active", "paused", "deprecated", "archived"}
VersionStatus == {"draft", "active", "deprecated"}

TypeOK ==
    /\ lifecycle \in [Strategies -> Lifecycle \cup {"absent"}]
    /\ versions \in [Strategies -> [Versions -> VersionStatus \cup {"absent"}]]
    /\ activeVersion \in [Strategies -> Versions \cup {NoVersion}]
    /\ routes \in [Regimes -> [Strategies -> Versions \cup {NoVersion, NoRoute}]]

Init ==
    /\ lifecycle = [s \in Strategies |-> "absent"]
    /\ versions = [s \in Strategies |-> [v \in Versions |-> "absent"]]
    /\ activeVersion = [s \in Strategies |-> NoVersion]
    /\ routes = [r \in Regimes |-> [s \in Strategies |-> NoRoute]]

Registered(s) == lifecycle[s] # "absent"
Known(s, v)   == versions[s][v] # "absent"

-----------------------------------------------------------------------------
(* Strategies *)

RegisterStrategy(s) ==
    /\ ~Registered(s)
    /\ lifecycle' = [lifecycle EXCEPT ![s] = "draft"]
    /\ UNCHANGED <<versions, activeVersion, routes>>

\* _LIFECYCLE_TRANSITIONS
Transitions(from) ==
    CASE from = "draft"      -> {"active", "archived"}
      [] from = "active"     -> {"paused", "deprecated"}
      [] from = "paused"     -> {"active", "deprecated"}
      [] from = "deprecated" -> {"archived"}
      [] OTHER               -> {}

SetLifecycle(s, target) ==
    /\ target \in Transitions(lifecycle[s])
    /\ target = "active" => activeVersion[s] # NoVersion
    /\ lifecycle' = [lifecycle EXCEPT ![s] = target]
    /\ UNCHANGED <<versions, activeVersion, routes>>

-----------------------------------------------------------------------------
(* Versions *)

\* activate_version: every other active version is deprecated.
Activated(s, v) ==
    [w \in Versions |-> IF w = v THEN "active"
                        ELSE IF versions[s][w] = "active" THEN "deprecated"
                        ELSE versions[s][w]]

Activate(s, v) ==
    /\ versions' = [versions EXCEPT ![s] = Activated(s, v)]
    /\ activeVersion' = [activeVersion EXCEPT ![s] = v]

\* add_version, which activates the new version when asked to.
AddVersion(s, v, activate) ==
    /\ Registered(s)
    /\ ~Known(s, v)
    /\ IF activate
       THEN Activate(s, v)
       ELSE /\ versions' = [versions EXCEPT ![s][v] = "draft"]
            /\ UNCHANGED activeVersion
    /\ UNCHANGED <<lifecycle, routes>>

ActivateVersion(s, v) ==
    /\ Registered(s)
    /\ Known(s, v)
    /\ Activate(s, v)
    /\ UNCHANGED <<lifecycle, routes>>

MutActiveAfterDeprecating(s, v) == activeVersion[s]
ActiveAfterDeprecating(s, v) == IF activeVersion[s] = v THEN NoVersion ELSE activeVersion[s]

DeprecateVersion(s, v) ==
    /\ Registered(s)
    /\ Known(s, v)
    /\ versions' = [versions EXCEPT ![s][v] = "deprecated"]
    /\ activeVersion' = [activeVersion EXCEPT ![s] = ActiveAfterDeprecating(s, v)]
    /\ UNCHANGED <<lifecycle, routes>>

-----------------------------------------------------------------------------
(* Regime routes *)

MayPin(s, pin) == Registered(s) /\ (pin # NoVersion => Known(s, pin))

ConfigureRoute(r, s, pin) ==
    /\ MayPin(s, pin)
    /\ routes' = [routes EXCEPT ![r][s] = pin]
    /\ UNCHANGED <<lifecycle, versions, activeVersion>>

\* clear_regime_route, of one strategy or of the whole regime.
ClearRoute(r, cleared) ==
    /\ routes' = [routes EXCEPT ![r] = [s \in Strategies |-> IF s \in cleared THEN NoRoute
                                                             ELSE @[s]]]
    /\ UNCHANGED <<lifecycle, versions, activeVersion>>

\* The version a route stands for: the pinned one, else the active one.
Routed(r, s) == IF routes[r][s] = NoVersion THEN activeVersion[s] ELSE routes[r][s]

\* A route that trusts the version it pins.
MutRunnable(s, v) == v # NoVersion
Runnable(s, v) == v # NoVersion /\ versions[s][v] = "active"

\* resolve_regime_bindings(r), only_active
Bindings(r) ==
    {<<s, Routed(r, s)>> : s \in {t \in Strategies : /\ routes[r][t] # NoRoute
                                                     /\ lifecycle[t] = "active"
                                                     /\ Runnable(t, Routed(r, t))}}

-----------------------------------------------------------------------------
Next ==
    \/ \E s \in Strategies :
          \/ RegisterStrategy(s)
          \/ \E target \in Lifecycle : SetLifecycle(s, target)
          \/ \E v \in Versions : \/ \E activate \in BOOLEAN : AddVersion(s, v, activate)
                                 \/ ActivateVersion(s, v)
                                 \/ DeprecateVersion(s, v)
    \/ \E r \in Regimes :
          \/ \E s \in Strategies, pin \in Versions \cup {NoVersion} : ConfigureRoute(r, s, pin)
          \/ \E cleared \in {Strategies} \cup {{s} : s \in Strategies} : ClearRoute(r, cleared)

Spec == Init /\ [][Next]_vars

-----------------------------------------------------------------------------
(* Properties *)

\* The status of the versions and active_version, kept apart by three operations,
\* tell the same story: at most one version is active, the remembered one.
OneActiveVersion ==
    \A s \in Strategies, v \in Versions : versions[s][v] = "active" <=> activeVersion[s] = v

\* Whatever a route pins, and whatever has happened to the version since, a binding
\* handed to the runtime names the one version that is active now.
BindingsAreCurrent == \A r \in Regimes : \A b \in Bindings(r) : b[2] = activeVersion[b[1]]

\* A route never outlives what it refers to: its strategy is registered and the
\* version it pins exists, so resolve_regime_bindings never meets a stranger.
RoutesRefer ==
    \A r \in Regimes, s \in Strategies : routes[r][s] # NoRoute =>
        /\ Registered(s)
        /\ routes[r][s] # NoVersion => Known(s, routes[r][s])

\* Once deprecated or archived a strategy is never bound again, in any regime and
\* whatever versions or routes it is given.
RetiredIsNeverBound ==
    [][\A s \in Strategies : lifecycle[s] \in {"deprecated", "archived"} =>
          \A r \in Regimes : \A b \in Bindings(r)' : b[1] # s]_vars

=============================================================================
