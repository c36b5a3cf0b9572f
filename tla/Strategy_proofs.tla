--------------------------- MODULE Strategy_proofs ---------------------------
(* Theorems about the strategy layer: the registry, the manager that weights *)
(* strategies by their returns, the controller that tunes one.  They share   *)
(* no state.                                                                 *)
(*                                                                           *)
(* Of the registry, for any number of strategies, versions and regimes,      *)
(* TypeOK, OneActiveVersion and RoutesRefer are inductive in this order;     *)
(* what bindings name follows from the first two.                            *)
EXTENDS StrategyRegistry, MultiStrategy, AdaptiveController, FiniteSetTheorems, TLAPS

LEMMA InitTypes == Init => TypeOK
  BY DEF Init, TypeOK, Lifecycle, VersionStatus

\* Activating a known version, the step add_version and activate_version share,
\* yields well typed tables.
LEMMA ActivateTypes ==
  ASSUME TypeOK, NEW s \in Strategies, NEW v \in Versions, Activate(s, v)
  PROVE  /\ versions' \in [Strategies -> [Versions -> VersionStatus \cup {"absent"}]]
         /\ activeVersion' \in [Strategies -> Versions \cup {NoVersion}]
<1>1. Activated(s, v) \in [Versions -> VersionStatus \cup {"absent"}]
  BY DEF TypeOK, Activated, VersionStatus
<1> QED BY <1>1 DEF TypeOK, Activate

LEMMA NextTypes == TypeOK /\ [Next]_vars => TypeOK'
<1> SUFFICES ASSUME TypeOK, [Next]_vars PROVE TypeOK'
  OBVIOUS
<1>1. ASSUME NEW s \in Strategies, RegisterStrategy(s) PROVE TypeOK'
  BY <1>1 DEF TypeOK, RegisterStrategy, Lifecycle
<1>2. ASSUME NEW s \in Strategies, NEW target \in Lifecycle, SetLifecycle(s, target)
      PROVE  TypeOK'
  BY <1>2 DEF TypeOK, SetLifecycle
<1>3. ASSUME NEW s \in Strategies, NEW v \in Versions, NEW activate \in BOOLEAN,
             AddVersion(s, v, activate)
      PROVE  TypeOK'
  <2>1. CASE activate
    BY <1>3, <2>1, ActivateTypes DEF TypeOK, AddVersion
  <2>2. CASE ~activate
    BY <1>3, <2>2 DEF TypeOK, AddVersion, VersionStatus
  <2> QED BY <2>1, <2>2
<1>4. ASSUME NEW s \in Strategies, NEW v \in Versions, ActivateVersion(s, v) PROVE TypeOK'
  BY <1>4, ActivateTypes DEF TypeOK, ActivateVersion
<1>5. ASSUME NEW s \in Strategies, NEW v \in Versions, DeprecateVersion(s, v) PROVE TypeOK'
  BY <1>5 DEF TypeOK, DeprecateVersion, ActiveAfterDeprecating, VersionStatus
<1>6. ASSUME NEW r \in Regimes, NEW s \in Strategies, NEW pin \in Versions \cup {NoVersion},
             ConfigureRoute(r, s, pin)
      PROVE  TypeOK'
  BY <1>6 DEF TypeOK, ConfigureRoute
<1>7. ASSUME NEW r \in Regimes, NEW cleared, ClearRoute(r, cleared) PROVE TypeOK'
  BY <1>7 DEF TypeOK, ClearRoute
<1>8. CASE UNCHANGED vars
  BY <1>8 DEF TypeOK, vars
<1> QED BY <1>1, <1>2, <1>3, <1>4, <1>5, <1>6, <1>7, <1>8 DEF Next

\* Every reachable state of the registry is well typed.
THEOREM TypeCorrect == Spec => []TypeOK
<1>1. Init => TypeOK BY InitTypes
<1>2. TypeOK /\ [Next]_vars => TypeOK' BY NextTypes
<1> QED BY <1>1, <1>2, PTL DEF Spec

-----------------------------------------------------------------------------
(* One active version *)

\* What both ways to activate a version establish for its strategy.
LEMMA ActivateKeepsOne ==
  ASSUME TypeOK, OneActiveVersion, NEW s \in Strategies, NEW v \in Versions, Activate(s, v)
  PROVE  OneActiveVersion'
<1> SUFFICES ASSUME NEW t \in Strategies, NEW w \in Versions
             PROVE  versions'[t][w] = "active" <=> activeVersion'[t] = w
  BY DEF OneActiveVersion
<1>1. CASE t = s
  <2>1. versions'[s] = Activated(s, v) /\ activeVersion'[s] = v
    BY DEF Activate, TypeOK
  <2>2. Activated(s, v)[w] = "active" <=> w = v
    BY DEF Activated
  <2> QED BY <1>1, <2>1, <2>2
<1>2. CASE t # s
  BY <1>2 DEF Activate, TypeOK, OneActiveVersion
<1> QED BY <1>1, <1>2

LEMMA NextKeepsOne == TypeOK /\ OneActiveVersion /\ [Next]_vars => OneActiveVersion'
<1> SUFFICES ASSUME TypeOK, OneActiveVersion, [Next]_vars PROVE OneActiveVersion'
  OBVIOUS
<1>1. CASE UNCHANGED <<versions, activeVersion>>
  BY <1>1 DEF OneActiveVersion
<1>2. ASSUME NEW s \in Strategies, NEW v \in Versions, NEW activate \in BOOLEAN,
             AddVersion(s, v, activate)
      PROVE  OneActiveVersion'
  <2>1. CASE activate
    BY <1>2, <2>1, ActivateKeepsOne DEF AddVersion
  <2>2. CASE ~activate
    <3> SUFFICES ASSUME NEW t \in Strategies, NEW w \in Versions
                 PROVE  versions'[t][w] = "active" <=> activeVersion'[t] = w
      BY DEF OneActiveVersion
    <3>1. activeVersion[s] # v
      BY <1>2 DEF AddVersion, Known, OneActiveVersion
    <3> QED BY <1>2, <2>2, <3>1 DEF AddVersion, TypeOK, OneActiveVersion
  <2> QED BY <2>1, <2>2
<1>3. ASSUME NEW s \in Strategies, NEW v \in Versions, ActivateVersion(s, v)
      PROVE  OneActiveVersion'
  BY <1>3, ActivateKeepsOne DEF ActivateVersion
<1>4. ASSUME NEW s \in Strategies, NEW v \in Versions, DeprecateVersion(s, v)
      PROVE  OneActiveVersion'
  <2> SUFFICES ASSUME NEW t \in Strategies, NEW w \in Versions
               PROVE  versions'[t][w] = "active" <=> activeVersion'[t] = w
    BY DEF OneActiveVersion
  <2>1. NoVersion # w BY RegistryAssumption
  <2> QED BY <1>4, <2>1 DEF DeprecateVersion, ActiveAfterDeprecating, TypeOK, OneActiveVersion
<1> QED BY <1>1, <1>2, <1>3, <1>4
        DEF Next, vars, RegisterStrategy, SetLifecycle, ConfigureRoute, ClearRoute

LEMMA InitOne == Init => OneActiveVersion
  BY RegistryAssumption DEF Init, OneActiveVersion

\* The status of the versions and active_version agree, whatever is added,
\* activated and deprecated in whatever order: at most one version is active.
THEOREM OneActive == Spec => []OneActiveVersion
<1>1. Init => TypeOK /\ OneActiveVersion BY InitTypes, InitOne
<1>2. TypeOK /\ OneActiveVersion /\ [Next]_vars => (TypeOK /\ OneActiveVersion)'
  BY NextTypes, NextKeepsOne
<1> QED BY <1>1, <1>2, PTL DEF Spec

\* A binding names the version that is active when it is resolved.
LEMMA BoundIsActive == TypeOK /\ OneActiveVersion => BindingsAreCurrent
<1> SUFFICES ASSUME TypeOK, OneActiveVersion, NEW r \in Regimes, NEW b \in Bindings(r)
             PROVE  b[2] = activeVersion[b[1]]
  BY DEF BindingsAreCurrent
<1>1. PICK t \in Strategies : /\ b = <<t, Routed(r, t)>>
                              /\ routes[r][t] # NoRoute
                              /\ Runnable(t, Routed(r, t))
  BY DEF Bindings
<1>2. Routed(r, t) \in Versions
  BY <1>1 DEF TypeOK, Routed, Runnable
<1> QED BY <1>1, <1>2 DEF OneActiveVersion, Runnable

\* Whatever the routes pin, the strategies handed to the runtime run their one
\* active version.
THEOREM BindingsCurrent == Spec => []BindingsAreCurrent
<1>1. Init => TypeOK /\ OneActiveVersion BY InitTypes, InitOne
<1>2. TypeOK /\ OneActiveVersion /\ [Next]_vars => (TypeOK /\ OneActiveVersion)'
  BY NextTypes, NextKeepsOne
<1>3. TypeOK /\ OneActiveVersion => BindingsAreCurrent BY BoundIsActive
<1> QED BY <1>1, <1>2, <1>3, PTL DEF Spec

-----------------------------------------------------------------------------
(* Retired strategies *)

\* No way leads back from deprecated or archived.
LEMMA RetiredStaysRetired ==
  ASSUME TypeOK, [Next]_vars, NEW s \in Strategies, lifecycle[s] \in {"deprecated", "archived"}
  PROVE  lifecycle'[s] # "active"
<1>1. CASE UNCHANGED lifecycle
  BY <1>1
<1>2. ASSUME NEW t \in Strategies, RegisterStrategy(t) PROVE lifecycle'[s] # "active"
  BY <1>2 DEF RegisterStrategy, TypeOK, Registered
<1>3. ASSUME NEW t \in Strategies, NEW target \in Lifecycle, SetLifecycle(t, target)
      PROVE  lifecycle'[s] # "active"
  BY <1>3 DEF SetLifecycle, Transitions, TypeOK
<1> QED BY <1>1, <1>2, <1>3
        DEF Next, vars, AddVersion, ActivateVersion, DeprecateVersion, ConfigureRoute, ClearRoute

\* A deprecated or archived strategy is bound in no regime after any step, so
\* never again.
THEOREM NeverBoundAgain == Spec => RetiredIsNeverBound
<1>1. TypeOK /\ [Next]_vars =>
        [\A s \in Strategies : lifecycle[s] \in {"deprecated", "archived"} =>
            \A r \in Regimes : \A b \in Bindings(r)' : b[1] # s]_vars
  <2> SUFFICES ASSUME TypeOK, [Next]_vars, NEW s \in Strategies,
                      lifecycle[s] \in {"deprecated", "archived"},
                      NEW r \in Regimes, NEW b \in Bindings(r)'
               PROVE  b[1] # s
    OBVIOUS
  <2>1. PICK t \in Strategies : b = <<t, Routed(r, t)'>> /\ lifecycle'[t] = "active"
    BY DEF Bindings
  <2>2. lifecycle'[s] # "active" BY RetiredStaysRetired
  <2> QED BY <2>1, <2>2
<1>2. Spec => []TypeOK BY TypeCorrect
<1> QED BY <1>1, <1>2, PTL DEF Spec, RetiredIsNeverBound

-----------------------------------------------------------------------------
(* Routes *)

LEMMA NextKeepsRoutes == TypeOK /\ RoutesRefer /\ [Next]_vars => RoutesRefer'
<1> SUFFICES ASSUME TypeOK, RoutesRefer, [Next]_vars,
                    NEW r \in Regimes, NEW s \in Strategies, routes'[r][s] # NoRoute
             PROVE  /\ lifecycle'[s] # "absent"
                    /\ routes'[r][s] # NoVersion => versions'[s][routes'[r][s]] # "absent"
  BY DEF RoutesRefer, Registered, Known
<1>1. lifecycle[s] # "absent" => lifecycle'[s] # "absent"
  BY DEF Next, vars, RegisterStrategy, SetLifecycle, AddVersion, ActivateVersion,
         DeprecateVersion, ConfigureRoute, ClearRoute, TypeOK, Lifecycle
<1>2. \A v \in Versions : versions[s][v] # "absent" => versions'[s][v] # "absent"
  <2> SUFFICES ASSUME NEW v \in Versions, versions[s][v] # "absent"
               PROVE  versions'[s][v] # "absent"
    OBVIOUS
  <2>1. CASE UNCHANGED versions
    BY <2>1
  <2>2. ASSUME NEW t \in Strategies, NEW w \in Versions, Activate(t, w)
        PROVE  versions'[s][v] # "absent"
    <3>1. Activated(t, w)[v] = "absent" => versions[t][v] = "absent" /\ v # w
      BY DEF Activated
    <3> QED BY <2>2, <3>1 DEF Activate, TypeOK
  <2>3. ASSUME NEW t \in Strategies, NEW w \in Versions, NEW activate \in BOOLEAN,
               AddVersion(t, w, activate)
        PROVE  versions'[s][v] # "absent"
    <3>1. CASE activate
      BY <2>2, <2>3, <3>1 DEF AddVersion
    <3>2. CASE ~activate
      BY <2>3, <3>2 DEF AddVersion, TypeOK
    <3> QED BY <3>1, <3>2
  <2>4. ASSUME NEW t \in Strategies, NEW w \in Versions, DeprecateVersion(t, w)
        PROVE  versions'[s][v] # "absent"
    BY <2>4 DEF DeprecateVersion, TypeOK
  <2> QED BY <2>1, <2>2, <2>3, <2>4
          DEF Next, vars, RegisterStrategy, SetLifecycle, ActivateVersion, ConfigureRoute,
              ClearRoute
<1>3. CASE routes'[r][s] = routes[r][s]
  <2>1. Registered(s) /\ (routes[r][s] # NoVersion => Known(s, routes[r][s]))
    BY <1>3 DEF RoutesRefer
  <2>2. routes[r][s] # NoVersion => routes[r][s] \in Versions
    BY <1>3 DEF TypeOK
  <2> QED BY <1>1, <1>2, <1>3, <2>1, <2>2 DEF Registered, Known
<1>4. CASE routes'[r][s] # routes[r][s]
  <2>1. ASSUME NEW q \in Regimes, NEW t \in Strategies, NEW pin \in Versions \cup {NoVersion},
               ConfigureRoute(q, t, pin)
        PROVE  /\ Registered(s) /\ routes'[r][s] = pin
               /\ routes'[r][s] # NoVersion => Known(s, pin)
    BY <1>4, <2>1 DEF ConfigureRoute, MayPin, TypeOK
  <2>2. ASSUME NEW q \in Regimes, NEW cleared, ClearRoute(q, cleared)
        PROVE  routes'[r][s] \in {NoRoute, routes[r][s]}
    BY <2>2 DEF ClearRoute, TypeOK
  <2> QED BY <1>1, <1>2, <1>4, <2>1, <2>2
          DEF Next, vars, RegisterStrategy, SetLifecycle, AddVersion, ActivateVersion,
              DeprecateVersion, Registered, Known
<1> QED BY <1>3, <1>4

\* A route refers to a registered strategy and to a version it has, for ever.
THEOREM RoutesAreSound == Spec => []RoutesRefer
<1>1. Init => TypeOK /\ RoutesRefer
  BY InitTypes DEF Init, RoutesRefer
<1>2. TypeOK /\ RoutesRefer /\ [Next]_vars => (TypeOK /\ RoutesRefer)'
  BY NextTypes, NextKeepsRoutes
<1> QED BY <1>1, <1>2, PTL DEF Spec

-----------------------------------------------------------------------------
(* The manager's series *)

\* All strategies have the same days.
Whole(q) ==
  \E a \in Seq(Nat) : Len(a) <= MaxLen /\ q = [s \in Managed |-> a]

\* Some, but not all, have one day more, or the same number once both are full.
Split(q) ==
  \E S \in SUBSET Managed : \E a, b \in Seq(Nat) :
    /\ S # {} /\ S # Managed
    /\ q = [s \in Managed |-> IF s \in S THEN a ELSE b]
    /\ Len(b) <= MaxLen
    /\ Len(a) = IF Len(b) < MaxLen THEN Len(b) + 1 ELSE MaxLen

\* What the failures so far have left of the series.
SeriesInv(q, h) == /\ h = 0 => Whole(q)
                   /\ h = 1 => Split(q)

ManagerInv == /\ day \in Nat /\ halved \in 0..2
              /\ SeriesInv(series, halved)
              /\ MixedOnlyAfterFailures

\* A deque grows to its length and no further.
LEMMA PushedLen ==
  ASSUME NEW q \in Seq(Nat), NEW e \in Nat, Len(q) <= MaxLen
  PROVE  /\ Pushed(q, e) \in Seq(Nat)
         /\ Len(q) < MaxLen => Len(Pushed(q, e)) = Len(q) + 1
         /\ Len(q) = MaxLen => Len(Pushed(q, e)) = MaxLen
<1>1. Len(q) \in Nat /\ MaxLen \in Nat \ {0}
  BY ManagerAssumption
<1>2. CASE Len(q) < MaxLen
  BY <1>1, <1>2 DEF Pushed
<1>3. CASE Len(q) = MaxLen
  <2>1. q # <<>> BY <1>1, <1>3
  <2>2. Tail(q) \in Seq(Nat) /\ Len(Tail(q)) = Len(q) - 1 BY <2>1
  <2> QED BY <1>1, <1>3, <2>2 DEF Pushed
<1> QED BY <1>1, <1>2, <1>3

\* A report that reaches all strategies, or none, changes nothing in this.
LEMMA WholeReport ==
  ASSUME day \in Nat, NEW h \in 0..2, SeriesInv(series, h)
  PROVE  SeriesInv(Updated(Managed), h) /\ SeriesInv(Updated({}), h)
<1>0. MaxLen \in Nat BY ManagerAssumption
<1>1. ASSUME h = 0 PROVE Whole(Updated(Managed)) /\ Whole(Updated({}))
  <2>1. PICK a \in Seq(Nat) : Len(a) <= MaxLen /\ series = [s \in Managed |-> a]
    BY <1>1 DEF SeriesInv, Whole
  <2>2. Pushed(a, day) \in Seq(Nat) /\ Len(Pushed(a, day)) <= MaxLen
    <3>1. Len(a) < MaxLen \/ Len(a) = MaxLen BY <1>0, <2>1
    <3> QED BY <1>0, <2>1, <3>1, PushedLen
  <2>3. Updated(Managed) = [s \in Managed |-> Pushed(a, day)]
    BY <2>1 DEF Updated
  <2>4. Updated({}) = [s \in Managed |-> a]
    BY <2>1 DEF Updated
  <2> QED BY <2>1, <2>2, <2>3, <2>4 DEF Whole
<1>2. ASSUME h = 1 PROVE Split(Updated(Managed)) /\ Split(Updated({}))
  <2>1. PICK S \in SUBSET Managed, a \in Seq(Nat), b \in Seq(Nat) :
          /\ S # {} /\ S # Managed
          /\ series = [s \in Managed |-> IF s \in S THEN a ELSE b]
          /\ Len(b) <= MaxLen
          /\ Len(a) = IF Len(b) < MaxLen THEN Len(b) + 1 ELSE MaxLen
    BY <1>2 DEF SeriesInv, Split
  <2> DEFINE c == Pushed(a, day)
             d == Pushed(b, day)
  <2>2. Len(a) \in Nat /\ Len(b) \in Nat /\ Len(a) <= MaxLen
    BY <1>0, <2>1
  <2>3. /\ c \in Seq(Nat) /\ d \in Seq(Nat)
        /\ Len(a) < MaxLen => Len(c) = Len(a) + 1
        /\ Len(a) = MaxLen => Len(c) = MaxLen
        /\ Len(b) < MaxLen => Len(d) = Len(b) + 1
        /\ Len(b) = MaxLen => Len(d) = MaxLen
    BY <2>1, <2>2, PushedLen
  <2>4. Updated(Managed) = [s \in Managed |-> IF s \in S THEN c ELSE d]
    BY <2>1 DEF Updated
  <2>5. Updated({}) = [s \in Managed |-> IF s \in S THEN a ELSE b]
    BY <2>1 DEF Updated
  <2> HIDE DEF c, d
  <2>6. /\ Len(d) <= MaxLen
        /\ Len(c) = IF Len(d) < MaxLen THEN Len(d) + 1 ELSE MaxLen
    BY <1>0, <2>1, <2>2, <2>3
  <2>7. Split(Updated(Managed))
    BY <2>1, <2>3, <2>4, <2>6 DEF Split
  <2>8. Split(Updated({}))
    BY <2>1, <2>5 DEF Split
  <2> QED BY <2>7, <2>8
<1> QED BY <1>1, <1>2 DEF SeriesInv

\* The first report that reaches only some of them splits the series.
LEMMA FirstHalf ==
  ASSUME day \in Nat, Whole(series), NEW S \in SUBSET Managed, S # {}, S # Managed
  PROVE  Split(Updated(S))
<1>1. PICK b \in Seq(Nat) : Len(b) <= MaxLen /\ series = [s \in Managed |-> b]
  BY DEF Whole
<1> DEFINE a == Pushed(b, day)
<1>2. Len(b) \in Nat /\ MaxLen \in Nat
  BY <1>1, ManagerAssumption
<1>3. /\ a \in Seq(Nat)
      /\ Len(a) = IF Len(b) < MaxLen THEN Len(b) + 1 ELSE MaxLen
  BY <1>1, <1>2, PushedLen
<1>4. Updated(S) = [s \in Managed |-> IF s \in S THEN a ELSE b]
  BY <1>1 DEF Updated
<1> HIDE DEF a
<1> QED BY <1>1, <1>3, <1>4 DEF Split

\* Series that pass the length test of maybe_rebalance are of one length.
LEMMA OneLength ==
  ASSUME NEW q, \A s \in Managed : Len(q[s]) \in 0..MaxLen, SameLength(q),
         NEW s \in Managed, NEW t \in Managed
  PROVE  Len(q[s]) = Len(q[t])
<1> DEFINE L == {Len(q[r]) : r \in Managed}
<1>1. L \subseteq 0..MaxLen
  OBVIOUS
<1>2. IsFiniteSet(L)
  <2>1. IsFiniteSet(0..MaxLen) BY FS_Interval, ManagerAssumption
  <2> QED BY <1>1, <2>1, FS_Subset
<1>3. Cardinality(L) = 1 BY DEF SameLength
<1>4. PICK x : L = {x}
  <2> HIDE DEF L
  <2> QED BY <1>2, <1>3, FS_Singleton
<1>5. Len(q[s]) \in L /\ Len(q[t]) \in L OBVIOUS
<1> QED BY <1>4, <1>5

\* So new weights rest on the same days, unless reports have failed and, if it
\* was one, the series are full.
LEMMA RebalanceIsAligned ==
  ASSUME NEW q, SeriesInv(q, halved), halved \in 0..2, halved' = halved,
         MixedOnlyAfterFailures, MaybeRebalance(q)
  PROVE  MixedOnlyAfterFailures'
<1>0. MaxLen \in Nat /\ 1 \in Managed
  BY ManagerAssumption DEF Managed
<1>1. CASE weightsFrom' = weightsFrom
  BY <1>1 DEF MixedOnlyAfterFailures, Aligned
<1>2. CASE weightsFrom' = q /\ SameLength(q)
  <2>1. CASE halved = 0
    <3>1. Aligned(q) BY <2>1 DEF SeriesInv, Whole, Aligned
    <3> QED BY <1>2, <3>1 DEF MixedOnlyAfterFailures, Aligned
  <2>2. CASE halved = 1
    <3>1. PICK S \in SUBSET Managed, a \in Seq(Nat), b \in Seq(Nat) :
            /\ S # {} /\ S # Managed
            /\ q = [s \in Managed |-> IF s \in S THEN a ELSE b]
            /\ Len(b) <= MaxLen
            /\ Len(a) = IF Len(b) < MaxLen THEN Len(b) + 1 ELSE MaxLen
      BY <2>2 DEF SeriesInv, Split
    <3>2. PICK s \in S, t \in Managed \ S : TRUE
      BY <3>1
    <3>3. q[s] = a /\ q[t] = b /\ q[1] \in {a, b}
      BY <1>0, <3>1, <3>2
    <3>4. Len(a) \in Nat /\ Len(b) \in Nat /\ Len(a) <= MaxLen
      BY <1>0, <3>1
    <3>5. \A r \in Managed : Len(q[r]) \in 0..MaxLen
      BY <1>0, <3>1, <3>4
    <3>6. Len(a) = Len(b)
      BY <1>2, <3>2, <3>3, <3>5, OneLength
    <3>7. Len(q[1]) = MaxLen
      BY <1>0, <3>1, <3>3, <3>4, <3>6
    <3> QED BY <1>2, <2>2, <3>7 DEF MixedOnlyAfterFailures
  <2>3. CASE halved = 2
    BY <2>3 DEF MixedOnlyAfterFailures
  <2> QED BY <2>1, <2>2, <2>3
<1>3. weightsFrom' = weightsFrom \/ (weightsFrom' = q /\ RebalanceDue(q))
  BY DEF MaybeRebalance
<1>4. RebalanceDue(q) => SameLength(q)
  BY DEF RebalanceDue
<1> QED BY <1>1, <1>2, <1>3, <1>4

LEMMA ManagerInitInv == ManagerInit => ManagerInv
<1> SUFFICES ASSUME ManagerInit PROVE ManagerInv
  OBVIOUS
<1>1. <<>> \in Seq(Nat) /\ Len(<<>>) <= MaxLen
  BY ManagerAssumption
<1>2. series = [s \in Managed |-> <<>>]
  BY DEF ManagerInit
<1>3. Whole(series)
  BY <1>1, <1>2 DEF Whole
<1> QED BY <1>3 DEF ManagerInit, ManagerInv, SeriesInv, MixedOnlyAfterFailures, Aligned

LEMMA ManagerNextInv == ManagerInv /\ [ManagerNext]_managerVars => ManagerInv'
<1> SUFFICES ASSUME ManagerInv, [ManagerNext]_managerVars PROVE ManagerInv'
  OBVIOUS
<1> USE DEF ManagerInv
<1>1. CASE OnBars
  BY <1>1, RebalanceIsAligned DEF OnBars
<1>2. CASE OnBarsWithReturns
  <2>1. SeriesInv(series', halved)
    BY <1>2, WholeReport DEF OnBarsWithReturns
  <2> QED BY <1>2, <2>1, RebalanceIsAligned DEF OnBarsWithReturns
<1>3. CASE OnBarsRaises
  <2>1. PICK S \in (SUBSET Managed) \ {Managed} :
          /\ series' = Updated(S)
          /\ halved' = IF S = {} \/ halved = 2 THEN halved ELSE halved + 1
    BY <1>3 DEF OnBarsRaises
  <2>2. day' \in Nat /\ halved' \in 0..2 /\ halved' >= halved
    BY <1>3, <2>1 DEF OnBarsRaises
  <2>3. SeriesInv(series', halved')
    <3>1. CASE S = {}
      BY <2>1, <3>1, WholeReport
    <3>2. CASE S # {} /\ halved = 0
      <4>1. S \in SUBSET Managed /\ S # {} /\ S # Managed
        BY <2>1, <3>2
      <4>2. Split(Updated(S))
        BY <3>2, <4>1, FirstHalf DEF SeriesInv
      <4>3. halved' = 1
        BY <2>1, <3>2
      <4> QED BY <2>1, <4>2, <4>3 DEF SeriesInv
    <3>3. CASE S # {} /\ halved # 0
      BY <2>1, <3>3 DEF SeriesInv
    <3> QED BY <3>1, <3>2, <3>3
  <2>4. MixedOnlyAfterFailures'
    BY <1>3, <2>2 DEF OnBarsRaises, MixedOnlyAfterFailures, Aligned
  <2> QED BY <2>2, <2>3, <2>4
<1>4. CASE OptimizerRaises
  <2>1. /\ series' \in {series, Updated(Managed)} /\ day' \in Nat
        /\ weightsFrom' = weightsFrom /\ halved' = halved
    BY <1>4 DEF OptimizerRaises
  <2>2. SeriesInv(series', halved)
    BY <2>1, WholeReport
  <2> QED BY <2>1, <2>2 DEF MixedOnlyAfterFailures, Aligned
<1>5. CASE UNCHANGED managerVars
  BY <1>5 DEF managerVars, SeriesInv, MixedOnlyAfterFailures, Aligned
<1> QED BY <1>1, <1>2, <1>3, <1>4, <1>5 DEF ManagerNext

\* In whatever order the returns of a day are reported, and at whichever strategy
\* a report fails: weights rest on returns of the same days as long as no report
\* failed halfway, and after one such failure until the series are full.
THEOREM WeightsAreAligned == ManagerSpec => []MixedOnlyAfterFailures
<1>1. ManagerInit => ManagerInv BY ManagerInitInv
<1>2. ManagerInv /\ [ManagerNext]_managerVars => ManagerInv' BY ManagerNextInv
<1>3. ManagerInv => MixedOnlyAfterFailures BY DEF ManagerInv
<1> QED BY <1>1, <1>2, <1>3, PTL DEF ManagerSpec

-----------------------------------------------------------------------------
(* The controller's tuning *)

ControllerTypeOK ==
  /\ seen \in Nat /\ tuned \in Nat /\ failedAt \in Nat
  /\ leaderboard \in [Scorable -> Int]
  /\ selected \in Candidates
  /\ rewardSum \in [Candidates -> Int]
  /\ rewardCount \in [Candidates -> Nat]

\* The last due event was optimised, or the optimizer raised there, also while no
\* decision shows it.
TunedInv == seen > 0 => tuned >= LastDue(seen) \/ failedAt >= LastDue(seen)

\* What the optimizer skips scores 0, and penalties only lower it.
SkippedInv == \A c \in Candidates \ Scorable : rewardSum[c] <= 0

\* A decision shows the optimisation it rests on until the next step.
DecisionInv == decision # NoDecision => seen > 0 /\ decision.tuned = tuned

ControllerInv ==
  ControllerTypeOK /\ TunedInv /\ SkippedInv /\ DecisionInv /\ DecisionsAreTuned

\* Counting on from n, the remainder grows by one until it wraps.
LEMMA NextRemainder ==
  ASSUME NEW n \in Nat, NEW r \in Nat \ {0}, (n + 1) % r # 0
  PROVE  (n + 1) % r = (n % r) + 1
<1> DEFINE k == (n + 1) \div r  m == (n + 1) % r
<1>1. k \in Int /\ m \in 0..(r - 1) /\ n + 1 = r * k + m
  OBVIOUS
<1>2. m # 0
  OBVIOUS
<1> HIDE DEF k, m
<1>3. m - 1 \in 0..(r - 1) /\ n = r * k + (m - 1)
  BY <1>1, <1>2
<1>4. n % r = m - 1
  BY <1>1, <1>3, Z3
<1> QED BY <1>1, <1>4 DEF m

\* The last due event changes only when an event is due.
LEMMA LastDueMoves ==
  ASSUME NEW n \in Nat
  PROVE  /\ LastDue(n + 1) <= n + 1
         /\ ~Due(n + 1) => n > 0 /\ LastDue(n + 1) = LastDue(n)
<1> DEFINE R == RetuneInterval
<1>1. R \in Nat \ {0} BY ControllerAssumption
<1>2. (n + 1) % R \in Nat /\ n % R \in Nat
  BY <1>1
<1>3. LastDue(n + 1) <= n + 1
  BY <1>1, <1>2 DEF LastDue
<1>4. ASSUME ~Due(n + 1) PROVE n > 0 /\ LastDue(n + 1) = LastDue(n)
  <2>1. n > 0 /\ (n + 1) % R # 0
    BY <1>4 DEF Due
  <2>2. (n + 1) % R = (n % R) + 1
    BY <1>1, <2>1, NextRemainder
  <2>3. R % R = 0
    BY <1>1
  <2>4. n + 1 # R
    BY <2>1, <2>3
  <2> QED BY <1>1, <1>2, <2>1, <2>2, <2>4 DEF LastDue
<1> QED BY <1>3, <1>4

\* The last due event stays covered by an optimisation or a failure.
LEMMA OptimizeKeepsTuned ==
  ASSUME ControllerTypeOK, TunedInv, seen' = seen + 1, failedAt' = failedAt, Optimize(seen')
  PROVE  TunedInv' /\ tuned' \in Nat /\ leaderboard' \in [Scorable -> Int]
<1>1. seen \in Nat /\ seen' \in Nat /\ seen' > 0 BY DEF ControllerTypeOK
<1>2. CASE NeedsOptimization(seen')
  <2>1. tuned' = seen' /\ leaderboard' \in [Scorable -> Int]
    BY <1>2, ControllerAssumption DEF Optimize, Leaderboards
  <2>2. LastDue(seen') <= seen' BY <1>1, LastDueMoves
  <2>3. TunedInv' = (seen' > 0 => tuned' >= LastDue(seen') \/ failedAt' >= LastDue(seen'))
    BY DEF TunedInv, LastDue
  <2>4. LastDue(seen') \in Int BY <1>1, ControllerAssumption DEF LastDue
  <2> QED BY <1>1, <2>1, <2>2, <2>3, <2>4
<1>3. CASE ~NeedsOptimization(seen')
  <2>1. UNCHANGED <<tuned, leaderboard>> BY <1>3 DEF Optimize
  <2>2. ~Due(seen + 1) BY <1>3 DEF NeedsOptimization
  <2>3. seen > 0 /\ LastDue(seen + 1) = LastDue(seen) BY <1>1, <2>2, LastDueMoves
  <2>4. TunedInv' = (seen' > 0 => tuned' >= LastDue(seen') \/ failedAt' >= LastDue(seen'))
    BY DEF TunedInv, LastDue
  <2> QED BY <2>1, <2>3, <2>4 DEF TunedInv, ControllerTypeOK
<1> QED BY <1>2, <1>3

LEMMA ControllerInitInv == AdaptiveInit => ControllerInv
  BY ControllerAssumption
     DEF AdaptiveInit, ControllerInv, ControllerTypeOK, TunedInv, SkippedInv, DecisionInv,
         DecisionsAreTuned

LEMMA FailedKeepsInv ==
  ASSUME ControllerInv, StepFailsToOptimize \/ StepFailsToReward
  PROVE  ControllerInv'
<1>1. decision' = NoDecision /\ UNCHANGED <<selected, rewardSum, rewardCount>>
      /\ seen' = seen + 1 /\ seen' \in Nat
  BY DEF StepFailsToOptimize, StepFailsToReward, ControllerInv, ControllerTypeOK
<1>2. TunedInv' /\ tuned' \in Nat /\ failedAt' \in Nat /\ leaderboard' \in [Scorable -> Int]
  <2>1. CASE StepFailsToOptimize
    <3>1. failedAt' = seen' /\ UNCHANGED <<tuned, leaderboard>>
      BY <2>1 DEF StepFailsToOptimize
    <3>2. LastDue(seen') <= seen' BY <1>1, LastDueMoves DEF ControllerInv, ControllerTypeOK
    <3>3. LastDue(seen') \in Int BY <1>1, ControllerAssumption DEF LastDue
    <3>4. TunedInv' = (seen' > 0 => tuned' >= LastDue(seen') \/ failedAt' >= LastDue(seen'))
      BY DEF TunedInv, LastDue
    <3> QED BY <1>1, <3>1, <3>2, <3>3, <3>4 DEF ControllerInv, ControllerTypeOK
  <2>2. CASE StepFailsToReward
    <3>1. failedAt' = failedAt /\ Optimize(seen')
      BY <2>2 DEF StepFailsToReward
    <3> QED BY <1>1, <3>1, OptimizeKeepsTuned DEF ControllerInv, ControllerTypeOK
  <2> QED BY <2>1, <2>2
<1> QED BY <1>1, <1>2 DEF ControllerInv, ControllerTypeOK, SkippedInv, DecisionInv,
                          DecisionsAreTuned

\* A candidate that has lost on average is chosen only among losers.
LEMMA BestLoser ==
  ASSUME ControllerTypeOK, NEW c \in Best, rewardSum[c] <= 0, NEW d \in Candidates
  PROVE  rewardSum[d] <= 0
<1> DEFINE a == rewardSum[c]  b == rewardSum[d]  p == Plays(c)  q == Plays(d)
<1>1. a \in Int /\ b \in Int /\ p \in Nat \ {0} /\ q \in Nat \ {0}
  BY DEF ControllerTypeOK, Best, Plays
<1>2. a * q >= b * p
  BY DEF Best, NoWorse
<1>3. a <= 0 OBVIOUS
<1> HIDE DEF a, b, p, q
<1>4. a * q <= 0 BY <1>1, <1>3, Z3
<1>5. b > 0 => b * p > 0 BY <1>1, Z3
<1>6. a * q \in Int /\ b * p \in Int BY <1>1
<1>7. b <= 0 BY <1>1, <1>2, <1>4, <1>5, <1>6
<1> QED BY <1>7 DEF b

LEMMA DecidesKeepsInv ==
  ASSUME ControllerInv, StepDecides
  PROVE  ControllerInv'
<1>1. seen' = seen + 1 /\ seen' \in Nat /\ seen' > 0 /\ UNCHANGED failedAt /\ Optimize(seen')
  BY DEF StepDecides, ControllerInv, ControllerTypeOK
<1>2. TunedInv' /\ tuned' \in Nat /\ leaderboard' \in [Scorable -> Int]
  BY <1>1, OptimizeKeepsTuned DEF ControllerInv
<1>3. PICK explored \in {e \in {FALSE, Explores} : e => Due(seen')} :
        \E c \in IF Due(seen') THEN Selectable(explored) ELSE {selected} :
        \E penalty \in Penalties :
          /\ selected' = c
          /\ rewardSum' = [rewardSum EXCEPT ![c] = @ + ScoreOf(leaderboard', c) - penalty]
          /\ rewardCount' = [rewardCount EXCEPT ![c] = @ + 1]
          /\ decision' = [mode |-> IF Due(seen') THEN "retune" ELSE "hold",
                          explored |-> explored, params |-> c, tuned |-> tuned']
  BY DEF StepDecides
<1>4. PICK c \in IF Due(seen') THEN Selectable(explored) ELSE {selected} :
        \E penalty \in Penalties :
          /\ selected' = c
          /\ rewardSum' = [rewardSum EXCEPT ![c] = @ + ScoreOf(leaderboard', c) - penalty]
          /\ rewardCount' = [rewardCount EXCEPT ![c] = @ + 1]
          /\ decision' = [mode |-> IF Due(seen') THEN "retune" ELSE "hold",
                          explored |-> explored, params |-> c, tuned |-> tuned']
  BY <1>3
<1>5. PICK penalty \in Penalties :
        rewardSum' = [rewardSum EXCEPT ![c] = @ + ScoreOf(leaderboard', c) - penalty]
  BY <1>4
<1>6. c \in Candidates
  BY <1>4 DEF Selectable, Best, ControllerInv, ControllerTypeOK
<1>7. penalty \in Nat /\ ScoreOf(leaderboard', c) \in Int
  BY <1>2, ControllerAssumption DEF ScoreOf
<1>8. /\ rewardSum' \in [Candidates -> Int] /\ rewardCount' \in [Candidates -> Nat]
      /\ rewardSum'[c] = rewardSum[c] + ScoreOf(leaderboard', c) - penalty
      /\ \A d \in Candidates \ {c} : rewardSum'[d] = rewardSum[d]
  BY <1>4, <1>5, <1>6, <1>7 DEF ControllerInv, ControllerTypeOK
<1>9. ControllerTypeOK'
  BY <1>1, <1>2, <1>4, <1>6, <1>8 DEF ControllerInv, ControllerTypeOK
<1>10. c \notin Scorable => rewardSum[c] <= 0 /\ rewardSum'[c] <= 0
  <2> SUFFICES ASSUME c \notin Scorable PROVE rewardSum[c] <= 0 /\ rewardSum'[c] <= 0
    OBVIOUS
  <2>1. ScoreOf(leaderboard', c) = 0 BY DEF ScoreOf
  <2>2. rewardSum[c] <= 0 BY <1>6 DEF ControllerInv, SkippedInv
  <2>3. rewardSum[c] \in Int BY <1>6 DEF ControllerInv, ControllerTypeOK
  <2> QED BY <1>7, <1>8, <2>1, <2>2, <2>3
<1>11. SkippedInv'
  BY <1>8, <1>10 DEF ControllerInv, SkippedInv
<1>12. DecisionInv'
  BY <1>1, <1>4 DEF DecisionInv
<1>13. DecisionsAreTuned'
  <2>1. decision' # NoDecision =>
          (decision.tuned >= LastDue(seen) \/ failedAt >= LastDue(seen))'
    BY <1>2, <1>12 DEF TunedInv, DecisionInv, LastDue
  <2>2. ASSUME decision'.mode = "retune", ~decision'.explored, decision'.params \notin Scorable,
               NEW d \in Candidates
        PROVE  rewardSum'[d] <= 0
    <3>1. Due(seen') /\ ~explored /\ c \notin Scorable
      BY <1>4, <2>2
    <3>2. c \in Best
      BY <1>4, <3>1 DEF Selectable
    <3>3. rewardSum[d] <= 0
      BY <1>10, <3>1, <3>2, BestLoser DEF ControllerInv
    <3> QED BY <1>8, <1>10, <3>1, <3>3
  <2> QED BY <2>1, <2>2 DEF DecisionsAreTuned, LastDue
<1> QED BY <1>2, <1>9, <1>11, <1>12, <1>13 DEF ControllerInv

LEMMA ControllerNextInv == ControllerInv /\ [AdaptiveNext]_adaptiveVars => ControllerInv'
<1>1. ASSUME ControllerInv, UNCHANGED adaptiveVars PROVE ControllerInv'
  BY <1>1 DEF adaptiveVars, ControllerInv, ControllerTypeOK, TunedInv, SkippedInv, DecisionInv,
              DecisionsAreTuned, LastDue
<1> QED BY <1>1, FailedKeepsInv, DecidesKeepsInv DEF AdaptiveNext

\* Every decision rests on an optimisation of the last due event, unless the
\* optimizer raised there, for any retune interval and however steps fail; and
\* the bandit exploits parameters no strategy can be built from only while no
\* candidate has gained on average.
THEOREM TuningIsCurrent == AdaptiveSpec => []DecisionsAreTuned
<1>1. AdaptiveInit => ControllerInv BY ControllerInitInv
<1>2. ControllerInv /\ [AdaptiveNext]_adaptiveVars => ControllerInv' BY ControllerNextInv
<1>3. ControllerInv => DecisionsAreTuned BY DEF ControllerInv
<1> QED BY <1>1, <1>2, <1>3, PTL DEF AdaptiveSpec

=============================================================================
