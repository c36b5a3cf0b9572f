---------------------------- MODULE MultiStrategy ----------------------------
(***************************************************************************)
(* portfolio/multi_strategy.py: strategies run side by side and are        *)
(* weighted by an optimisation over their realised returns, repeated every *)
(* few steps.  A return is named by the day it belongs to; the weights are *)
(* the series they were computed from.                                     *)
(***************************************************************************)
EXTENDS Integers, Sequences, FiniteSets

CONSTANTS NumStrategies,
          MinHistory, RebalanceInterval,
          MaxLen,              \* of a return series: max(2000, 5 MinHistory)
          MaxDay               \* bound on the days, and on stepsSinceRebalance
ASSUME ManagerAssumption ==
    /\ NumStrategies \in Nat /\ NumStrategies >= 2
    /\ MinHistory \in Nat /\ MinHistory >= 2
    /\ RebalanceInterval \in Nat \ {0}
    /\ MaxLen \in Nat /\ MaxLen >= MinHistory

Managed == 1..NumStrategies

VARIABLES day,                 \* whose returns are reported next
          series,              \* _returns: the days in each strategy's deque
          stepsSinceRebalance,
          weightsFrom,         \* the series behind the weights
          validConfig,         \* optimize_strategy_weights accepts its config
          halved               \* history: reports that failed after some strategies
                               \* had got their return, counted up to two
managerVars == <<day, series, stepsSinceRebalance, weightsFrom, validConfig, halved>>

ManagerInit ==
    /\ day = 1
    /\ series = [s \in Managed |-> <<>>]
    /\ stepsSinceRebalance = 0
    /\ weightsFrom = [s \in Managed |-> <<>>]     \* equal weights
    /\ validConfig \in BOOLEAN
    /\ halved = 0

\* A deque of MaxLen drops its oldest entry.
Pushed(q, e) ==
    IF Len(q) < MaxLen THEN Append(q, e) ELSE Append(Tail(q), e)

\* The returns of the day reach the strategies in S.
Updated(S) ==
    [s \in Managed |-> IF s \in S THEN Pushed(series[s], day) ELSE series[s]]

MutSameLength(q) == TRUE

SameLength(q) == Cardinality({Len(q[s]) : s \in Managed}) = 1

RebalanceDue(q) ==
    /\ stepsSinceRebalance + 1 >= RebalanceInterval
    /\ SameLength(q)
    /\ Len(q[1]) >= MinHistory

MaybeRebalance(q) ==
    /\ RebalanceDue(q) => validConfig
    /\ stepsSinceRebalance' = (IF RebalanceDue(q) THEN 0 ELSE stepsSinceRebalance + 1)
    /\ weightsFrom' = (IF RebalanceDue(q) THEN q ELSE weightsFrom)

\* Bars without returns, as before a strategy has any.
OnBars ==
    /\ day <= MaxDay
    /\ day' = day + 1
    /\ MaybeRebalance(series)
    /\ UNCHANGED <<series, validConfig, halved>>

OnBarsWithReturns ==
    /\ day <= MaxDay
    /\ day' = day + 1
    /\ series' = Updated(Managed)
    /\ MaybeRebalance(series')
    /\ UNCHANGED <<validConfig, halved>>

\* A report of other names, or a return that is not finite, raises: those before
\* it, in the order of the caller's mapping, stay.  The caller reports the day
\* again or goes on.
OnBarsRaises ==
    /\ day <= MaxDay
    /\ \E S \in (SUBSET Managed) \ {Managed} :
          /\ series' = Updated(S)
          /\ halved' = IF S = {} \/ halved = 2 THEN halved ELSE halved + 1
    /\ day' \in {day, day + 1}
    /\ UNCHANGED <<stepsSinceRebalance, weightsFrom, validConfig>>

\* The optimizer refuses its config: the step is counted and the returns stay,
\* the weights do too.  It may be the same day again here as well.
OptimizerRaises ==
    /\ day <= MaxDay /\ stepsSinceRebalance < MaxDay
    /\ ~validConfig
    /\ series' \in {series, Updated(Managed)}
    /\ RebalanceDue(series')
    /\ stepsSinceRebalance' = stepsSinceRebalance + 1
    /\ day' \in {day, day + 1}
    /\ UNCHANGED <<weightsFrom, validConfig, halved>>

ManagerNext == OnBars \/ OnBarsWithReturns \/ OnBarsRaises \/ OptimizerRaises

ManagerSpec == ManagerInit /\ [][ManagerNext]_managerVars

-----------------------------------------------------------------------------
Aligned(q) == \A s, t \in Managed : q[s] = q[t]

\* Weights computed from returns of different days take two reports that failed
\* halfway, or one and full series: after one the series differ in length, which
\* stops rebalancing, until the deques are full and have one length again.  A
\* second one, that reached the other strategies, evens the lengths out at once
\* (multi_strategy.py:72-76, 118-124).
MixedOnlyAfterFailures ==
    ~Aligned(weightsFrom) =>
        \/ halved = 2
        \/ halved = 1 /\ Len(weightsFrom[1]) = MaxLen

=============================================================================
