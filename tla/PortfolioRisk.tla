---------------------------- MODULE PortfolioRisk ----------------------------
(***************************************************************************)
(* risk/portfolio_engine.py: exposure of all strategies together, the      *)
(* correlation limits and historical value at risk.  Ratios are per cent;  *)
(* a correlation is compared and shown through its square, as the root is  *)
(* no integer, and rounded down.                                           *)
(***************************************************************************)
EXTENDS Ordering, FiniteSetsExt, SequencesExt, Functions

CONSTANTS MaxPairCorr, MaxAvgCorr     \* per cent, at most 100

ValidLimits == MaxPairCorr \in 1..100 /\ MaxAvgCorr \in 1..100

ASSUME CorrelationAssumption == ValidLimits

Abs(n) == IF n < 0 THEN -n ELSE n

Notional(p) == p.qty * p.price

CalculateNetExposure(positions) ==
    LET I == DOMAIN positions
        notional == [i \in I |-> Notional(positions[i])]
        ofStrategy(s) ==
            SumFunction([i \in I |-> IF positions[i].strategy = s THEN notional[i] ELSE 0])
    IN  [perStrategy |-> [s \in {positions[i].strategy : i \in I} |-> ofStrategy(s)],
         net   |-> SumFunction(notional),
         gross |-> SumFunction([i \in I |-> Abs(notional[i])]),
         long  |-> SumFunction([i \in I |-> Max({notional[i], 0})]),
         short |-> SumFunction([i \in I |-> Max({-notional[i], 0})])]

\* n^2 times the covariance of two series of n returns.
Covariance(x, y) ==
    Len(x) * SumFunction([i \in DOMAIN x |-> x[i] * y[i]]) - SumFunction(x) * SumFunction(y)

\* The size of Pearson's correlation; a constant series has none.
AbsCorr(x, y) ==
    IF Covariance(x, x) = 0 \/ Covariance(y, y) = 0 THEN 0
    ELSE Max({c \in 0..100 : c * c * Covariance(x, x) * Covariance(y, y)
                                <= 10000 * Covariance(x, y) * Covariance(x, y)})

\* Approved: no pair and no average beyond its limit.
EvaluateCorrelationRisk(returns) ==
    LET pairs == {p \in (DOMAIN returns) \X (DOMAIN returns) : p[1] < p[2]}
        corr(p) == AbsCorr(returns[p[1]], returns[p[2]])
        breached == {p \in pairs : corr(p) > MaxPairCorr}
    IN  [breached |-> breached,
         approved |-> /\ breached = {}
                      /\ MapThenSumSet(corr, pairs) <= MaxAvgCorr * Cardinality(pairs)]

MutTailCount(n, tailPct, up) == (tailPct * n) \div 100 + 2

\* How many of n scenarios are the tail.  1.0 - confidence is a rounded float:
\* where the share is whole, rounding up makes the tail one longer.
TailCount(n, tailPct, up) ==
    LET share == tailPct * n
        whole == (share % 100) = 0
    IN  Max({1, share \div 100 + (IF whole /\ ~up THEN 0 ELSE 1)})

HistoricalVarCvar(returns, tailPct, up, value) ==
    LET profits == [i \in DOMAIN returns |-> returns[i] * value]
        losses  == [i \in DOMAIN returns |-> -SortedBy(profits, profits)[i]]
        tail    == TailCount(Len(returns), tailPct, up)
    IN  [var |-> losses[tail], tail |-> tail,
         cvarSum |-> SumFunctionOnSet(losses, 1..tail)]     \* cvar times tail

=============================================================================
