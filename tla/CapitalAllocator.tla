-------------------------- MODULE CapitalAllocator --------------------------
(***************************************************************************)
(* portfolio/capital_allocator.py in integers: a weight is a part of       *)
(* Whole, a score and its components are parts of One, quotients are       *)
(* rounded down.                                                           *)
(***************************************************************************)
EXTENDS Ordering, FiniteSetsExt, SequencesExt, Functions

CONSTANTS Whole, MinWeight, MaxWeight, Passes,
          ReservePct, MaxDrawdown, TargetVolatility, CostBudget,
          FactorWeights     \* of the five components, in their order

One == 1000

\* What the constructor of the configuration accepts.
ValidConfig ==
    /\ ReservePct \in 0..99
    /\ MaxDrawdown > 0 /\ TargetVolatility > 0 /\ CostBudget > 0
    /\ 0 <= MinWeight /\ MinWeight <= MaxWeight /\ MaxWeight <= Whole
    /\ \A k \in 1..5 : FactorWeights[k] >= 0
    /\ SumFunction(FactorWeights) > 0

ASSUME AllocatorAssumption ==
    /\ {Whole, MinWeight, MaxWeight, MaxDrawdown, TargetVolatility, CostBudget} \subseteq Int
    /\ Whole > 0 /\ Passes \in Nat /\ FactorWeights \in [1..5 -> Int]
    /\ ValidConfig

Feasible(n) == n * MinWeight <= Whole /\ n * MaxWeight >= Whole

ValidSignal(s) == s.volatility >= 0 /\ s.cost >= 0 /\ s.drawdown >= 0

Clamp01(v) == Max({0, Min({v, One})})

Components(s) ==
    << Clamp01(s.confidence), Clamp01(s.stability),
       One - Clamp01((s.drawdown * One) \div MaxDrawdown),
       (TargetVolatility * One) \div (s.volatility + TargetVolatility),
       (CostBudget * One) \div (s.cost + CostBudget) >>

\* The weighted mean of the components, but not below the floor.
Score(s) ==
    LET factor == [k \in 1..5 |-> Components(s)[k] * FactorWeights[k]]
    IN  Max({SumFunction(factor) \div SumFunction(FactorWeights),
             (MinWeight * One) \div (2 * Whole), One \div 100})

Base(scores) == [n \in DOMAIN scores |->
                    (Whole * scores[n]) \div SumFunction(scores)]

\* One pass: what is out of bounds is put on its bound, and all the others
\* share what remains in proportion to their base.
Clamped(base, weights) ==
    LET bound(w) == Max({MinWeight, Min({w, MaxWeight})})
        free   == {n \in DOMAIN weights : bound(weights[n]) = weights[n]}
        remain == Whole - SumFunctionOnSet([n \in DOMAIN weights |-> bound(weights[n])],
                                           DOMAIN weights \ free)
        freeBase == SumFunctionOnSet(base, free)
    IN  IF free = DOMAIN weights THEN weights
        ELSE [n \in DOMAIN weights |->
                IF n \notin free THEN bound(weights[n])
                ELSE IF freeBase = 0 THEN remain \div Cardinality(free)
                ELSE (remain * base[n]) \div freeBase]

MutSettled(weights) == weights

\* The n-th weight takes of what is left as much as it has room for.
Moved(acc, n, grow) ==
    LET room  == IF grow THEN MaxWeight - acc.weights[n] ELSE acc.weights[n] - MinWeight
        delta == Max({0, Min({room, acc.left})})
    IN  [weights |-> [acc.weights EXCEPT ![n] = IF grow THEN @ + delta ELSE @ - delta],
         left    |-> acc.left - delta]

\* The residual goes to the smallest weights, or comes off the largest, as far
\* as each has room.
Settled(weights) ==
    LET residual == Whole - SumFunction(weights)
        grow     == residual > 0
    IN  FoldLeft(LAMBDA acc, n : Moved(acc, n, grow),
                 [weights |-> weights, left |-> IF grow THEN residual ELSE -residual],
                 SortedPlaces([n \in DOMAIN weights |->
                     IF grow THEN weights[n] ELSE -weights[n]])).weights

ProjectWeights(scores) ==
    LET base == Base(scores)
        pass(k, w) == LET next == Clamped(base, w) IN IF next = w THEN w ELSE next
    IN  Settled(FoldSet(pass, base, 1..Passes))

AllocateCapital(signals, capital) ==
    LET reserve == (capital * ReservePct) \div 100
        scores  == [n \in DOMAIN signals |-> Score(signals[n])]
        weights == ProjectWeights(scores)
    IN  [reserve |-> reserve, weights |-> weights,
         capital |-> [n \in DOMAIN signals |->
                        ((capital - reserve) * weights[n]) \div Whole]]

=============================================================================
