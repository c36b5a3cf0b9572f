------------------------------ MODULE Backtest ------------------------------
(***************************************************************************)
(* The matching loop of backtest/mvp11.py: per bar the matured orders of   *)
(* its symbol are filled, in part; then the strategies' target is turned   *)
(* into an order for its difference to the previous target, and orders in  *)
(* the other direction are cancelled, unless the cancel is rejected; then  *)
(* funding is paid and the account liquidated when its margin is gone.     *)
(* Quantities are lots and money is whole, so that fees and funding are    *)
(* rounded down; how much of an order depth and queue let through, and the *)
(* maker draw, are a choice.                                               *)
(***************************************************************************)
EXTENDS Integers, Sequences, FiniteSets, FiniteSetsExt, Functions, Ordering

CONSTANTS Symbols, Times,             \* Times[s]: the timestamps of its bars
          Closes, Strategies, Weight, Signals,
          LatencyBars, LatencySeconds,
          Slip, MakerFeePct, TakerFeePct, FundingPct, PenaltyPct,
          InitialEquity, Leverage, MaintenancePct,
          NoBar

VARIABLES done,        \* bars of each symbol that are over or going on
          bar,         \* the symbol whose bar is going on, or NoBar
          phase,       \* where in the loop body
          matured,     \* matured orders of this bar still to be filled
          pending,     \* orders in the order they were placed
          price,       \* last_price
          positions, targets, cash,
          lost         \* what cancels and liquidations took off the targets

backtestVars == <<done, bar, phase, matured, pending, price, positions, targets,
                  cash, lost>>

Size(n) == IF n < 0 THEN -n ELSE n
Dir(n)  == IF n < 0 THEN -1 ELSE 1

ValidConfig ==
    /\ InitialEquity > 0 /\ Leverage > 0 /\ MaintenancePct >= 0
    /\ LatencyBars >= 0 /\ LatencySeconds >= 0
    /\ \A s \in Symbols : Len(Times[s]) > 0
    /\ SumFunction(Weight) > 0

\* A symbol has one bar of a timestamp, and they are sorted by it.
Increasing(seq) == \A i, j \in DOMAIN seq : i < j => seq[i] < seq[j]

ASSUME ConfigAssumption ==
    /\ IsFiniteSet(Symbols) /\ NoBar \notin Symbols
    /\ Times \in [Symbols -> Seq(Int)] /\ \A s \in Symbols : Increasing(Times[s])
    /\ IsFiniteSet(Strategies) /\ Weight \in [Strategies -> Int]
    /\ {LatencyBars, LatencySeconds, Slip, MakerFeePct, TakerFeePct, FundingPct,
        PenaltyPct, InitialEquity, Leverage, MaintenancePct} \cup Closes \cup Signals
          \subseteq Int
    /\ ValidConfig

-----------------------------------------------------------------------------
LastBar(s) == Len(Times[s])

MutExecuteIdx(s, i) == Min({i + LatencyBars, LastBar(s)})

\* The bar from which on an order placed in bar i may be filled: late enough in
\* bars and in time, but no later than the last one.
ExecuteIdx(s, i) ==
    LET inTime == {j \in i..LastBar(s) : Times[s][j] >= Times[s][i] + LatencySeconds}
    IN  Max({Min({i + LatencyBars, LastBar(s)}), Min(inTime \cup {LastBar(s)})})

FeeOf(notional, maker) ==
    (notional * (IF maker THEN MakerFeePct ELSE TakerFeePct)) \div 100

Notionals == [s \in Symbols |-> Size(positions[s]) * price[s]]
Gross     == SumFunction(Notionals)
Equity    == cash + SumFunction([s \in Symbols |-> positions[s] * price[s]])

\* The weighted sum of the strategies' targets.
WeightedTarget(wanted) ==
    SumFunction([n \in Strategies |-> Weight[n] * wanted[n]]) \div SumFunction(Weight)

-----------------------------------------------------------------------------
BacktestInit ==
    /\ done = [s \in Symbols |-> 0]
    /\ bar = NoBar
    /\ phase = "next"
    /\ matured = <<>> /\ pending = <<>>
    /\ price = [s \in Symbols |-> 0]    \* irrelevant while the symbol is flat
    /\ positions = [s \in Symbols |-> 0]
    /\ targets = [s \in Symbols |-> 0]
    /\ cash = InitialEquity
    /\ lost = [s \in Symbols |-> 0]

\* Bars come in the order of their timestamps, those of one time in any order.
Remaining == {s \in Symbols : done[s] < LastBar(s)}

NextBar(s) ==
    /\ phase = "next"
    /\ s \in Remaining
    /\ \A t \in Remaining : Times[s][done[s] + 1] <= Times[t][done[t] + 1]
    /\ done' = [done EXCEPT ![s] = @ + 1]
    /\ bar' = s
    /\ \E close \in Closes : price' = [price EXCEPT ![s] = close]
    /\ LET due == {i \in DOMAIN pending :
                     pending[i].symbol = s /\ pending[i].due <= done'[s]}
       IN  /\ matured' = Subsequence(pending, due)
           /\ pending' = Subsequence(pending, DOMAIN pending \ due)
    /\ phase' = "match"
    /\ UNCHANGED <<positions, targets, cash, lost>>

MutResidual(o, filled) == <<>>

\* What is left of an order is tried again in the next bar.
Residual(o, filled) ==
    IF filled = o.qty THEN <<>>
    ELSE <<[symbol |-> o.symbol, qty |-> o.qty - filled, placed |-> o.placed,
            due |-> Min({done[bar] + 1, LastBar(bar)})]>>

\* One matured order: some of it is filled, at a slipped price.
Match ==
    /\ phase = "match"
    /\ matured # <<>>
    /\ LET o == Head(matured)
           fillPrice == price[bar] + Dir(o.qty) * Slip
       IN  \E lots \in 1..Size(o.qty), maker \in BOOLEAN :
            LET filled == Dir(o.qty) * lots
            IN  /\ positions' = [positions EXCEPT ![bar] = @ + filled]
                /\ cash' = cash - filled * fillPrice
                                - FeeOf(lots * fillPrice, maker)
                /\ pending' = pending \o Residual(o, filled)
    /\ matured' = Tail(matured)
    /\ UNCHANGED <<done, bar, phase, price, targets, lost>>

\* Orders of this bar's symbol against the new direction.
Stale(delta) ==
    {i \in DOMAIN pending :
        pending[i].symbol = bar /\ pending[i].qty * delta < 0}

\* The strategies decide; the exchange may reject any of the cancels.
Rebalance ==
    /\ phase = "match"
    /\ matured = <<>>
    /\ \E wanted \in [Strategies -> Signals] :
        LET delta == WeightedTarget(wanted) - targets[bar]
        IN  IF delta = 0 THEN UNCHANGED <<pending, targets, lost>>
            ELSE \E cancelled \in SUBSET Stale(delta) :
                    /\ pending' = Append(Subsequence(pending, DOMAIN pending \ cancelled),
                          [symbol |-> bar, qty |-> delta, placed |-> done[bar],
                           due |-> ExecuteIdx(bar, done[bar])])
                    /\ targets' = [targets EXCEPT ![bar] = @ + delta]
                    /\ lost' = [lost EXCEPT ![bar] =
                          @ + SumFunction([i \in cancelled |-> pending[i].qty])]
    /\ phase' = "settle"
    /\ UNCHANGED <<done, bar, matured, price, positions, cash>>

Funding == (Gross * FundingPct) \div 100

MarginGone(equity) ==
    \/ Gross > Leverage * Max({equity, 0})
    \/ equity * 100 <= Gross * MaintenancePct

\* Every position is closed at a penalty.  Pending orders and targets stay.
Liquidated == Symbols

ClosePrice(s) == price[s] - (Dir(positions[s]) * price[s] * PenaltyPct) \div 100

Settle ==
    /\ phase = "settle"
    /\ LET proceeds == [s \in Liquidated |-> positions[s] * ClosePrice(s)
                 - FeeOf(Size(positions[s]) * ClosePrice(s), FALSE)]
       IN  IF MarginGone(Equity - Funding)
           THEN /\ cash' = cash - Funding + SumFunction(proceeds)
                /\ positions' = [s \in Symbols |->
                                   IF s \in Liquidated THEN 0 ELSE positions[s]]
                /\ lost' = [s \in Symbols |-> lost[s] + positions[s] - positions'[s]]
           ELSE cash' = cash - Funding /\ UNCHANGED <<positions, lost>>
    /\ phase' = "next"
    /\ bar' = NoBar
    /\ UNCHANGED <<done, matured, pending, price, targets>>

BacktestNext == (\E s \in Symbols : NextBar(s)) \/ Match \/ Rebalance \/ Settle

BacktestSpec == BacktestInit /\ [][BacktestNext]_backtestVars

-----------------------------------------------------------------------------
OrderedOf(seq, s) ==
    SumFunction([i \in DOMAIN seq |-> IF seq[i].symbol = s THEN seq[i].qty ELSE 0])

OnTheWay(s) == OrderedOf(pending, s) + OrderedOf(matured, s)

\* What the strategies asked for is held, on its way, or was taken away by a
\* cancel or a liquidation; nothing is filled twice or forgotten.  targets is
\* not told of what was taken away, so lost is how far a position stays off the
\* strategies' target for good (mvp11.py:267-289, 304-329).
TargetIsAccounted ==
    \A s \in Symbols : positions[s] + OnTheWay(s) + lost[s] = targets[s]

\* No order is filled in the bar that placed it, nor before its latency in bars
\* and in seconds is over, except that the last bar waits for nobody
\* (test_simulate_realistic_execution_supports_time_based_latency).
LatencyIsKept ==
    \A i \in DOMAIN matured :
        LET placed == matured[i].placed
        IN  /\ placed < done[bar]
            /\ \/ done[bar] = LastBar(bar)
               \/ /\ done[bar] >= placed + LatencyBars
                  /\ Times[bar][done[bar]] >= Times[bar][placed] + LatencySeconds

=============================================================================
