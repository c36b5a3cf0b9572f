------------------------------ MODULE Analytics ------------------------------
(***************************************************************************)
(* The computations beside live trading, the manager that weights          *)
(* strategies and the controller that tunes one.  They share nothing: a    *)
(* behaviour runs the manager, or the controller, or picks the input of    *)
(* one computation and stops, and the invariants compare what the code     *)
(* makes of that input with what it should be.                             *)
(***************************************************************************)
EXTENDS BarAggregator, BarQuality, Recovery, AuditChain, HighAvailability,
        CapitalAllocator, PortfolioRisk, MultiStrategy, AdaptiveController

CONSTANTS None,
          Reports,           \* Reports[k]: the bars source k may have
          Starts, End,       \* intervals asked for
          Rows, Symbol, Timeframe,
          StreamEvents, MaxEvents,
          Contents,          \* of audit events
          Primaries, Signals,   \* health signals, without the instance
          Checkpoints,       \* snapshots, without the instance
          AllocationSignals, Capital,
          Returns,           \* series of returns
          Multiples,         \* how one series copies another
          Tails, Positions

\* A source has one bar at a time.
ASSUME ReportsAssumption ==
    \A k \in 1..2 :
        /\ IsFiniteSet(Reports[k])
        /\ Reports[k] \subseteq [ts : Int, open : Int, high : Int, low : Int, close : Int,
                                 volume : Int]
        /\ \A b, c \in Reports[k] : b.ts = c.ts => b = c

\* A row is a sequence of columns, and text in a column of numbers is missing or
\* unparsable.
ASSUME RowsAssumption ==
    /\ End \in Int /\ Numbers \cup Required \subseteq DOMAIN Aliases
    /\ \A row \in Rows :
        /\ row \in Seq(Range(row))
        /\ \A i \in DOMAIN row, f \in Numbers \cup {"ts"} :
            row[i][1] \in Aliases[f] =>
                row[i][2] \in {Missing, Unparsable} \/ row[i][2] \in Int

\* What is computed with is numbers, a series has a return and a copy of one is
\* no series of zeros.
ASSUME SamplesAssumption ==
    /\ Signals \subseteq [reachable : BOOLEAN, age : Int, lag : Int]
    /\ Checkpoints \subseteq [generation : Int, checkpoint : Int]
    /\ AllocationSignals \subseteq [confidence : Int, stability : Int, drawdown : Int,
                                   volatility : Int, cost : Int]
    /\ Capital \in Int /\ MaxEvents \in Nat
    /\ Returns \subseteq Seq(Int) \ {<<>>}
    /\ \A x, y \in Returns : Len(x) = Len(y)
    /\ Multiples \subseteq Int \ {0}
    /\ Tails \subseteq 1..99
    /\ \A p \in Positions : p.qty \in Int /\ p.price \in Int

VARIABLE sample

vars == <<sample, managerVars, adaptiveVars>>

Instances == 1..3

UpTo(n, S) == UNION {[1..k -> S] : k \in 0..n}

Permuted(seq, p) == [i \in DOMAIN seq |-> seq[p[i]]]

Orders == {p \in [Instances -> Instances] : IsInjective(p)}

Init == sample = None /\ ManagerInit /\ AdaptiveInit

\* Nothing has been picked or started yet (of the two ways to begin, one is enough
\* for what does not use the manager).
Idle == Init /\ validConfig

Pick(input) == sample' = input /\ UNCHANGED <<managerVars, adaptiveVars>>

-----------------------------------------------------------------------------
AggregateBars ==
    /\ Idle
    /\ \E first \in SUBSET Reports[1], second \in SUBSET Reports[2],
          start \in Starts, gapFill \in BOOLEAN :
           Pick([of |-> "bars", start |-> start, gapFill |-> gapFill,
                 sources |-> <<first, second>>])

FetchRows ==
    /\ Idle
    /\ \E rows \in UpTo(3, Rows) :
           Pick([of |-> "rows", rows |-> rows])

\* The stream is listened to before the snapshot is taken.
Recover ==
    /\ Idle
    /\ \E events \in UpTo(MaxEvents, StreamEvents) :
           /\ \A i \in DOMAIN events : Supported(events[i])
           /\ \E taken \in 0..Len(events) : \E listened \in 0..taken :
               Pick([of |-> "recovery", events |-> events, taken |-> taken,
                     listened |-> listened])

Built(contents) ==
    LET log[n \in 0..Len(contents)] ==
            IF n = 0 THEN <<>> ELSE AppendEvent(log[n - 1], contents[n])
    IN  log[Len(contents)]

Edits(log) ==
    LET n == DOMAIN log
    IN  {log} \cup {RemoveAt(log, i) : i \in n}
        \cup {[log EXCEPT ![i] = log[j]] : i \in n, j \in n}
        \cup {[log EXCEPT ![i].content = c] : i \in n, c \in Contents}
        \cup {[log EXCEPT ![i] = Event(i, c, log[i].prev)] : i \in n, c \in Contents}

\* Edited twice or written anew.
Forged(log) ==
    (UNION {Edits(once) : once \in Edits(log)}) \cup {Built(c) : c \in UpTo(3, Contents)}

Audit ==
    /\ Idle
    /\ \E contents \in UpTo(3, Contents) :
           LET log == Built(contents)
           IN  \E other \in Forged(log) :
                   Pick([of |-> "audit", log |-> log, other |-> other])

Failover ==
    /\ Idle
    /\ \E primary \in Primaries, standby \in [Instances -> Signals], p \in Orders :
           Pick([of |-> "failover", primary |-> primary,
                 standbys |-> [i \in Instances |-> standby[i]], order |-> p])

DisasterRecovery ==
    /\ Idle
    /\ \E checkpoint \in [Instances -> Checkpoints], target \in Instances, p \in Orders :
           Pick([of |-> "disaster", target |-> target, order |-> p,
                 snapshots |-> [i \in Instances |->
                     [id |-> i, generation |-> checkpoint[i].generation,
                      checkpoint |-> checkpoint[i].checkpoint]]])

Allocate ==
    /\ Idle
    /\ \E signals \in [1..4 -> AllocationSignals] :
           /\ Feasible(4) /\ \A n \in 1..4 : ValidSignal(signals[n])
           /\ Pick([of |-> "allocation", signals |-> signals])

Correlate ==
    /\ Idle
    /\ \E x \in Returns, y \in Returns, k \in Multiples :
           Pick([of |-> "correlation",
                 returns |-> <<x, y, [i \in DOMAIN x |-> k * x[i]]>>])

MeasureTail ==
    /\ Idle
    /\ \E x \in Returns, tailPct \in Tails, up \in BOOLEAN :
           Pick([of |-> "tail", returns |-> x, tailPct |-> tailPct, up |-> up])

MeasureExposure ==
    /\ Idle
    /\ \E positions \in UpTo(3, Positions) :
           Pick([of |-> "exposure", positions |-> positions])

Manage ==
    /\ sample = None /\ AdaptiveInit
    /\ ManagerNext
    /\ UNCHANGED <<sample, adaptiveVars>>

Adapt ==
    /\ sample = None /\ ManagerInit /\ validConfig
    /\ AdaptiveNext
    /\ UNCHANGED <<sample, managerVars>>

Next == \/ AggregateBars \/ FetchRows \/ Recover \/ Audit
        \/ Failover \/ DisasterRecovery \/ Allocate
        \/ Correlate \/ MeasureTail \/ MeasureExposure \/ Manage \/ Adapt

Spec == Init /\ [][Next]_vars

-----------------------------------------------------------------------------
Picked(of) == sample # None /\ sample.of = of

\* The bars each source returns, and the minutes that count: the last source's.
Fetched(k) == FetchBars(sample.sources[k], sample.start, End)
Minutes == Fetched(2) \cup {b \in Fetched(1) : \A c \in Fetched(2) : c.ts # b.ts}

\* A bar is made of the minutes of its bucket: their volume, at least their
\* range, the close of the last minute so far, and with gaps filled no bucket
\* between the first and the last is missing (bar_aggregator.py:30-138).
SumUp(bars, minutes, gapFill) ==
    LET madeOf(bar) == {b \in minutes : FloorToBucket(b.ts) = bar.ts}
        until(bar)  == {b \in minutes : b.ts < bar.ts + Bucket}
    IN  /\ \A bar \in Range(bars) :
            /\ bar.volume = SumFunction([b \in madeOf(bar) |-> b.volume])
            /\ \A b \in madeOf(bar) : bar.low <= b.low /\ b.high <= bar.high
            /\ bar.low <= bar.open /\ bar.open <= bar.high
            /\ \E b \in until(bar) : /\ bar.close = b.close
                                     /\ \A c \in until(bar) : c.ts <= b.ts
        /\ {FloorToBucket(b.ts) : b \in minutes} \subseteq {bar.ts : bar \in Range(bars)}
        /\ \A i \in 1..(Len(bars) - 1) :
            IF gapFill THEN bars[i + 1].ts = bars[i].ts + Bucket
            ELSE bars[i + 1].ts > bars[i].ts

BarsAreTheirMinutes ==
    Picked("bars") =>
        SumUp(Aggregate(Composite(<<Fetched(1), Fetched(2)>>), sample.gapFill), Minutes,
              sample.gapFill)

\* A fetch that succeeds returns every row of the symbol exactly once, in time
\* order and with possible prices, whatever columns the file names them by
\* (checklist.py:32-107, dictionary.py:33-56, sources.py:203-244).
AdmittedBarsAreSound ==
    LET bars == RowsToBars(sample.rows, Symbol, Timeframe, 0, End)
        asked == {i \in DOMAIN sample.rows :
                    LET r == Normalize(sample.rows[i])
                    IN  r["symbol"] = Symbol /\ r["timeframe"] = Timeframe
                        /\ r["ts"] \in 0..End}
    IN  Picked("rows") /\ Fetchable(sample.rows, Symbol, Timeframe, 0, End) =>
            /\ Len(bars) = Cardinality(asked)
            /\ \A i \in 1..(Len(bars) - 1) : bars[i]["ts"] < bars[i + 1]["ts"]
            /\ \A b \in Range(bars) : /\ b["volume"] >= 0
                                      /\ \A f \in Prices : /\ b["low"] <= b[f]
                                                           /\ b[f] <= b["high"]

\* After a restart positions and orders are the exchange's, however long before
\* the snapshot the stream was opened: events the snapshot already shows are
\* applied again and then overtaken (recovery.py:31-53).
RecoveredIsCurrent ==
    Picked("recovery") =>
        LET events == sample.events
        IN  RecoverState(ExchangeAfter(events, sample.taken),
                         SubSeq(events, sample.listened + 1, Len(events)))
              = ExchangeAfter(events, Len(events))

\* A ledger that verifies and ends in the known last hash is the one that was
\* written; without the hash a cut tail or a ledger written anew verifies too
\* (audit.py:65-83).
VerifiedIsOriginal ==
    Picked("audit") =>
        /\ VerifyChain(sample.log)
        /\ VerifyChain(sample.other) /\ HeadHash(sample.other) = HeadHash(sample.log)
              => sample.other = sample.log

\* Two supervisors that list the same instances in another order recover from
\* the same source and promote equally fit standbys: the same one, unless two
\* are equal in lag and age (high_availability.py:46-122).
SupervisorsAgree ==
    /\ Picked("disaster") =>
        PlanDisasterRecovery(sample.snapshots, sample.target)
          = PlanDisasterRecovery(Permuted(sample.snapshots, sample.order), sample.target)
    /\ Picked("failover") =>
        EvaluateFailover(sample.primary, sample.standbys)
          = EvaluateFailover(sample.primary, Permuted(sample.standbys, sample.order))

\* All of the capital is given out, none of it twice, and none is taken
\* (capital_allocator.py:82-155, 185-263).
AllocationIsWhole ==
    Picked("allocation") =>
        LET a == AllocateCapital(sample.signals, Capital)
            given == a.reserve + SumFunction(a.capital)
        IN  /\ SumFunction(a.weights) = Whole
            /\ Capital - 4 < given /\ given <= Capital

\* No strategy gets less than the minimum or more than the maximum weight; the
\* tolerance is the rounding (test_capital_allocator.py:75).
WeightsKeepBounds ==
    Picked("allocation") =>
        LET a == AllocateCapital(sample.signals, Capital)
        IN  \A n \in 1..4 : a.weights[n] \in (MinWeight - 4)..(MaxWeight + 4)

\* At most the tail's share of the scenarios lose more than the value at risk
\* and the conditional one is no smaller, whichever way the share is rounded; a
\* strategy that copies another one, scaled or inverted, is not approved beside
\* it; the exposures of all strategies add up (portfolio_engine.py:58-221).
RiskIsNotUnderstated ==
    /\ Picked("tail") =>
        LET m == HistoricalVarCvar(sample.returns, sample.tailPct, sample.up, 1)
            worse == {i \in DOMAIN sample.returns : -sample.returns[i] > m.var}
        IN  /\ 100 * Cardinality(worse) <= sample.tailPct * Len(sample.returns)
            /\ m.cvarSum >= m.tail * m.var
    /\ Picked("correlation") =>
        (Covariance(sample.returns[1], sample.returns[1]) # 0
            => ~EvaluateCorrelationRisk(sample.returns).approved)
    /\ Picked("exposure") =>
        LET e == CalculateNetExposure(sample.positions)
        IN  /\ e.net = e.long - e.short /\ e.gross = e.long + e.short
            /\ e.net = SumFunction(e.perStrategy)

=============================================================================
