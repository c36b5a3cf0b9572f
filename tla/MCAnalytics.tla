---------------------------- MODULE MCAnalytics ----------------------------
(* A minute is two ticks and a bucket two minutes, so timestamps also lie    *)
(* between minutes and gaps span buckets.  Rows name columns by an alias, by *)
(* two names at once, leave them empty or break one rule each.  Of the       *)
(* controller's candidates the first is one the optimizer cannot run.        *)
EXTENDS Analytics
CONSTANTS btc, eth, bar1m, new, filled, fast, slow, inverted
MCReport(source, ts) ==
    LET open  == (ts * 3 + source) % 5
        close == (ts + 2 * source) % 5
    IN  [ts |-> ts, open |-> open, high |-> Max({open, close}) + (ts % 2),
         low |-> Min({open, close}) - 1, close |-> close, volume |-> ts + source]
MCReports == << {MCReport(1, ts) : ts \in {0, 2, 5, 8, 15}},
                {MCReport(2, ts) : ts \in {2, 4, 7, 8}} >>
MCStarts == {0, 3}

MCAliases == [symbol |-> {"symbol"}, timeframe |-> {"timeframe"}, ts |-> {"ts", "time"},
              open |-> {"open"}, high |-> {"high"}, low |-> {"low"},
              close |-> {"close", "last_price"}, volume |-> {"volume"}]
MCPlain(ts) == << <<"symbol", btc>>, <<"timeframe", bar1m>>, <<"ts", ts>>,
    <<"open", 2>>, <<"high", 3>>, <<"low", 1>>, <<"close", 2>>, <<"volume", 1>> >>
MCWith(ts, column, value) == Append(MCPlain(ts), <<column, value>>)
MCRows == {MCPlain(0), MCPlain(1), MCPlain(2), MCWith(1, "symbol", eth),
           MCWith(5, "symbol", eth), MCWith(0, "time", 1), MCWith(1, "ts", Unparsable),
           MCWith(1, "last_price", 4), MCWith(1, "last_price", Missing),
           MCWith(1, "low", 4), MCWith(2, "high", Unparsable), MCWith(2, "volume", -1),
           MCWith(2, "volume", Missing), MCWith(3, "open", 0), MCWith(9, "note", 0)}

MCStreamEvents ==
    [kind : {"position"}, key : {btc, eth}, value : {0, 1}]
    \cup [kind : {"order"}, key : {btc}, value : {new, filled}]

MCSignals == [reachable : {TRUE}, age : {1, 4, 9}, lag : {1, 2, 9}]
             \cup [reachable : {FALSE}, age : {1}, lag : {0}]
MCPrimaries == {[reachable |-> TRUE, age |-> a, lag |-> 0] : a \in {1, 9}}
MCCheckpoints == [generation : {1, 2}, checkpoint : {1, 2}]

MCSignal(c, s, d, v, k) ==
    [confidence |-> c, stability |-> s, drawdown |-> d, volatility |-> v, cost |-> k]
MCAllocationSignals == {MCSignal(950, 900, 2, 1, 0), MCSignal(300, 400, 10, 2, 10),
    MCSignal(0, 0, 60, 99, 99), MCSignal(1200, 500, 0, 40, 30), MCSignal(50, -10, 29, 30, 50)}

MCReturns == {<<1, -1, 2, 0, -2>>, <<2, 2, 2, 2, 2>>, <<-2, 1, 0, -2, 1>>,
              <<-2, -1, 0, 1, 2>>, <<2, -2, 2, -2, 2>>, <<-1, -1, -1, -1, 2>>,
              <<0, 0, 0, 0, -3>>}
MCMultiples == {-2, -1, 1, 2}
MCPositions == [strategy : {"trend", "carry"}, qty : {-2, 1}, price : {1, 3}]
MCScores == {-1, 2}
MCFactors == <<30, 25, 20, 15, 10>>
=============================================================================
