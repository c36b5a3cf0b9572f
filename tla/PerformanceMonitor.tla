------------------------- MODULE PerformanceMonitor -------------------------
(***************************************************************************)
(* monitoring/performance.py for one symbol: operators on the record of    *)
(* what RealTimePerformanceMonitor keeps.  Prices are multiples of a tick  *)
(* that every average entry price divides, so that the averages of the     *)
(* small instances are exact.  The list of returns behind sharpe_like and  *)
(* the clock are left out.                                                 *)
(***************************************************************************)
EXTENDS Integers

Magnitude(n) == IF n < 0 THEN -n ELSE n
Sign(n)  == IF n > 0 THEN 1 ELSE IF n < 0 THEN -1 ELSE 0
Larger(a, b) == IF a > b THEN a ELSE b

\* mark is 0 until the first record_mark_price.
Flat == [qty |-> 0, avg |-> 0, mark |-> 0, realized |-> 0, fees |-> 0, slippage |-> 0,
         closes |-> 0, wins |-> 0, peak |-> 0, drawdown |-> 0]

Unrealized(m) == IF m.mark = 0 THEN 0 ELSE m.qty * (m.mark - m.avg)

NetPnl(m) == m.realized + Unrealized(m) - m.fees - m.slippage

\* Every call ends by measuring the equity against its peak.
Measured(m) ==
    LET peak == Larger(m.peak, NetPnl(m))
    IN  [m EXCEPT !.peak = peak,
                  !.drawdown = Larger(@, peak - NetPnl(m))]

\* A fill on the side of the position moves the average entry price.
Opened(m, f) ==
    LET qty == m.qty + f.qty
    IN  [m EXCEPT !.qty = qty,
                  !.avg = (Magnitude(m.qty) * m.avg + Magnitude(f.qty) * f.price)
                            \div Magnitude(qty)]

MutAverageAfterClose(m, f) == IF m.qty + f.qty = 0 THEN 0 ELSE m.avg

\* What is left of a position keeps its average, what turned it starts anew.
AverageAfterClose(m, f) ==
    LET qty == m.qty + f.qty
    IN  IF qty = 0 THEN 0 ELSE IF Sign(qty) = Sign(m.qty) THEN m.avg ELSE f.price

\* A fill against the position realizes the part of it that it closes.
Reduced(m, f) ==
    LET closed == IF Magnitude(f.qty) < Magnitude(m.qty)
                  THEN Magnitude(f.qty) ELSE Magnitude(m.qty)
        pnl == closed * (f.price - m.avg) * Sign(m.qty)
    IN  [m EXCEPT !.qty = @ + f.qty, !.avg = AverageAfterClose(m, f),
                  !.realized = @ + pnl, !.closes = @ + 1,
                  !.wins = IF pnl > 0 THEN @ + 1 ELSE @]

\* record_fill
RecordFill(m, f) ==
    LET moved == IF m.qty * f.qty >= 0 THEN Opened(m, f) ELSE Reduced(m, f)
    IN  Measured([moved EXCEPT !.fees = @ + f.fee, !.slippage = @ + f.slippage])

RecordMark(m, price) == Measured([m EXCEPT !.mark = price])

=============================================================================
