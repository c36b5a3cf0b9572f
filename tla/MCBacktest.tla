----------------------------- MODULE MCBacktest -----------------------------
(* Two symbols whose bars alternate, with a gap and a common timestamp; a    *)
(* close that halves costs a leveraged account its margin.                   *)
EXTENDS Backtest, TLC
CONSTANTS btc, eth, trend, revert
MCTimes == btc :> <<0, 1, 3, 4>> @@ eth :> <<1, 2>>
MCCloses == {10, 20}
MCWeight == trend :> 1 @@ revert :> 1
MCSignals == {-1, 1}
=============================================================================
