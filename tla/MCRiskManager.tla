--------------------------- MODULE MCRiskManager ---------------------------
(* One symbol at two prices, one of which hits the 25 percent trailing stop *)
(* of a long or a short position; three levels of equity, 80 being the      *)
(* daily stop of a day that began with 100 and 0 an account to refuse.      *)
EXTENDS RiskManager
MCPrices == {8, 12, 16}
MCEquities == {0, 80, 100}
MCTargets == -3..3
=============================================================================
