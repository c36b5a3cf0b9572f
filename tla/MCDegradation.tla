--------------------------- MODULE MCDegradation ---------------------------
(* Small instances of Degradation.  Latency: fine, slow, very slow, with   *)
(* averages between them.  Rejections: a rejected sample counts 4, so the  *)
(* thresholds are rates of one half and of three quarters.                 *)
EXTENDS Degradation

MCMetrics  == {"latency", "reject_rate"}
MCValues   == [latency |-> {0, 1, 3}, reject_rate |-> {0, 4}]
MCWarn     == [latency |-> 1, reject_rate |-> 2]
MCCritical == [latency |-> 2, reject_rate |-> 3]

=============================================================================
