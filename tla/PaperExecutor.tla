--------------------------- MODULE PaperExecutor ---------------------------
(***************************************************************************)
(* execution/paper.py as backtest/replay.py drives it: every event asks    *)
(* for a target, execute_to_target moves the position there in one order   *)
(* or, for a flip, in two, and the list of fills it returns goes to a      *)
(* PerformanceMonitor and to the cash ledger of evaluate_strategy_metrics. *)
(* The kill switch belongs to another thread.  One symbol; an order id is  *)
(* a prefix, which a second replay uses again, and a leg.                  *)
(***************************************************************************)
EXTENDS Oms, PerformanceMonitor

CONSTANTS Prefixes,     \* order id prefixes: the indices of the events
          Targets, Prices,
          Slippage, Fee,   \* per lot
          MaxReports,   \* bound on the fills that are reported
          None          \* no fill, no execution going on

\* A quantity of zero is refused before anything else.
Fill == [qty : Int \ {0}, price : Int, fee : Nat, slippage : Nat]

\* A call of execute_to_target: closed between the two legs of a flip, fresh
\* when no order had used its prefix.
Execution == [prefix : Prefixes, from : Int, to : Int, price : Prices,
              closed : BOOLEAN, fresh : BOOLEAN]

ASSUME ModelAssumption ==
    /\ Targets \subseteq Int /\ Prices \subseteq Nat \ {0}
    /\ Slippage \in Nat /\ Fee \in Nat /\ MaxReports \in Nat
    /\ None \notin Fill /\ None \notin Execution

VARIABLES orders,     \* the OMS
          fills,      \* _fills
          position,   \* _position_qty of the symbol
          halted,     \* the kill switch
          job,        \* the execute_to_target call going on
          perf,       \* the performance monitor
          ledger,     \* position and cash summed over the reported fills
          reported    \* how often each fill was reported

vars == <<orders, fills, position, halted, job, perf, ledger, reported>>

Cids == Prefixes \X {"single", "close", "open"}

MutLegId(prefix, leg) == <<prefix, IF leg = "open" THEN "close" ELSE leg>>

\* The legs of one execution have ids of their own.
LegId(prefix, leg) == <<prefix, leg>>

IsFlip(from, to) == from * to < 0

-----------------------------------------------------------------------------
(* execute_market                                                          *)

\* A reduce-only order must reduce the position and not exceed it.
Reduces(qty) == position * qty < 0 /\ Magnitude(qty) <= Magnitude(position)

\* What lets execute_market return instead of raising.
MayExecute(c, qty, reduceOnly) ==
    /\ ~halted
    /\ \/ fills[c] # None
       \/ orders[c] \in {"absent", "NEW"} /\ (reduceOnly => Reduces(qty))

NewFill(qty, price) ==
    [qty |-> qty, price |-> price + Sign(qty) * Slippage,
     fee |-> Magnitude(qty) * Fee, slippage |-> Magnitude(qty) * Slippage]

\* An id seen before returns its fill, whatever is asked for now.
FillOf(c, qty, price) ==
    IF fills[c] # None THEN fills[c] ELSE NewFill(qty, price)

Moved(c, qty) == IF fills[c] # None THEN position ELSE position + qty

ExecuteMarket(c, qty, price, reduceOnly) ==
    /\ MayExecute(c, qty, reduceOnly)
    /\ orders' = IF fills[c] # None THEN orders
                 ELSE Transition(Submit(orders, c), c, "FILLED")
    /\ fills' = [fills EXCEPT ![c] = FillOf(c, qty, price)]
    /\ position' = Moved(c, qty)

-----------------------------------------------------------------------------
(* The caller's side: what it is given, it records.                        *)

Posted(l, f) == [qty |-> l.qty + f.qty, cash |-> l.cash - f.qty * f.price - f.fee]

Report(c) ==
    /\ perf' = RecordFill(perf, fills'[c])
    /\ ledger' = Posted(ledger, fills'[c])
    /\ reported' = [reported EXCEPT ![c] = @ + 1]

MutReportBoth(c, d) == Report(d)

ReportBoth(c, d) ==
    /\ perf' = RecordFill(RecordFill(perf, fills'[c]), fills'[d])
    /\ ledger' = Posted(Posted(ledger, fills'[c]), fills'[d])
    /\ reported' = [reported EXCEPT ![c] = @ + 1, ![d] = @ + 1]

ReportNothing == UNCHANGED <<perf, ledger, reported>>

-----------------------------------------------------------------------------

Init ==
    /\ orders = [c \in Cids |-> "absent"]
    /\ fills = [c \in Cids |-> None]
    /\ position = 0
    /\ halted = FALSE
    /\ job = None
    /\ perf = Flat
    /\ ledger = [qty |-> 0, cash |-> 0]
    /\ reported = [c \in Cids |-> 0]

ReportsOf(p) == reported[<<p, "single">>] + reported[<<p, "close">>]

\* An event whose target differs from the position.
Event ==
    \E p \in Prefixes, target \in Targets, price \in Prices :
        /\ job = None
        /\ ReportsOf(p) < MaxReports
        /\ target # position
        /\ job' = [prefix |-> p, from |-> position, to |-> target,
                   price |-> price, closed |-> FALSE,
                   fresh |-> \A c \in Cids : c[1] = p => orders[c] = "absent"]
        /\ UNCHANGED <<orders, fills, position, halted, perf, ledger, reported>>

Single ==
    /\ job # None
    /\ ~IsFlip(job.from, job.to)
    /\ LET c == LegId(job.prefix, "single")
       IN  ExecuteMarket(c, job.to - job.from, job.price, FALSE) /\ Report(c)
    /\ job' = None
    /\ UNCHANGED halted

Close ==
    /\ job # None
    /\ IsFlip(job.from, job.to) /\ ~job.closed
    /\ ExecuteMarket(LegId(job.prefix, "close"), -job.from, job.price, position # 0)
    /\ job' = [job EXCEPT !.closed = TRUE]
    /\ ReportNothing
    /\ UNCHANGED halted

Open ==
    /\ job # None
    /\ job.closed
    /\ LET c == LegId(job.prefix, "close")
           d == LegId(job.prefix, "open")
       IN  ExecuteMarket(d, job.to, job.price, FALSE) /\ ReportBoth(c, d)
    /\ job' = None
    /\ UNCHANGED halted

\* The switch raises out of execute_to_target: what its first leg has done is
\* done, but the caller is returned nothing.
Refused ==
    /\ job # None
    /\ halted
    /\ job' = None
    /\ ReportNothing
    /\ UNCHANGED <<orders, fills, position, halted>>

\* The caller passes a price on to the monitor.
Mark ==
    \E price \in Prices :
        /\ job = None
        /\ perf' = RecordMark(perf, price)
        /\ UNCHANGED <<orders, fills, position, halted, job, ledger, reported>>

\* The operator's thread.
Toggle ==
    /\ halted' = ~halted
    /\ UNCHANGED <<orders, fills, position, job, perf, ledger, reported>>

Next == Event \/ Single \/ Close \/ Open \/ Refused \/ Mark \/ Toggle

Spec == Init /\ [][Next]_vars

-----------------------------------------------------------------------------
\* Between two calls no order is NEW, and exactly the filled ones have a fill
\* (paper.py:71-97).
TypeOK ==
    /\ orders \in [Cids -> {"absent", "FILLED"}]
    /\ fills \in [Cids -> Fill \cup {None}]
    /\ \A c \in Cids : (fills[c] = None) = (orders[c] = "absent")
    /\ position \in Int /\ halted \in BOOLEAN
    /\ job \in Execution \cup {None}
    /\ reported \in [Cids -> Nat]

\* An execution under a prefix of its own ends at its target; only the kill
\* switch can leave it where it began or, between the two legs of a flip, flat
\* (paper.py:111-114, test_execution_flip_flow.py:9).
ExecutionReachesTarget ==
    [][job # None /\ job' = None /\ job.fresh
         => \/ position' = job.to
            \/ /\ halted
               /\ position' = IF job.closed THEN 0 ELSE job.from]_vars

\* A fill that changed the position but was never returned to the caller, and so
\* is missing from every statistic, is the close leg of a flip whose open leg was
\* refused (paper.py:133-148).
UnreportedIsCutFlip ==
    \A p \in Prefixes :
        LET missing(leg) == fills[<<p, leg>>] # None /\ reported[<<p, leg>>] = 0
        IN  /\ ~missing("single") /\ ~missing("open")
            /\ missing("close") => fills[<<p, "open">>] = None

\* However fills open, add to, reduce, close and flip the monitored position,
\* repeated and missing reports included, realized and unrealized profit less the
\* fees are the cash and the value of what is held (performance.py:82-108,
\* robustness.py:107-121).
PnlIsWealth ==
    /\ perf.qty = ledger.qty
    /\ perf.mark # 0 \/ perf.qty = 0 =>
         perf.realized + Unrealized(perf) - perf.fees = ledger.cash + ledger.qty * perf.mark

=============================================================================
