--------------------------- MODULE Simulation_proofs ---------------------------
(***************************************************************************)
(* Proofs about the two ways to run a strategy without an exchange, for    *)
(* every value of the constants: PaperExecutor, with any prefixes, targets *)
(* and prices, and Backtest, with any symbols, bars, strategies and orders, *)
(* any latency and any fees.                                               *)
(***************************************************************************)
EXTENDS PaperExecutor, Backtest, Folding_proofs, TLAPS

-----------------------------------------------------------------------------
(* What execute_market does, whoever calls it.                             *)

LEMMA SignType == ASSUME NEW n \in Int PROVE Sign(n) \in {-1, 0, 1}
BY DEF Sign

LEMMA MagnitudeType ==
    ASSUME NEW n \in Int PROVE Magnitude(n) \in Nat /\ (Magnitude(n) = 0 <=> n = 0)
BY DEF Magnitude

LEMMA ProductType == ASSUME NEW a \in Nat, NEW b \in Nat PROVE a * b \in Nat
BY SMT

\* A request for some lots makes a fill.
LEMMA NewFillType ==
    ASSUME NEW qty \in Int \ {0}, NEW offer \in Prices
    PROVE  NewFill(qty, offer) \in Fill
<1>1. offer \in Int /\ Slippage \in Nat /\ Fee \in Nat
    BY ModelAssumption
<1>2. offer + Sign(qty) * Slippage \in Int
    BY <1>1, SignType
<1>3. Magnitude(qty) \in Nat /\ Slippage \in Nat /\ Fee \in Nat
    BY <1>1, MagnitudeType
<1>4. Magnitude(qty) * Slippage \in Nat /\ Magnitude(qty) * Fee \in Nat
    BY <1>3, ProductType
<1> QED
    BY <1>2, <1>4 DEF NewFill, Fill

\* What TypeOK says of the executor itself.
BookType ==
    /\ orders \in [Cids -> {"absent", "FILLED"}]
    /\ fills \in [Cids -> Fill \cup {None}]
    /\ \A c \in Cids : (fills[c] = None) = (orders[c] = "absent")
    /\ position \in Int

\* Executing an order leaves a fill under its id and no other id changed.  The
\* position moves by the quantity asked for if the id is new, else not at all.
LEMMA ExecuteFacts ==
    ASSUME BookType,
           NEW c \in Cids, NEW qty \in Int \ {0}, NEW offer \in Prices,
           NEW reduceOnly \in BOOLEAN, ExecuteMarket(c, qty, offer, reduceOnly)
    PROVE  /\ BookType'
           /\ fills'[c] \in Fill /\ fills'[c] # None
           /\ \A d \in Cids \ {c} : fills'[d] = fills[d]
           /\ fills[c] = None => position' = position + qty
           /\ fills[c] # None => position' = position
<1>1. /\ fills' = [fills EXCEPT ![c] = FillOf(c, qty, offer)]
      /\ position' = Moved(c, qty)
      /\ orders' = IF fills[c] # None THEN orders
                   ELSE Transition(Submit(orders, c), c, "FILLED")
    BY DEF ExecuteMarket
<1>2. FillOf(c, qty, offer) \in Fill
    BY NewFillType DEF FillOf, BookType
<1>3. fills' \in [Cids -> Fill \cup {None}] /\ fills'[c] = FillOf(c, qty, offer)
    BY <1>1, <1>2 DEF BookType
<1>4. \A d \in Cids \ {c} : fills'[d] = fills[d]
    BY <1>1 DEF BookType
<1>5. fills'[c] \in Fill /\ fills'[c] # None
    BY <1>2, <1>3, ModelAssumption
<1>6. /\ orders' \in [Cids -> {"absent", "FILLED"}]
      /\ orders'[c] = "FILLED"
      /\ \A d \in Cids \ {c} : orders'[d] = orders[d]
    BY <1>1 DEF BookType, Transition, Submit
<1>7. \A d \in Cids : (fills'[d] = None) = (orders'[d] = "absent")
    BY <1>4, <1>5, <1>6 DEF BookType
<1>8. /\ fills[c] = None => position' = position + qty
      /\ fills[c] # None => position' = position
    BY <1>1 DEF Moved
<1>9. position' \in Int
    BY <1>8 DEF BookType
<1> QED
    BY <1>3, <1>4, <1>5, <1>6, <1>7, <1>8, <1>9 DEF BookType

LEMMA LegIds ==
    ASSUME NEW p \in Prefixes
    PROVE  /\ LegId(p, "single") \in Cids /\ LegId(p, "close") \in Cids
           /\ LegId(p, "open") \in Cids
BY DEF LegId, Cids

LEMMA FlipMoves ==
    ASSUME NEW a \in Int, NEW b \in Int, IsFlip(a, b)
    PROVE  a # 0 /\ b # 0 /\ a # b
<1>1. ASSUME a = b PROVE FALSE
  <2>1. a * a >= 0
      BY SMT
  <2> QED
      BY <1>1, <2>1 DEF IsFlip
<1>2. a # 0 /\ b # 0
    BY DEF IsFlip
<1> QED
    BY <1>1, <1>2

-----------------------------------------------------------------------------
(* The inductive invariant                                                 *)

\* What an execution going on can rely on: until its first leg nobody has moved
\* the position it saw; after the first leg of a flip that leg has its fill;
\* and under a prefix of its own no later leg has one.
ExecutionInv ==
    job # None =>
        LET filled(leg) == fills[LegId(job.prefix, leg)] # None
        IN  /\ job.from # job.to
            /\ ~job.closed => position = job.from
            /\ job.closed => IsFlip(job.from, job.to) /\ filled("close")
            /\ job.fresh => /\ ~filled("single") /\ ~filled("open")
                            /\ ~job.closed => ~filled("close")
                            /\ job.closed => position = 0

\* Fills are reported with the call that made them, the first leg of a flip with
\* its second.
ReportInv ==
    \A p \in Prefixes :
        /\ fills[LegId(p, "single")] # None => reported[LegId(p, "single")] > 0
        /\ fills[LegId(p, "open")] # None =>
             reported[LegId(p, "open")] > 0 /\ reported[LegId(p, "close")] > 0

PaperInv == TypeOK /\ ExecutionInv /\ ReportInv

LEMMA PaperInit == Init => PaperInv
<1> SUFFICES ASSUME Init PROVE PaperInv
    OBVIOUS
<1>1. TypeOK
  <2>1. \A c \in Cids : fills[c] = None /\ orders[c] = "absent"
      BY DEF Init
  <2>2. /\ orders \in [Cids -> {"absent", "FILLED"}]
        /\ fills \in [Cids -> Fill \cup {None}]
        /\ position \in Int /\ job \in Execution \cup {None}
        /\ reported \in [Cids -> Nat]
      BY DEF Init
  <2>3. halted \in BOOLEAN
      BY DEF Init
  <2>4. \A c \in Cids : (fills[c] = None) = (orders[c] = "absent")
      BY <2>1, Zenon
  <2> QED
      BY <2>2, <2>3, <2>4 DEF TypeOK
<1>2. ExecutionInv
    BY DEF Init, ExecutionInv
<1>3. ReportInv
    BY LegIds DEF Init, ReportInv
<1> QED
    BY <1>1, <1>2, <1>3 DEF PaperInv

\* An event starts an execution from the position as it is.
LEMMA EventStep == ASSUME PaperInv, Event PROVE PaperInv'
<1> USE DEF PaperInv
<1>1. PICK p \in Prefixes, target \in Targets, offer \in Prices :
          /\ target # position
          /\ job' = [prefix |-> p, from |-> position, to |-> target,
                     price |-> offer, closed |-> FALSE,
                     fresh |-> \A c \in Cids : c[1] = p => orders[c] = "absent"]
          /\ UNCHANGED <<orders, fills, position, halted, reported>>
    BY DEF Event
<1>2. job' \in Execution
    BY <1>1, ModelAssumption DEF TypeOK, Execution
<1>3. TypeOK'
    BY <1>1, <1>2 DEF TypeOK
<1>4. ASSUME job'.fresh, NEW leg \in {"single", "close", "open"}
      PROVE  fills'[LegId(job'.prefix, leg)] = None
  <2>1. LegId(p, leg) \in Cids /\ LegId(p, leg)[1] = p
      BY DEF LegId, Cids
  <2>2. orders[LegId(p, leg)] = "absent"
      BY <1>1, <1>4, <2>1
  <2> QED
      BY <1>1, <2>1, <2>2 DEF TypeOK
<1>5. ExecutionInv'
    BY <1>1, <1>4 DEF ExecutionInv
<1>6. ReportInv'
    BY <1>1, LegIds DEF ReportInv
<1> QED
    BY <1>3, <1>5, <1>6

\* What a leg of the execution going on asks for.
LEMMA ExecutionType ==
    ASSUME PaperInv, job # None
    PROVE  /\ job \in Execution /\ job.prefix \in Prefixes /\ job.price \in Prices
           /\ job.from \in Int /\ job.to \in Int /\ job.to - job.from \in Int \ {0}
           /\ IsFlip(job.from, job.to) => -job.from \in Int \ {0} /\ job.to \in Int \ {0}
<1>1. job \in Execution
    BY DEF PaperInv, TypeOK
<1>2. /\ job.prefix \in Prefixes /\ job.price \in Prices
      /\ job.from \in Int /\ job.to \in Int
    BY <1>1 DEF Execution
<1>3. job.from # job.to
    BY DEF PaperInv, ExecutionInv
<1> QED
    BY <1>1, <1>2, <1>3, FlipMoves

LEMMA SingleStep ==
    ASSUME PaperInv, Single
    PROVE  PaperInv' /\ (job.fresh => position' = job.to)
<1> USE DEF PaperInv
<1> DEFINE c == LegId(job.prefix, "single")
           qty == job.to - job.from
<1>1. /\ job # None /\ ~IsFlip(job.from, job.to) /\ job' = None /\ halted' = halted
      /\ ExecuteMarket(c, qty, job.price, FALSE)
      /\ reported' = [reported EXCEPT ![c] = @ + 1]
    BY DEF Single, Report
<1>2. c \in Cids /\ qty \in Int \ {0} /\ job.price \in Prices /\ BookType
    BY <1>1, ExecutionType, LegIds DEF TypeOK, BookType
<1>3. /\ BookType' /\ \A d \in Cids \ {c} : fills'[d] = fills[d]
      /\ fills[c] = None => position' = position + qty
    BY <1>1, <1>2, ExecuteFacts
<1>4. reported' \in [Cids -> Nat] /\ reported'[c] > 0
      /\ \A d \in Cids \ {c} : reported'[d] = reported[d]
    BY <1>1, <1>2 DEF TypeOK
<1>5. TypeOK'
    BY <1>1, <1>3, <1>4 DEF TypeOK, BookType
<1>6. ReportInv'
  <2> SUFFICES ASSUME NEW p \in Prefixes
      PROVE  /\ fills'[LegId(p, "single")] # None => reported'[LegId(p, "single")] > 0
             /\ fills'[LegId(p, "open")] # None =>
                  reported'[LegId(p, "open")] > 0 /\ reported'[LegId(p, "close")] > 0
      BY DEF ReportInv
  <2>1. LegId(p, "open") # c /\ LegId(p, "close") # c
      BY DEF LegId
  <2> HIDE DEF c
  <2> QED
      BY <1>3, <1>4, <2>1, LegIds DEF ReportInv
<1>7. job.fresh => position' = job.to
    BY <1>1, <1>3, ExecutionType DEF ExecutionInv, TypeOK
<1> QED
    BY <1>1, <1>5, <1>6, <1>7 DEF ExecutionInv

\* The first leg of a flip makes the position flat.
LEMMA CloseStep == ASSUME PaperInv, Close PROVE PaperInv' /\ job' # None
<1> USE DEF PaperInv
<1> DEFINE c == LegId(job.prefix, "close")
<1>1. /\ job # None /\ IsFlip(job.from, job.to) /\ ~job.closed /\ halted' = halted
      /\ ExecuteMarket(c, -job.from, job.price, position # 0)
      /\ job' = [job EXCEPT !.closed = TRUE] /\ reported' = reported
    BY DEF Close, ReportNothing
<1>2. /\ c \in Cids /\ -job.from \in Int \ {0} /\ job.price \in Prices
      /\ BookType /\ (position # 0) \in BOOLEAN /\ job \in Execution
    BY <1>1, ExecutionType, LegIds DEF TypeOK, BookType
<1>3. /\ BookType' /\ fills'[c] # None
      /\ \A d \in Cids \ {c} : fills'[d] = fills[d]
      /\ fills[c] = None => position' = position + -job.from
    BY <1>1, <1>2, ExecuteFacts
<1>4. /\ job' \in Execution /\ job' # None
      /\ job'.prefix = job.prefix /\ job'.from = job.from /\ job'.to = job.to
      /\ job'.closed = TRUE /\ job'.fresh = job.fresh
    BY <1>1, <1>2, ModelAssumption DEF Execution
<1>5. TypeOK'
    BY <1>1, <1>3, <1>4 DEF TypeOK, BookType
<1>6. LegId(job.prefix, "single") # c /\ LegId(job.prefix, "open") # c
    BY DEF LegId
<1>7. \A p \in Prefixes : LegId(p, "single") # c /\ LegId(p, "open") # c
    BY DEF LegId
<1>8. job.from \in Int /\ job.prefix \in Prefixes /\ job.from # job.to /\ position = job.from
    BY <1>1, ExecutionType DEF ExecutionInv
<1>9. job.fresh => position' = 0
  <2>1. position + -job.from = 0
      BY <1>8
  <2> QED
      BY <1>1, <1>3, <2>1 DEF ExecutionInv
<1>10. job.fresh => /\ fills'[LegId(job.prefix, "single")] = None
                   /\ fills'[LegId(job.prefix, "open")] = None
  <2> HIDE DEF c
  <2> QED
      BY <1>1, <1>3, <1>6, <1>8, LegIds DEF ExecutionInv
<1>11. ExecutionInv'
    BY <1>1, <1>3, <1>4, <1>8, <1>9, <1>10 DEF ExecutionInv
<1>12. ReportInv'
  <2> HIDE DEF c
  <2> QED
      BY <1>1, <1>3, <1>7, LegIds DEF ReportInv
<1> QED
    BY <1>4, <1>5, <1>11, <1>12

LEMMA OpenStep ==
    ASSUME PaperInv, Open
    PROVE  PaperInv' /\ (job.fresh => position' = job.to)
<1> USE DEF PaperInv
<1> DEFINE c == LegId(job.prefix, "close")
           d == LegId(job.prefix, "open")
<1>1. /\ job # None /\ job.closed /\ job' = None /\ halted' = halted
      /\ ExecuteMarket(d, job.to, job.price, FALSE)
      /\ reported' = [reported EXCEPT ![c] = @ + 1, ![d] = @ + 1]
    BY DEF Open, ReportBoth
<1>2. IsFlip(job.from, job.to) /\ fills[c] # None
    BY <1>1 DEF ExecutionInv
<1>3. c \in Cids /\ d \in Cids /\ job.to \in Int \ {0} /\ job.price \in Prices /\ BookType
    BY <1>1, <1>2, ExecutionType, LegIds DEF TypeOK, BookType
<1>4. /\ BookType' /\ \A e \in Cids \ {d} : fills'[e] = fills[e]
      /\ fills[d] = None => position' = position + job.to
    BY <1>1, <1>3, ExecuteFacts
<1>5. c # d /\ \A p \in Prefixes : LegId(p, "single") # c /\ LegId(p, "single") # d
    BY DEF LegId
<1>6. \A p \in Prefixes : /\ LegId(p, "close") # d
                          /\ LegId(p, "open") = d <=> p = job.prefix
                          /\ LegId(p, "close") = c <=> p = job.prefix
    BY DEF LegId
<1> HIDE DEF c, d
<1>7. reported' \in [Cids -> Nat] /\ reported'[c] > 0 /\ reported'[d] > 0
      /\ \A e \in Cids \ {c, d} : reported'[e] = reported[e]
    BY <1>1, <1>3, <1>5 DEF TypeOK
<1>8. TypeOK'
    BY <1>1, <1>4, <1>7 DEF TypeOK, BookType
<1>9. ReportInv'
  <2> SUFFICES ASSUME NEW p \in Prefixes
      PROVE  /\ fills'[LegId(p, "single")] # None => reported'[LegId(p, "single")] > 0
             /\ fills'[LegId(p, "open")] # None =>
                  reported'[LegId(p, "open")] > 0 /\ reported'[LegId(p, "close")] > 0
      BY DEF ReportInv
  <2>1. CASE p = job.prefix
      BY <1>4, <1>5, <1>6, <1>7, <2>1, LegIds DEF ReportInv
  <2>2. CASE p # job.prefix
    <3>1. /\ LegId(p, "open") \notin {c, d} /\ LegId(p, "close") \notin {c, d}
          /\ LegId(p, "single") \notin {c, d}
        BY <2>2, <1>5, <1>6 DEF LegId, c
    <3> QED
        BY <1>4, <1>7, <3>1, LegIds DEF ReportInv
  <2> QED
      BY <2>1, <2>2
<1>10. job.fresh => position' = job.to
  <2>1. job.fresh => position = 0 /\ fills[d] = None
      BY <1>1 DEF ExecutionInv, d
  <2> QED
      BY <1>3, <1>4, <2>1
<1> QED
    BY <1>1, <1>8, <1>9, <1>10 DEF ExecutionInv

LEMMA PaperStep == ASSUME PaperInv, [Next]_vars PROVE PaperInv'
<1>1. CASE Event
    BY <1>1, EventStep
<1>2. CASE Single
    BY <1>2, SingleStep
<1>3. CASE Close
    BY <1>3, CloseStep
<1>4. CASE Open
    BY <1>4, OpenStep
<1>5. CASE Refused
    BY <1>5 DEF Refused, ReportNothing, PaperInv, TypeOK, ExecutionInv, ReportInv
<1>6. CASE Mark
    BY <1>6 DEF Mark, PaperInv, TypeOK, ExecutionInv, ReportInv
<1>7. CASE Toggle
    BY <1>7 DEF Toggle, PaperInv, TypeOK, ExecutionInv, ReportInv
<1>8. CASE UNCHANGED vars
    BY <1>8 DEF vars, PaperInv, TypeOK, ExecutionInv, ReportInv
<1> QED
    BY <1>1, <1>2, <1>3, <1>4, <1>5, <1>6, <1>7, <1>8 DEF Next

LEMMA PaperInvariance == Spec => []PaperInv
BY PaperInit, PaperStep, PTL DEF Spec

\* Every reachable state is well typed: no order stays NEW and exactly the ids
\* of filled orders have a fill (execution/paper.py:43-98).
THEOREM TypeCorrect == Spec => []TypeOK
<1>1. PaperInv => TypeOK
    BY DEF PaperInv
<1> QED
    BY PaperInvariance, <1>1, PTL

\* The only fill that changed the position and that no caller was ever given is
\* the close leg of a flip whose open leg never went through (paper.py:133-150).
THEOREM OnlyCutFlipsAreUnreported == Spec => []UnreportedIsCutFlip
<1>1. ASSUME PaperInv, NEW p \in Prefixes
      PROVE  /\ fills[<<p, "single">>] # None => reported[<<p, "single">>] # 0
             /\ fills[<<p, "open">>] # None =>
                  reported[<<p, "open">>] # 0 /\ reported[<<p, "close">>] # 0
  <2>1. /\ reported[LegId(p, "single")] \in Nat /\ reported[LegId(p, "open")] \in Nat
        /\ reported[LegId(p, "close")] \in Nat
      BY <1>1, LegIds DEF PaperInv, TypeOK
  <2> QED
      BY <1>1, <2>1 DEF PaperInv, ReportInv, LegId
<1>2. PaperInv => UnreportedIsCutFlip
    BY <1>1 DEF UnreportedIsCutFlip
<1> QED
    BY PaperInvariance, <1>2, PTL

\* An execution under a prefix of its own ends at its target; the kill switch can
\* leave it where it began or, between the legs of a flip, flat, and nowhere else
\* (paper.py:111-150).
THEOREM TargetIsReached == Spec => ExecutionReachesTarget
<1>1. ASSUME PaperInv, [Next]_vars, job # None, job' = None, job.fresh
      PROVE  \/ position' = job.to
             \/ /\ halted
                /\ position' = IF job.closed THEN 0 ELSE job.from
  <2>1. CASE Single
      BY <1>1, <2>1, SingleStep
  <2>2. CASE Open
      BY <1>1, <2>2, OpenStep
  <2>3. CASE Close
      BY <1>1, <2>3, CloseStep
  <2>4. CASE Refused
      BY <1>1, <2>4 DEF Refused, PaperInv, ExecutionInv
  <2>5. CASE Event \/ Mark \/ Toggle \/ UNCHANGED vars
      BY <1>1, <2>5 DEF Event, Mark, Toggle, vars
  <2> QED
      BY <1>1, <2>1, <2>2, <2>3, <2>4, <2>5 DEF Next
<1> QED
    BY PaperInvariance, <1>1, PTL DEF Spec, ExecutionReachesTarget

-----------------------------------------------------------------------------
(* The monitor against the cash ledger                                     *)

Performance ==
    [qty : Int, avg : Int, mark : Int, realized : Int, fees : Int, slippage : Int,
     closes : Int, wins : Int, peak : Int, drawdown : Int]

\* The average a fill on the side of the position leads to is exact: the division
\* of record_fill has no remainder.
Exact(m, f) ==
    m.qty * f.qty >= 0 =>
        Magnitude(m.qty + f.qty) * Opened(m, f).avg
          = Magnitude(m.qty) * m.avg + Magnitude(f.qty) * f.price

\* What was paid for the position, with the profit that was realized, before fees
\* and after.
Book(m) == m.realized - m.qty * m.avg
NetBook(m) == Book(m) - m.fees

\* Measuring the equity changes neither the position nor the profit.
LEMMA MeasuredKeeps ==
    ASSUME NEW m \in Performance
    PROVE  /\ Measured(m) \in Performance
           /\ Measured(m).qty = m.qty /\ Measured(m).avg = m.avg
           /\ Measured(m).mark = m.mark /\ Measured(m).realized = m.realized
           /\ Measured(m).fees = m.fees
<1>1. m.qty \in Int /\ m.avg \in Int /\ m.mark \in Int /\ m.realized \in Int
      /\ m.fees \in Int /\ m.slippage \in Int /\ m.peak \in Int /\ m.drawdown \in Int
    BY DEF Performance
<1>2. m.qty * (m.mark - m.avg) \in Int
    BY <1>1
<1>3. Unrealized(m) \in Int
    BY <1>2 DEF Unrealized
<1>4. NetPnl(m) \in Int
    BY <1>1, <1>3 DEF NetPnl
<1> HIDE DEF NetPnl
<1> DEFINE peak == Larger(m.peak, NetPnl(m))
<1>5. peak \in Int
    BY <1>1, <1>4 DEF Larger
<1>6. Larger(m.drawdown, peak - NetPnl(m)) \in Int
    BY <1>1, <1>4, <1>5 DEF Larger
<1>7. Measured(m) = [m EXCEPT !.peak = peak,
                              !.drawdown = Larger(m.drawdown, peak - NetPnl(m))]
    BY DEF Measured, Performance
<1> HIDE DEF peak
<1> QED
    BY <1>5, <1>6, <1>7 DEF Performance

\* A fill on the side of the position, its average being exact, adds to the book
\* what it cost.
LEMMA OpenedFacts ==
    ASSUME NEW m \in Performance, NEW f \in Fill, m.qty * f.qty >= 0
    PROVE  /\ Opened(m, f) \in Performance
           /\ Opened(m, f).qty = m.qty + f.qty /\ Opened(m, f).fees = m.fees
           /\ Exact(m, f) => Book(Opened(m, f)) = Book(m) - f.qty * f.price
<1> DEFINE q == m.qty
           n == f.qty
           total == Magnitude(q) * m.avg + Magnitude(n) * f.price
           avg == total \div Magnitude(q + n)
<1>1. q \in Int /\ n \in Int /\ n # 0 /\ m.avg \in Int /\ f.price \in Int /\ m.realized \in Int
    BY DEF Performance, Fill
<1>2. \/ q >= 0 /\ n > 0
      \/ q <= 0 /\ n < 0
  <2>1. ASSUME q > 0, n < 0 PROVE FALSE
      BY <1>1, <2>1
  <2>2. ASSUME q < 0, n > 0 PROVE FALSE
      BY <1>1, <2>2
  <2> QED
      BY <1>1, <2>1, <2>2
<1>3. Magnitude(q + n) \in Nat \ {0} /\ Magnitude(q) \in Nat /\ Magnitude(n) \in Nat
    BY <1>1, <1>2, MagnitudeType
<1>4. total \in Int
    BY <1>1, <1>3
<1>5. avg \in Int
  <2> HIDE DEF total
  <2> QED
      BY <1>3, <1>4
<1>6. Opened(m, f) = [m EXCEPT !.qty = q + n, !.avg = avg]
    BY DEF Opened
<1>7. /\ Opened(m, f) \in Performance
      /\ Opened(m, f).qty = q + n /\ Opened(m, f).avg = avg
      /\ Opened(m, f).fees = m.fees /\ Opened(m, f).realized = m.realized
  <2> HIDE DEF avg, q, n
  <2>1. q + n \in Int
      BY <1>1
  <2> QED
      BY <1>5, <1>6, <2>1 DEF Performance
<1>8. ASSUME Exact(m, f) PROVE Book(Opened(m, f)) = Book(m) - n * f.price
  <2>1. Magnitude(q + n) * avg = Magnitude(q) * m.avg + Magnitude(n) * f.price
      BY <1>7, <1>8 DEF Exact
  <2> HIDE DEF avg
  <2>2. (q + n) * avg = q * m.avg + n * f.price
    <3>1. CASE q >= 0 /\ n > 0
        BY <1>1, <1>5, <2>1, <3>1 DEF Magnitude
    <3>2. CASE q <= 0 /\ n < 0
      <4>1. Magnitude(q + n) = -(q + n) /\ Magnitude(q) = -q /\ Magnitude(n) = -n
          BY <1>1, <3>2 DEF Magnitude
      <4>2. (-(q + n)) * avg = (-q) * m.avg + (-n) * f.price
          BY <2>1, <4>1
      <4>3. /\ (-(q + n)) * avg = -((q + n) * avg)
            /\ (-q) * m.avg = -(q * m.avg) /\ (-n) * f.price = -(n * f.price)
          BY <1>1, <1>5
      <4>4. (q + n) * avg \in Int /\ q * m.avg \in Int /\ n * f.price \in Int
          BY <1>1, <1>5
      <4> QED
          BY <4>2, <4>3, <4>4
    <3> QED
        BY <1>2, <3>1, <3>2
  <2>3. Book(Opened(m, f)) = m.realized - (q + n) * avg
      BY <1>7 DEF Book
  <2> QED
      BY <1>1, <2>2, <2>3 DEF Book
<1> QED
    BY <1>7, <1>8

\* A fill against the position does so whatever the averages are.
LEMMA ReducedFacts ==
    ASSUME NEW m \in Performance, NEW f \in Fill, m.qty * f.qty < 0
    PROVE  /\ Reduced(m, f) \in Performance
           /\ Reduced(m, f).qty = m.qty + f.qty /\ Reduced(m, f).fees = m.fees
           /\ Book(Reduced(m, f)) = Book(m) - f.qty * f.price
<1> DEFINE q == m.qty
           n == f.qty
           closed == IF Magnitude(n) < Magnitude(q) THEN Magnitude(n) ELSE Magnitude(q)
           pnl == closed * (f.price - m.avg) * Sign(q)
           avg == AverageAfterClose(m, f)
<1>1. /\ q \in Int /\ n \in Int /\ m.avg \in Int /\ f.price \in Int
      /\ m.realized \in Int /\ m.closes \in Int /\ m.wins \in Int
    BY DEF Performance, Fill
<1>2. \/ q > 0 /\ n < 0
      \/ q < 0 /\ n > 0
  <2>1. ASSUME q >= 0, n >= 0 PROVE FALSE
      BY <1>1, <2>1
  <2>2. ASSUME q <= 0, n <= 0 PROVE FALSE
      BY <1>1, <2>2
  <2> QED
      BY <1>1, <2>1, <2>2
<1>3. avg \in Int
    BY <1>1 DEF AverageAfterClose
<1>4. closed \in Int /\ Sign(q) \in Int
    BY <1>1, MagnitudeType, SignType
<1>5. pnl \in Int
  <2> HIDE DEF closed
  <2> QED
      BY <1>1, <1>4
<1>6. pnl - (q + n) * avg = -(q * m.avg) - n * f.price
  <2>1. CASE q > 0 /\ n < 0
    <3>1. Sign(q) = 1 /\ Magnitude(q) = q /\ Magnitude(n) = -n
        BY <1>1, <2>1 DEF Sign, Magnitude
    <3>2. CASE -n < q
      <4>1. closed = -n /\ avg = m.avg
          BY <1>1, <2>1, <3>1, <3>2 DEF AverageAfterClose, Sign
      <4> QED
          BY <1>1, <3>1, <4>1
    <3>3. CASE -n = q
      <4>1. closed = q /\ avg = 0
          BY <1>1, <3>1, <3>3 DEF AverageAfterClose
      <4>2. pnl = q * (f.price - m.avg)
          BY <1>1, <3>1, <4>1
      <4>3. n = -q /\ (q + n) * avg = 0
          BY <1>1, <3>3, <4>1
      <4>4. n * f.price = -(q * f.price)
          BY <1>1, <4>3
      <4> HIDE DEF pnl, avg, closed
      <4> QED
          BY <1>1, <4>2, <4>3, <4>4
    <3>4. CASE -n > q
      <4>1. closed = q /\ avg = f.price
          BY <1>1, <2>1, <3>1, <3>4 DEF AverageAfterClose, Sign
      <4> QED
          BY <1>1, <3>1, <4>1
    <3> QED
        BY <1>1, <3>2, <3>3, <3>4
  <2>2. CASE q < 0 /\ n > 0
    <3>1. Sign(q) = -1 /\ Magnitude(q) = -q /\ Magnitude(n) = n
        BY <1>1, <2>2 DEF Sign, Magnitude
    <3>2. CASE n < -q
      <4>1. closed = n /\ avg = m.avg
          BY <1>1, <2>2, <3>1, <3>2 DEF AverageAfterClose, Sign
      <4> QED
          BY <1>1, <3>1, <4>1
    <3>3. CASE n = -q
      <4>1. closed = -q /\ avg = 0
          BY <1>1, <3>1, <3>3 DEF AverageAfterClose
      <4>2. pnl = q * (f.price - m.avg)
          BY <1>1, <3>1, <4>1
      <4>3. n = -q /\ (q + n) * avg = 0
          BY <1>1, <3>3, <4>1
      <4>4. n * f.price = -(q * f.price)
          BY <1>1, <4>3
      <4> HIDE DEF pnl, avg, closed
      <4> QED
          BY <1>1, <4>2, <4>3, <4>4
    <3>4. CASE n > -q
      <4>1. closed = -q /\ avg = f.price
          BY <1>1, <2>2, <3>1, <3>4 DEF AverageAfterClose, Sign
      <4> QED
          BY <1>1, <3>1, <4>1
    <3> QED
        BY <1>1, <3>2, <3>3, <3>4
  <2> QED
      BY <1>2, <2>1, <2>2
<1>7. Reduced(m, f) = [m EXCEPT !.qty = q + n, !.avg = avg, !.realized = m.realized + pnl,
                                !.closes = m.closes + 1,
                                !.wins = IF pnl > 0 THEN m.wins + 1 ELSE m.wins]
    BY DEF Reduced, Performance
<1> HIDE DEF pnl, avg
<1>8. /\ Reduced(m, f) \in Performance
      /\ Reduced(m, f).qty = q + n /\ Reduced(m, f).avg = avg
      /\ Reduced(m, f).fees = m.fees /\ Reduced(m, f).realized = m.realized + pnl
  <2>1. q + n \in Int /\ m.realized + pnl \in Int /\ m.closes + 1 \in Int
        /\ (IF pnl > 0 THEN m.wins + 1 ELSE m.wins) \in Int
      BY <1>1, <1>5
  <2> HIDE DEF q, n
  <2> QED
      BY <1>3, <1>7, <2>1 DEF Performance
<1>9. Book(Reduced(m, f)) = m.realized + pnl - (q + n) * avg
  <2>1. Book(Reduced(m, f))
          = Reduced(m, f).realized - Reduced(m, f).qty * Reduced(m, f).avg
      BY DEF Book
  <2> HIDE DEF q, n
  <2> QED
      BY <1>1, <1>3, <1>5, <1>8, <2>1
<1>10. (q + n) * avg \in Int /\ q * m.avg \in Int /\ n * f.price \in Int
    BY <1>1, <1>3
<1> QED
    BY <1>1, <1>5, <1>6, <1>8, <1>9, <1>10 DEF Book

\* The fill a caller is given reaches monitor and ledger alike.
LEMMA RecordedFacts ==
    ASSUME NEW m \in Performance, NEW l \in [qty : Int, cash : Int], NEW f \in Fill,
           m.qty = l.qty
    PROVE  /\ RecordFill(m, f) \in Performance /\ Posted(l, f) \in [qty : Int, cash : Int]
           /\ RecordFill(m, f).qty = Posted(l, f).qty
           /\ Exact(m, f) /\ NetBook(m) = l.cash
                => NetBook(RecordFill(m, f)) = Posted(l, f).cash
<1> DEFINE moved == IF m.qty * f.qty >= 0 THEN Opened(m, f) ELSE Reduced(m, f)
           paid == [moved EXCEPT !.fees = @ + f.fee, !.slippage = @ + f.slippage]
<1>1. m.qty \in Int /\ f.qty \in Int /\ f.price \in Int /\ f.fee \in Int
      /\ f.slippage \in Int /\ m.fees \in Int /\ l.qty \in Int /\ l.cash \in Int
    BY DEF Performance, Fill
<1>2. f.qty * f.price \in Int /\ m.qty * f.qty \in Int
    BY <1>1
<1>3. /\ moved \in Performance /\ moved.qty = m.qty + f.qty /\ moved.fees = m.fees
      /\ Exact(m, f) => Book(moved) = Book(m) - f.qty * f.price
  <2>1. CASE m.qty * f.qty >= 0
      BY <2>1, OpenedFacts
  <2>2. CASE ~(m.qty * f.qty >= 0)
    <3>1. m.qty * f.qty < 0
        BY <1>2, <2>2
    <3> QED
        BY <2>2, <3>1, ReducedFacts
  <2> QED
      BY <2>1, <2>2
<1> HIDE DEF moved
<1>4. /\ paid \in Performance /\ paid.qty = moved.qty /\ paid.avg = moved.avg
      /\ paid.realized = moved.realized /\ paid.fees = m.fees + f.fee
  <2>1. moved.fees + f.fee \in Int /\ moved.slippage + f.slippage \in Int
      BY <1>1, <1>3 DEF Performance
  <2>2. paid = [moved EXCEPT !.fees = m.fees + f.fee,
                             !.slippage = moved.slippage + f.slippage]
      BY <1>3 DEF Performance
  <2> HIDE DEF paid
  <2> QED
      BY <1>3, <2>1, <2>2 DEF Performance
<1>5. Book(paid) = Book(moved)
    BY <1>4 DEF Book
<1>6. RecordFill(m, f) = Measured(paid)
    BY DEF RecordFill, moved
<1> HIDE DEF paid
<1>7. /\ RecordFill(m, f) \in Performance /\ RecordFill(m, f).qty = paid.qty
      /\ Book(RecordFill(m, f)) = Book(paid) /\ RecordFill(m, f).fees = paid.fees
    BY <1>4, <1>6, MeasuredKeeps DEF Book
<1>8. Posted(l, f) = [qty |-> l.qty + f.qty, cash |-> l.cash - f.qty * f.price - f.fee]
    BY DEF Posted
<1>9. ASSUME Exact(m, f) PROVE NetBook(RecordFill(m, f)) = NetBook(m) - f.qty * f.price - f.fee
  <2>1. Book(RecordFill(m, f)) = Book(m) - f.qty * f.price
      BY <1>3, <1>5, <1>7, <1>9
  <2>2. RecordFill(m, f).fees = m.fees + f.fee
      BY <1>4, <1>7
  <2>3. Book(m) \in Int
      BY DEF Book, Performance
  <2> QED
      BY <1>1, <1>2, <2>1, <2>2, <2>3 DEF NetBook
<1> QED
    BY <1>1, <1>2, <1>3, <1>4, <1>7, <1>8, <1>9

\* The monitor holds what the ledger of the reported fills holds.
HeldIsReported == perf.qty = ledger.qty

MonitorInv ==
    perf \in Performance /\ ledger \in [qty : Int, cash : Int] /\ HeldIsReported

\* What was paid and realized, less the fees, is the cash that came in.
Balanced == NetBook(perf) = ledger.cash

\* Every average the step leads to is exact.
ExactAverages ==
    \A p \in Prefixes :
        LET c == LegId(p, "close")
            reports(id) == reported'[id] # reported[id]
        IN  /\ reports(LegId(p, "single")) => Exact(perf, fills'[LegId(p, "single")])
            /\ reports(c) =>
                 /\ Exact(perf, fills'[c])
                 /\ Exact(RecordFill(perf, fills'[c]), fills'[LegId(p, "open")])

LEMMA MonitorInit == Init => MonitorInv /\ Balanced
BY DEF Init, Flat, MonitorInv, HeldIsReported, Balanced, NetBook, Book, Performance

LEMMA MonitorSingle ==
    ASSUME PaperInv, MonitorInv, Single
    PROVE  MonitorInv' /\ (ExactAverages /\ Balanced => Balanced')
<1> DEFINE c == LegId(job.prefix, "single")
           f == fills'[c]
<1>1. /\ job # None /\ reported' = [reported EXCEPT ![c] = @ + 1]
      /\ ExecuteMarket(c, job.to - job.from, job.price, FALSE)
      /\ perf' = RecordFill(perf, f) /\ ledger' = Posted(ledger, f)
    BY DEF Single, Report
<1>2. /\ c \in Cids /\ BookType /\ job.to - job.from \in Int \ {0}
      /\ job.prefix \in Prefixes /\ job.price \in Prices /\ reported[c] \in Nat
    BY <1>1, ExecutionType, LegIds DEF PaperInv, TypeOK, BookType
<1>3. f \in Fill
    BY <1>1, <1>2, ExecuteFacts
<1>4. reported'[c] # reported[c]
    BY <1>1, <1>2 DEF PaperInv, TypeOK
<1>5. ExactAverages => Exact(perf, f)
    BY <1>2, <1>4 DEF ExactAverages
<1> HIDE DEF f
<1>6. /\ perf' \in Performance /\ ledger' \in [qty : Int, cash : Int]
      /\ perf'.qty = ledger'.qty
      /\ Exact(perf, f) /\ NetBook(perf) = ledger.cash => NetBook(perf') = ledger'.cash
    BY <1>1, <1>3, RecordedFacts DEF MonitorInv, HeldIsReported
<1> QED
    BY <1>5, <1>6 DEF MonitorInv, HeldIsReported, Balanced, NetBook, Book

LEMMA MonitorOpen ==
    ASSUME PaperInv, MonitorInv, Open
    PROVE  MonitorInv' /\ (ExactAverages /\ Balanced => Balanced')
<1> DEFINE c == LegId(job.prefix, "close")
           d == LegId(job.prefix, "open")
           f == fills'[c]
           g == fills'[d]
           m == RecordFill(perf, f)
           l == Posted(ledger, f)
<1>1. /\ job # None /\ job.closed
      /\ reported' = [reported EXCEPT ![c] = @ + 1, ![d] = @ + 1]
      /\ ExecuteMarket(d, job.to, job.price, FALSE)
      /\ perf' = RecordFill(m, g) /\ ledger' = Posted(l, g)
    BY DEF Open, ReportBoth
<1>2. IsFlip(job.from, job.to) /\ fills[c] # None
    BY <1>1 DEF PaperInv, ExecutionInv
<1>3. /\ c \in Cids /\ d \in Cids /\ c # d /\ BookType /\ job.to \in Int \ {0}
      /\ job.prefix \in Prefixes /\ job.price \in Prices /\ reported[c] \in Nat
    BY <1>1, <1>2, ExecutionType, LegIds DEF PaperInv, TypeOK, BookType, LegId
<1>4. g \in Fill /\ f = fills[c]
    BY <1>1, <1>3, ExecuteFacts
<1>5. f \in Fill
    BY <1>2, <1>3, <1>4 DEF BookType
<1>6. reported'[c] # reported[c]
    BY <1>1, <1>3 DEF PaperInv, TypeOK
<1>7. ExactAverages => Exact(perf, f) /\ Exact(m, g)
    BY <1>3, <1>6 DEF ExactAverages
<1> HIDE DEF f, g
<1>8. /\ m \in Performance /\ l \in [qty : Int, cash : Int] /\ m.qty = l.qty
      /\ Exact(perf, f) /\ NetBook(perf) = ledger.cash => NetBook(m) = l.cash
    BY <1>5, RecordedFacts DEF MonitorInv, HeldIsReported
<1> HIDE DEF m, l
<1>9. /\ perf' \in Performance /\ ledger' \in [qty : Int, cash : Int]
      /\ perf'.qty = ledger'.qty
      /\ Exact(m, g) /\ NetBook(m) = l.cash => NetBook(perf') = ledger'.cash
    BY <1>1, <1>4, <1>8, RecordedFacts
<1> QED
    BY <1>7, <1>8, <1>9 DEF MonitorInv, HeldIsReported, Balanced, NetBook, Book

LEMMA MonitorMark ==
    ASSUME MonitorInv, Mark PROVE MonitorInv' /\ (Balanced => Balanced')
<1>1. PICK offer \in Prices : perf' = RecordMark(perf, offer) /\ ledger' = ledger
    BY DEF Mark
<1> DEFINE m == [perf EXCEPT !.mark = offer]
<1>2. /\ m \in Performance /\ m.qty = perf.qty /\ m.avg = perf.avg
      /\ m.realized = perf.realized /\ m.fees = perf.fees
    BY ModelAssumption DEF MonitorInv, Performance
<1>3. perf' = Measured(m)
    BY <1>1 DEF RecordMark
<1> HIDE DEF m
<1>4. /\ perf' \in Performance /\ perf'.qty = perf.qty /\ perf'.avg = perf.avg
      /\ perf'.realized = perf.realized /\ perf'.fees = perf.fees
    BY <1>2, <1>3, MeasuredKeeps
<1> QED
    BY <1>1, <1>4 DEF MonitorInv, HeldIsReported, Balanced, NetBook, Book

LEMMA MonitorStep ==
    ASSUME PaperInv, MonitorInv, [Next]_vars
    PROVE  MonitorInv' /\ (ExactAverages /\ Balanced => Balanced')
<1>1. CASE Single
    BY <1>1, MonitorSingle
<1>2. CASE Open
    BY <1>2, MonitorOpen
<1>3. CASE Mark
    BY <1>3, MonitorMark
<1>4. CASE Event \/ Close \/ Refused \/ Toggle \/ UNCHANGED vars
  <2>1. UNCHANGED <<perf, ledger>>
      BY <1>4 DEF Event, Close, Refused, Toggle, ReportNothing, vars
  <2> QED
      BY <2>1 DEF MonitorInv, HeldIsReported, Balanced, NetBook, Book
<1> QED
    BY <1>1, <1>2, <1>3, <1>4 DEF Next

\* The performance monitor and the cash ledger never disagree about the position,
\* whatever was repeated, refused or never reported (performance.py:82-109,
\* robustness.py:88-111).
THEOREM MonitorHoldsLedger == Spec => []HeldIsReported
<1>1. MonitorInv => HeldIsReported
    BY DEF MonitorInv
<1>2. PaperInv /\ MonitorInv /\ [Next]_vars => MonitorInv'
    BY MonitorStep
<1> QED
    BY PaperInvariance, MonitorInit, <1>1, <1>2, PTL DEF Spec

\* As long as averages are what the code means them to be, quotients without
\* remainder, profit is wealth: realized and unrealized profit less the fees are the
\* cash and the value of what is held (performance.py:82-108, robustness.py:107-121).
THEOREM ProfitIsWealth == Spec /\ [][ExactAverages]_vars => []PnlIsWealth
<1>1. ASSUME MonitorInv, Balanced PROVE PnlIsWealth
  <2>1. /\ perf.qty \in Int /\ perf.avg \in Int /\ perf.mark \in Int /\ perf.realized \in Int
        /\ perf.fees \in Int /\ perf.qty = ledger.qty /\ ledger.cash \in Int
      BY <1>1 DEF MonitorInv, HeldIsReported, Performance
  <2>2. ledger.cash = perf.realized - perf.qty * perf.avg - perf.fees
      BY <1>1 DEF Balanced, NetBook, Book
  <2>3. perf.qty * perf.avg \in Int /\ perf.qty * perf.mark \in Int
      BY <2>1
  <2>4. perf.qty * (perf.mark - perf.avg) = perf.qty * perf.mark - perf.qty * perf.avg
      BY <2>1
  <2>5. ASSUME perf.mark # 0 \/ perf.qty = 0
        PROVE  Unrealized(perf) = perf.qty * perf.mark - perf.qty * perf.avg
    <3>1. CASE perf.mark # 0
        BY <2>4, <3>1 DEF Unrealized
    <3>2. CASE perf.mark = 0 /\ perf.qty = 0
      <4>1. perf.qty * perf.mark = 0 /\ perf.qty * perf.avg = 0
          BY <2>1, <3>2
      <4> QED
          BY <3>2, <4>1 DEF Unrealized
    <3> QED
        BY <2>5, <3>1, <3>2
  <2> QED
      BY <2>1, <2>2, <2>3, <2>5 DEF PnlIsWealth
<1>2. PaperInv /\ MonitorInv /\ Balanced /\ [Next]_vars /\ [ExactAverages]_vars
        => MonitorInv' /\ Balanced'
  <2>1. CASE ExactAverages
      BY <2>1, MonitorStep
  <2>2. CASE UNCHANGED vars
      BY <2>2 DEF vars, MonitorInv, HeldIsReported, Balanced, NetBook, Book
  <2> QED
      BY <2>1, <2>2
<1> QED
    BY PaperInvariance, MonitorInit, <1>1, <1>2, PTL DEF Spec

(***************************************************************************)
(* The backtest: nothing is filled twice, forgotten, or filled too early.  *)
(***************************************************************************)
\* What the numbers of a run are: orders to be filled are not empty.
Lots == [symbol : Symbols, qty : Int \ {0}, placed : Nat \ {0}, due : Nat \ {0}]

LEMMA LotFields ==
  \A o \in Lots : /\ o.symbol \in Symbols /\ o.qty \in Int /\ o.qty # 0
                  /\ o.placed \in Nat /\ o.placed >= 1 /\ o.due \in Nat /\ o.due >= 1
BY DEF Lots

LEMMA SmallBounds ==
  ASSUME NEW a \in Int, NEW b \in Int
  PROVE  /\ Min({a, b}) = IF a <= b THEN a ELSE b
         /\ Max({a, b}) = IF a <= b THEN b ELSE a
BY DEF Min, Max

LEMMA BarTimes ==
  ASSUME NEW s \in Symbols
  PROVE  /\ LastBar(s) \in Nat /\ LastBar(s) >= 1
         /\ \A i \in 1..LastBar(s) : Times[s][i] \in Int
         /\ \A i, j \in 1..LastBar(s) : i <= j => Times[s][i] <= Times[s][j]
<1>1. Times[s] \in Seq(Int) /\ Increasing(Times[s]) /\ Len(Times[s]) > 0
  BY ConfigAssumption DEF ValidConfig
<1>2. LastBar(s) \in Nat /\ LastBar(s) >= 1 /\ DOMAIN Times[s] = 1..LastBar(s)
  BY <1>1 DEF LastBar
<1>3. \A i \in 1..LastBar(s) : Times[s][i] \in Int
  BY <1>1, <1>2
<1>4. \A i, j \in 1..LastBar(s) : i < j => Times[s][i] < Times[s][j]
  BY <1>1, <1>2 DEF Increasing
<1>5. \A i, j \in 1..LastBar(s) : i <= j => i = j \/ i < j
  BY <1>2
<1>6. \A i, j \in 1..LastBar(s) : i <= j => Times[s][i] <= Times[s][j]
  BY <1>3, <1>4, <1>5
<1> QED BY <1>2, <1>3, <1>6

\* When an order that was placed in bar i may be filled.
Awaits(s, i, due) ==
    /\ due \in i..LastBar(s)
    /\ \/ due = LastBar(s)
       \/ due >= i + LatencyBars /\ Times[s][due] >= Times[s][i] + LatencySeconds

LEMMA ExecuteIdxAwaits ==
  ASSUME NEW s \in Symbols, NEW i \in 1..LastBar(s)
  PROVE  Awaits(s, i, ExecuteIdx(s, i))
<1> DEFINE inTime == {j \in i..LastBar(s) : Times[s][j] >= Times[s][i] + LatencySeconds}
           T == inTime \cup {LastBar(s)}
           m == Min(T)
           b == Min({i + LatencyBars, LastBar(s)})
<1>1. /\ LatencyBars \in Int /\ LatencyBars >= 0 /\ LatencySeconds \in Int
      /\ LastBar(s) \in Nat
  BY ConfigAssumption, BarTimes DEF ValidConfig
<1>2. m \in T
  <2>1. T \subseteq Nat /\ T # {}
    BY <1>1
  <2> HIDE DEF T
  <2>2. \E x \in T : \A y \in T : x <= y
    BY <2>1, LeastNumber
  <2> QED BY <2>2 DEF Min
<1>3. /\ m \in i..LastBar(s)
      /\ m = LastBar(s) \/ Times[s][m] >= Times[s][i] + LatencySeconds
  <2> HIDE DEF m
  <2> QED BY <1>1, <1>2
<1>4. b = IF i + LatencyBars <= LastBar(s) THEN i + LatencyBars ELSE LastBar(s)
  BY <1>1, SmallBounds
<1>5. ExecuteIdx(s, i) = Max({b, m})
  BY DEF ExecuteIdx
<1> HIDE DEF b, m, inTime
<1>6. b \in i..LastBar(s) /\ (b = LastBar(s) \/ b = i + LatencyBars)
  BY <1>1, <1>4
<1>7. ExecuteIdx(s, i) = IF b <= m THEN m ELSE b
  <2>1. b \in Int /\ m \in Int
    BY <1>1, <1>3, <1>6
  <2>2. Max({b, m}) = IF b <= m THEN m ELSE b
    BY <2>1, SmallBounds
  <2> QED BY <1>5, <2>2
<1>8. \A k, l \in 1..LastBar(s) : Times[s][k] \in Int /\ (k <= l => Times[s][k] <= Times[s][l])
  BY BarTimes
<1>9. CASE b <= m
  BY <1>1, <1>3, <1>6, <1>7, <1>9 DEF Awaits
<1>10. CASE ~(b <= m)
  <2>1. m # LastBar(s) /\ Times[s][m] >= Times[s][i] + LatencySeconds /\ Times[s][m] <= Times[s][b]
    BY <1>1, <1>3, <1>6, <1>8, <1>10
  <2>2. Times[s][i] \in Int /\ Times[s][m] \in Int /\ Times[s][b] \in Int
    BY <1>1, <1>3, <1>6, <1>8
  <2>3. Times[s][b] >= Times[s][i] + LatencySeconds
    BY <1>1, <2>1, <2>2
  <2> QED BY <1>1, <1>3, <1>6, <1>7, <1>10, <2>3 DEF Awaits
<1> QED BY <1>9, <1>10

\* Waiting longer does no harm.
LEMMA AwaitsLater ==
  ASSUME NEW s \in Symbols, NEW i \in 1..LastBar(s), NEW due, Awaits(s, i, due),
         NEW later \in due..LastBar(s)
  PROVE  Awaits(s, i, later)
<1>1. /\ LatencyBars \in Int /\ LatencySeconds \in Int /\ LastBar(s) \in Nat
  BY ConfigAssumption, BarTimes
<1>2. due \in i..LastBar(s) /\ later \in i..LastBar(s) /\ due <= later
  BY <1>1 DEF Awaits
<1>3. Times[s][i] \in Int /\ Times[s][due] \in Int /\ Times[s][later] \in Int
      /\ Times[s][due] <= Times[s][later]
  BY <1>1, <1>2, BarTimes
<1> QED BY <1>1, <1>2, <1>3 DEF Awaits

-----------------------------------------------------------------------------
(* What is ordered of a symbol, by sequences of orders *)

OfSymbol(seq, s) == [i \in DOMAIN seq |-> IF seq[i].symbol = s THEN seq[i].qty ELSE 0]

LEMMA OrderedIsSum ==
  ASSUME NEW seq \in Seq(Lots), NEW s
  PROVE  /\ OrderedOf(seq, s) = SumFunctionOnSet(OfSymbol(seq, s), 1..Len(seq))
         /\ OrderedOf(seq, s) \in Int
         /\ \A i \in 1..Len(seq) : OfSymbol(seq, s)[i] \in Int
         /\ Len(seq) \in Nat /\ IsFiniteSet(1..Len(seq))
<1>1. Len(seq) \in Nat /\ DOMAIN seq = 1..Len(seq) /\ IsFiniteSet(1..Len(seq))
  BY FS_Interval
<1>2. \A i \in 1..Len(seq) : OfSymbol(seq, s)[i] \in Int
  BY <1>1, LotFields DEF OfSymbol
<1>3. OrderedOf(seq, s) = SumFunctionOnSet(OfSymbol(seq, s), 1..Len(seq))
  BY <1>1 DEF OrderedOf, SumFunction, OfSymbol
<1>4. SumFunctionOnSet(OfSymbol(seq, s), 1..Len(seq)) \in Int
  <2> DEFINE S == 1..Len(seq)
  <2>1. IsFiniteSet(S) /\ \A i \in S : OfSymbol(seq, s)[i] \in Int
    BY <1>1, <1>2
  <2> HIDE DEF S
  <2>2. SumFunctionOnSet(OfSymbol(seq, s), S) \in Int
    BY <2>1, SumType
  <2> QED BY <2>2 DEF S
<1> QED BY <1>1, <1>2, <1>3, <1>4

LEMMA OrderedNothing == ASSUME NEW s PROVE OrderedOf(<<>>, s) = 0
BY SumEmpty DEF OrderedOf, SumFunction

LEMMA OrderedAppend ==
  ASSUME NEW seq \in Seq(Lots), NEW o \in Lots, NEW s
  PROVE  OrderedOf(Append(seq, o), s)
           = OrderedOf(seq, s) + (IF o.symbol = s THEN o.qty ELSE 0)
<1> DEFINE n == Len(seq)
           f == OfSymbol(Append(seq, o), s)
           g == OfSymbol(seq, s)
<1>1. n \in Nat /\ Append(seq, o) \in Seq(Lots) /\ Len(Append(seq, o)) = n + 1
  OBVIOUS
<1>2. f[n + 1] = (IF o.symbol = s THEN o.qty ELSE 0) /\ f[n + 1] \in Int
  BY LotFields DEF OfSymbol
<1>3. \A i \in 1..n : f[i] \in Int /\ g[i] = f[i]
  BY LotFields DEF OfSymbol
<1>4. OrderedOf(Append(seq, o), s) = SumFunctionOnSet(f, 1..(n + 1))
  BY <1>1, OrderedIsSum
<1>5. OrderedOf(seq, s) = SumFunctionOnSet(g, 1..n)
  BY OrderedIsSum
<1> HIDE DEF f, g, n
<1>6. SumFunctionOnSet(f, 1..(n + 1)) = SumFunctionOnSet(g, 1..n) + f[n + 1]
  BY <1>1, <1>2, <1>3, SumLast
<1> QED BY <1>2, <1>4, <1>5, <1>6

LEMMA OrderedTail ==
  ASSUME NEW seq \in Seq(Lots), seq # <<>>, NEW s
  PROVE  /\ Head(seq) \in Lots /\ Tail(seq) \in Seq(Lots)
         /\ OrderedOf(seq, s)
              = (IF Head(seq).symbol = s THEN Head(seq).qty ELSE 0) + OrderedOf(Tail(seq), s)
<1> DEFINE n == Len(Tail(seq))
           f == OfSymbol(seq, s)
           g == OfSymbol(Tail(seq), s)
<1>1. n \in Nat /\ Tail(seq) \in Seq(Lots) /\ Len(seq) = n + 1 /\ Head(seq) \in Lots
  OBVIOUS
<1>2. f[1] = (IF Head(seq).symbol = s THEN Head(seq).qty ELSE 0) /\ f[1] \in Int
  BY <1>1, LotFields DEF OfSymbol
<1>3. \A i \in 1..n : g[i] \in Int /\ f[i + 1] = g[i]
  BY <1>1, LotFields DEF OfSymbol
<1>4. OrderedOf(seq, s) = SumFunctionOnSet(f, 1..(n + 1))
  BY <1>1, OrderedIsSum
<1>5. OrderedOf(Tail(seq), s) = SumFunctionOnSet(g, 1..n)
  BY <1>1, OrderedIsSum
<1> HIDE DEF f, g, n
<1>6. SumFunctionOnSet(f, 1..(n + 1)) = f[1] + SumFunctionOnSet(g, 1..n)
  BY <1>1, <1>2, <1>3, SumFirst
<1> QED BY <1>1, <1>2, <1>4, <1>5, <1>6

LEMMA OrderedKept ==
  ASSUME NEW seq \in Seq(Lots), NEW I, I \subseteq DOMAIN seq, NEW s
  PROVE  OrderedOf(Subsequence(seq, I), s) = SumFunctionOnSet(OfSymbol(seq, s), I)
<1> DEFINE sub == Subsequence(seq, I)
           n == Cardinality(I)
           f == OfSymbol(seq, s)
           g == OfSymbol(sub, s)
<1>1. /\ IsFiniteSet(I) /\ n \in Nat /\ sub \in Seq(Lots) /\ DOMAIN sub = 1..n /\ Len(sub) = n
  BY SubsequenceType
<1>2. OrderedOf(sub, s) = SumFunctionOnSet(g, 1..n)
  BY <1>1, OrderedIsSum
<1>3. I \subseteq Int /\ \A i \in I : f[i] \in Int
  BY LotFields DEF OfSymbol
<1>4. \A k \in 1..n, i \in I : Subsequence(seq, I)[k] = seq[i] => g[k] = f[i]
  <2> SUFFICES ASSUME NEW k \in 1..n, NEW i \in I, sub[k] = seq[i] PROVE g[k] = f[i]
    OBVIOUS
  <2>1. g[k] = IF sub[k].symbol = s THEN sub[k].qty ELSE 0
    BY <1>1 DEF OfSymbol
  <2>2. f[i] = IF seq[i].symbol = s THEN seq[i].qty ELSE 0
    BY DEF OfSymbol
  <2> QED BY <2>1, <2>2
<1> HIDE DEF f, g
<1>5. SumFunctionOnSet(g, 1..n) = SumFunctionOnSet(f, I)
  BY <1>1, <1>3, <1>4, SumOfSubsequence
<1> QED BY <1>2, <1>5 DEF f

\* Orders that are taken out of a sequence are no longer in what is left.
LEMMA OrderedSplit ==
  ASSUME NEW seq \in Seq(Lots), NEW I, I \subseteq DOMAIN seq, NEW s
  PROVE  OrderedOf(seq, s) = OrderedOf(Subsequence(seq, DOMAIN seq \ I), s)
                               + SumFunctionOnSet(OfSymbol(seq, s), I)
<1> DEFINE f == OfSymbol(seq, s)
           D == DOMAIN seq
<1>1. IsFiniteSet(D) /\ OrderedOf(seq, s) = SumFunctionOnSet(f, D)
      /\ \A i \in D : f[i] \in Int
  <2>1. D = 1..Len(seq)
    OBVIOUS
  <2> HIDE DEF D, f
  <2> QED BY <2>1, OrderedIsSum DEF f
<1>2. OrderedOf(Subsequence(seq, D \ I), s) = SumFunctionOnSet(f, D \ I)
  BY OrderedKept
<1>3. I \in SUBSET D /\ IsFiniteSet(I) /\ IsFiniteSet(D \ I)
  BY <1>1, FS_Subset
<1> HIDE DEF f, D
<1>4. /\ SumFunctionOnSet(f, D) = SumFunctionOnSet(f, I) + SumFunctionOnSet(f, D \ I)
      /\ SumFunctionOnSet(f, I) \in Int /\ SumFunctionOnSet(f, D \ I) \in Int
  BY <1>1, <1>3, SumSplit, SumType
<1> QED BY <1>1, <1>2, <1>4 DEF f, D
-----------------------------------------------------------------------------
(* The invariant: what waits, waits long enough *)

BacktestTypeOK ==
    /\ done \in [Symbols -> Nat] /\ \A s \in Symbols : done[s] <= LastBar(s)
    /\ phase \in {"next", "match", "settle"}
    /\ IF phase = "next" THEN bar = NoBar ELSE bar \in Symbols /\ done[bar] >= 1
    /\ pending \in Seq(Lots) /\ matured \in Seq(Lots)
    /\ price \in [Symbols -> Int] /\ cash \in Int
    /\ positions \in [Symbols -> Int] /\ targets \in [Symbols -> Int]
    /\ lost \in [Symbols -> Int]

\* An order that waits was placed in a bar that is over or going on.
WaitingLots ==
    {o \in Lots : o.placed <= done[o.symbol] /\ Awaits(o.symbol, o.placed, o.due)}

\* One that is filled now was placed before, and has waited.
RipeLots ==
    {o \in Lots : /\ o.symbol = bar /\ o.placed < done[bar] /\ o.due <= done[bar]
                  /\ Awaits(bar, o.placed, o.due)}

LotsWait ==
    /\ pending \in Seq(WaitingLots) /\ matured \in Seq(RipeLots)
    /\ phase # "match" => matured = <<>>

BacktestInv == BacktestTypeOK /\ LotsWait /\ TargetIsAccounted

LEMMA BacktestInvInit == BacktestInit => BacktestInv
<1> SUFFICES ASSUME BacktestInit PROVE BacktestInv
  OBVIOUS
<1>1. BacktestTypeOK
  BY ConfigAssumption, BarTimes DEF BacktestInit, BacktestTypeOK, ValidConfig
<1>2. LotsWait
  BY DEF BacktestInit, LotsWait
<1>3. TargetIsAccounted
  BY OrderedNothing DEF BacktestInit, TargetIsAccounted, OnTheWay
<1> QED BY <1>1, <1>2, <1>3 DEF BacktestInv

LEMMA OrderedType ==
  ASSUME BacktestTypeOK, NEW s \in Symbols
  PROVE  /\ OrderedOf(pending, s) \in Int /\ OrderedOf(matured, s) \in Int
         /\ positions[s] \in Int /\ lost[s] \in Int /\ targets[s] \in Int
BY OrderedIsSum DEF BacktestTypeOK

LEMMA NextBarKeeps ==
  ASSUME BacktestInv, NEW s \in Symbols, NextBar(s)
  PROVE  BacktestInv'
<1> DEFINE D == DOMAIN pending
           I == {i \in D : pending[i].symbol = s /\ pending[i].due <= done'[s]}
<1>1. /\ BacktestTypeOK /\ LotsWait /\ TargetIsAccounted
      /\ pending \in Seq(Lots) /\ pending \in Seq(WaitingLots)
  BY DEF BacktestInv, BacktestTypeOK, LotsWait
<1>2. /\ matured' = Subsequence(pending, I) /\ pending' = Subsequence(pending, D \ I)
      /\ matured = <<>> /\ done' = [done EXCEPT ![s] = @ + 1] /\ bar' = s
      /\ phase' = "match" /\ UNCHANGED <<positions, targets, cash, lost>>
      /\ done[s] < LastBar(s)
  BY <1>1 DEF NextBar, LotsWait, Remaining
<1>3. \A t \in Symbols : done'[t] \in Nat /\ done[t] \in Nat /\ done[t] <= done'[t]
  BY <1>1, <1>2 DEF BacktestTypeOK
<1>4. /\ matured' \in Seq(Lots) /\ \A k \in DOMAIN matured' : \E i \in I : matured'[k] = pending[i]
      /\ pending' \in Seq(WaitingLots) /\ pending' \in Seq(Lots)
  <2> HIDE DEF I
  <2>1. I \subseteq D /\ D \ I \subseteq D
    BY DEF I
  <2> QED BY <1>1, <1>2, <2>1, SubsequenceType
<1>5. BacktestTypeOK'
  <2>1. price' \in [Symbols -> Int]
    BY <1>1, ConfigAssumption DEF NextBar, BacktestTypeOK
  <2>2. done' \in [Symbols -> Nat] /\ \A t \in Symbols : done'[t] <= LastBar(t)
    BY <1>1, <1>2, BarTimes DEF BacktestTypeOK
  <2>3. done'[s] >= 1
    BY <1>1, <1>2 DEF BacktestTypeOK
  <2> QED BY <1>1, <1>2, <1>4, <2>1, <2>2, <2>3 DEF BacktestTypeOK
<1>6. LotsWait'
  <2>1. \A o \in WaitingLots : o \in WaitingLots'
    BY <1>3, LotFields DEF WaitingLots
  <2>2. pending' \in Seq(WaitingLots')
    BY <1>4, <2>1
  <2>3. ASSUME NEW i \in I PROVE pending[i] \in RipeLots'
    <3>1. pending[i] \in WaitingLots /\ pending[i].symbol = s /\ pending[i].due <= done'[s]
      BY <1>1
    <3>2. pending[i].placed <= done[s] /\ done'[s] = done[s] + 1 /\ pending[i].placed \in Nat
          /\ done[s] \in Nat
      BY <1>1, <1>2, <3>1, LotFields DEF WaitingLots, BacktestTypeOK
    <3>3. pending[i].placed < done'[s]
      BY <3>2
    <3> QED BY <1>2, <3>1, <3>3 DEF WaitingLots, RipeLots
  <2>4. \A k \in DOMAIN matured' : matured'[k] \in RipeLots'
    <3> HIDE DEF I
    <3> QED BY <1>4, <2>3
  <2>5. matured' \in Seq(RipeLots')
    BY <1>4, <2>4, SequenceOf
  <2> QED BY <1>2, <2>2, <2>5 DEF LotsWait
<1>7. TargetIsAccounted'
  <2> SUFFICES ASSUME NEW t \in Symbols
               PROVE  positions'[t] + (OrderedOf(pending', t) + OrderedOf(matured', t)) + lost'[t]
                        = targets'[t]
    BY DEF TargetIsAccounted, OnTheWay
  <2>1. OrderedOf(pending, t) = OrderedOf(pending', t) + OrderedOf(matured', t)
    <3>1. I \subseteq D
      OBVIOUS
    <3> HIDE DEF I
    <3> QED BY <1>1, <1>2, <3>1, OrderedSplit, OrderedKept
  <2>2. OrderedOf(matured, t) = 0
    BY <1>2, OrderedNothing
  <2>3. positions[t] + (OrderedOf(pending, t) + OrderedOf(matured, t)) + lost[t] = targets[t]
    BY <1>1 DEF TargetIsAccounted, OnTheWay
  <2>4. /\ OrderedOf(pending, t) \in Int /\ OrderedOf(matured', t) \in Int
        /\ OrderedOf(pending', t) \in Int
        /\ positions[t] \in Int /\ lost[t] \in Int /\ targets[t] \in Int
    BY <1>1, <1>4, OrderedType, OrderedIsSum
  <2>5. positions' = positions /\ lost' = lost /\ targets' = targets
    BY <1>2
  <2> QED BY <2>1, <2>2, <2>3, <2>4, <2>5
<1> QED BY <1>5, <1>6, <1>7 DEF BacktestInv

LEMMA MatchKeeps ==
  ASSUME BacktestInv, Match
  PROVE  BacktestInv'
<1> DEFINE o == Head(matured)
<1>1. /\ BacktestTypeOK /\ LotsWait /\ TargetIsAccounted
      /\ pending \in Seq(Lots) /\ pending \in Seq(WaitingLots)
      /\ matured \in Seq(Lots) /\ matured \in Seq(RipeLots) /\ matured # <<>>
  BY DEF BacktestInv, BacktestTypeOK, LotsWait, Match
<1>2. PICK lots \in 1..Size(o.qty), maker \in BOOLEAN :
         LET fillPrice == price[bar] + Dir(o.qty) * Slip
             filled == Dir(o.qty) * lots
         IN  /\ positions' = [positions EXCEPT ![bar] = @ + filled]
             /\ cash' = cash - filled * fillPrice - FeeOf(lots * fillPrice, maker)
             /\ pending' = pending \o Residual(o, filled)
  BY DEF Match
<1> DEFINE filled == Dir(o.qty) * lots
           rest == o.qty - filled
           fillPrice == price[bar] + Dir(o.qty) * Slip
<1>3. /\ phase = "match" /\ matured' = Tail(matured)
      /\ UNCHANGED <<done, bar, phase, price, targets, lost>>
      /\ positions' = [positions EXCEPT ![bar] = @ + filled]
      /\ pending' = pending \o Residual(o, filled)
  BY <1>2 DEF Match
<1>4. /\ o \in Lots /\ o \in RipeLots /\ o.symbol = bar /\ bar \in Symbols
      /\ Tail(matured) \in Seq(Lots) /\ Tail(matured) \in Seq(RipeLots)
  BY <1>1 DEF RipeLots, BacktestTypeOK, LotsWait
<1>5. o.qty \in Int /\ o.qty # 0 /\ Dir(o.qty) \in Int /\ filled \in Int /\ rest \in Int
  BY <1>4, LotFields DEF Dir, Size
<1> DEFINE left == [symbol |-> o.symbol, qty |-> rest, placed |-> o.placed,
                    due |-> Min({done[bar] + 1, LastBar(bar)})]
<1>6. Residual(o, filled) = IF rest = 0 THEN <<>> ELSE <<left>>
  BY <1>5 DEF Residual
<1>7. ASSUME rest # 0
      PROVE  left \in Lots /\ left \in WaitingLots /\ left.qty = rest /\ left.symbol = bar
  <2> DEFINE due == Min({done[bar] + 1, LastBar(bar)})
  <2>1. /\ done[bar] \in Nat /\ done[bar] <= LastBar(bar) /\ LastBar(bar) \in Nat
        /\ done[bar] >= 1
    BY <1>1, <1>3, <1>4, BarTimes DEF BacktestTypeOK
  <2>2. due = IF done[bar] + 1 <= LastBar(bar) THEN done[bar] + 1 ELSE LastBar(bar)
    BY <2>1, SmallBounds
  <2>3. o.placed < done[bar] /\ o.due <= done[bar] /\ Awaits(bar, o.placed, o.due)
        /\ o.placed \in Nat /\ o.placed >= 1 /\ o.due \in Nat
    BY <1>4, LotFields DEF RipeLots
  <2> HIDE DEF due
  <2>4. due \in o.due..LastBar(bar) /\ due \in Nat \ {0} /\ o.placed \in 1..LastBar(bar)
    BY <2>1, <2>2, <2>3
  <2>5. Awaits(bar, o.placed, due)
    BY <1>4, <2>3, <2>4, AwaitsLater
  <2>6. left = [symbol |-> bar, qty |-> rest, placed |-> o.placed, due |-> due]
    BY <1>4 DEF due
  <2>7. left \in Lots
    BY <1>4, <1>5, <1>7, <2>3, <2>4, <2>6 DEF Lots
  <2>8. left.placed <= done[bar]
    BY <2>1, <2>3, <2>6
  <2> HIDE DEF left
  <2> QED BY <2>5, <2>6, <2>7, <2>8 DEF WaitingLots
<1> HIDE DEF o, left
<1>8. /\ pending' = IF rest = 0 THEN pending ELSE Append(pending, left)
      /\ pending' \in Seq(Lots) /\ pending' \in Seq(WaitingLots)
  <2> HIDE DEF rest, filled
  <2>1. CASE rest = 0
    BY <1>1, <1>3, <1>6, <2>1
  <2>2. CASE rest # 0
    <3>1. pending' = pending \o <<left>>
      BY <1>3, <1>6, <2>2
    <3>2. pending' = Append(pending, left)
      BY <1>1, <1>7, <2>2, <3>1
    <3> QED BY <1>1, <1>7, <2>2, <3>2
  <2> QED BY <2>1, <2>2
<1>9. BacktestTypeOK'
  <2>1. positions' \in [Symbols -> Int]
    <3> HIDE DEF filled
    <3> QED BY <1>1, <1>3, <1>4, <1>5 DEF BacktestTypeOK
  <2>2. cash' \in Int
    <3>1. Slip \in Int /\ MakerFeePct \in Int /\ TakerFeePct \in Int /\ price[bar] \in Int /\ cash \in Int
      BY <1>1, <1>4, ConfigAssumption DEF BacktestTypeOK
    <3>2. fillPrice \in Int
      <4> DEFINE d == Dir(o.qty)
      <4>1. d \in Int
        BY <1>5
      <4> HIDE DEF d
      <4>2. price[bar] + d * Slip \in Int
        BY <3>1, <4>1
      <4> QED BY <4>2 DEF d
    <3>3. lots \in Int
      BY <1>5 DEF Size
    <3> HIDE DEF fillPrice, filled
    <3>4. \A x \in Int : (x * (IF maker THEN MakerFeePct ELSE TakerFeePct)) \div 100 \in Int
      BY <3>1
    <3>5. FeeOf(lots * fillPrice, maker) \in Int
      BY <3>2, <3>3, <3>4 DEF FeeOf
    <3>6. cash' = cash - filled * fillPrice - FeeOf(lots * fillPrice, maker)
      BY <1>2 DEF filled, fillPrice, o
    <3>7. filled * fillPrice \in Int
      BY <1>5, <3>2
    <3> QED BY <3>1, <3>5, <3>6, <3>7
  <2> QED BY <1>1, <1>3, <1>4, <1>8, <2>1, <2>2 DEF BacktestTypeOK
<1>10. LotsWait'
  <2>1. WaitingLots' = WaitingLots /\ RipeLots' = RipeLots
    BY <1>3 DEF WaitingLots, RipeLots
  <2> QED BY <1>1, <1>3, <1>4, <1>8, <2>1 DEF LotsWait
<1>11. TargetIsAccounted'
  <2> SUFFICES ASSUME NEW t \in Symbols
               PROVE  positions'[t] + (OrderedOf(pending', t) + OrderedOf(matured', t)) + lost'[t]
                        = targets'[t]
    BY DEF TargetIsAccounted, OnTheWay
  <2> DEFINE q(x) == IF bar = t THEN x ELSE 0
  <2>1. OrderedOf(matured, t) = q(o.qty) + OrderedOf(matured', t) /\ OrderedOf(matured', t) \in Int
    <3>1. OrderedOf(matured, t) = (IF o.symbol = t THEN o.qty ELSE 0) + OrderedOf(matured', t)
      BY <1>1, <1>3, OrderedTail DEF o
    <3>2. OrderedOf(matured', t) \in Int
      BY <1>3, <1>4, OrderedIsSum
    <3> QED BY <1>4, <3>1, <3>2
  <2>2. OrderedOf(pending', t) = OrderedOf(pending, t) + q(rest)
    <3> HIDE DEF rest
    <3>1. CASE rest = 0
      BY <1>1, <1>8, <3>1, OrderedType
    <3>2. CASE rest # 0
      <4>1. OrderedOf(Append(pending, left), t)
              = OrderedOf(pending, t) + (IF left.symbol = t THEN left.qty ELSE 0)
        BY <1>1, <1>7, <3>2, OrderedAppend
      <4> QED BY <1>7, <1>8, <3>2, <4>1
    <3> QED BY <3>1, <3>2
  <2>3. positions'[t] = positions[t] + q(filled)
    <3>1. positions \in [Symbols -> Int] /\ bar \in Symbols
      BY <1>1, <1>4 DEF BacktestTypeOK
    <3>2. filled \in Int /\ positions' = [positions EXCEPT ![bar] = @ + filled]
      BY <1>3, <1>5
    <3> HIDE DEF filled
    <3>3. bar = t => positions'[t] = positions[t] + filled
      BY <3>1, <3>2
    <3>4. bar # t => positions'[t] = positions[t] /\ positions[t] \in Int
      BY <3>1, <3>2
    <3> QED BY <3>3, <3>4
  <2>4. positions[t] + (OrderedOf(pending, t) + OrderedOf(matured, t)) + lost[t] = targets[t]
    BY <1>1 DEF TargetIsAccounted, OnTheWay
  <2>5. /\ OrderedOf(pending, t) \in Int /\ OrderedOf(matured, t) \in Int
        /\ positions[t] \in Int /\ lost[t] \in Int /\ targets[t] \in Int
    BY <1>1, OrderedType
  <2>6. q(o.qty) = q(rest) + q(filled) /\ q(rest) \in Int /\ q(filled) \in Int
    <3> HIDE DEF filled
    <3> QED BY <1>5
  <2>7. lost' = lost /\ targets' = targets
    BY <1>3
  <2> HIDE DEF q, rest, filled
  <2> QED BY <2>1, <2>2, <2>3, <2>4, <2>5, <2>6, <2>7
<1> QED BY <1>9, <1>10, <1>11 DEF BacktestInv

LEMMA RebalanceKeeps ==
  ASSUME BacktestInv, Rebalance
  PROVE  BacktestInv'
<1>1. /\ BacktestTypeOK /\ LotsWait /\ TargetIsAccounted
      /\ pending \in Seq(Lots) /\ pending \in Seq(WaitingLots)
      /\ bar \in Symbols /\ matured = <<>> /\ done[bar] \in 1..LastBar(bar)
  BY BarTimes DEF BacktestInv, BacktestTypeOK, LotsWait, Rebalance
<1>2. phase' = "settle" /\ UNCHANGED <<done, bar, matured, price, positions, cash>>
  BY DEF Rebalance
<1>3. PICK wanted \in [Strategies -> Signals] :
         LET delta == WeightedTarget(wanted) - targets[bar]
         IN  IF delta = 0 THEN UNCHANGED <<pending, targets, lost>>
             ELSE \E cancelled \in SUBSET Stale(delta) :
                    /\ pending' = Append(Subsequence(pending, DOMAIN pending \ cancelled),
                          [symbol |-> bar, qty |-> delta, placed |-> done[bar],
                           due |-> ExecuteIdx(bar, done[bar])])
                    /\ targets' = [targets EXCEPT ![bar] = @ + delta]
                    /\ lost' = [lost EXCEPT ![bar] =
                          @ + SumFunction([i \in cancelled |-> pending[i].qty])]
  BY DEF Rebalance
<1> DEFINE delta == WeightedTarget(wanted) - targets[bar]
<1>4. delta \in Int
  <2> DEFINE f == [n \in Strategies |-> Weight[n] * wanted[n]]
  <2>1. IsFiniteSet(Strategies) /\ Weight \in [Strategies -> Int] /\ Signals \subseteq Int
        /\ SumFunction(Weight) > 0
    BY ConfigAssumption DEF ValidConfig
  <2>2. \A n \in Strategies : f[n] \in Int /\ Weight[n] \in Int
    <3> SUFFICES ASSUME NEW n \in Strategies PROVE Weight[n] * wanted[n] \in Int /\ Weight[n] \in Int
      OBVIOUS
    <3>1. Weight[n] \in Int /\ wanted[n] \in Int
      BY <2>1
    <3> QED BY <3>1
  <2>3. SumFunctionOnSet(f, Strategies) \in Int /\ SumFunctionOnSet(Weight, Strategies) \in Int
    <3> HIDE DEF f
    <3> QED BY <2>1, <2>2, SumType
  <2>4. DOMAIN f = Strategies /\ DOMAIN Weight = Strategies
    BY <2>1
  <2>5. WeightedTarget(wanted)
          = SumFunctionOnSet(f, Strategies) \div SumFunctionOnSet(Weight, Strategies)
    BY <2>4 DEF WeightedTarget, SumFunction
  <2>6. SumFunctionOnSet(Weight, Strategies) > 0
    BY <2>1, <2>4 DEF SumFunction
  <2> HIDE DEF f
  <2>7. \A a, b \in Int : b > 0 => a \div b \in Int
    OBVIOUS
  <2>8. WeightedTarget(wanted) \in Int
    BY <2>3, <2>5, <2>6, <2>7
  <2> QED BY <1>1, <2>8 DEF BacktestTypeOK
<1> HIDE DEF delta
<1>5. CASE delta = 0
  <2>1. UNCHANGED <<pending, targets, lost>>
    BY <1>3, <1>5 DEF delta
  <2>2. BacktestTypeOK'
    BY <1>1, <1>2, <2>1 DEF BacktestTypeOK, Rebalance
  <2>3. LotsWait'
    <3>1. WaitingLots' = WaitingLots /\ RipeLots' = RipeLots
      BY <1>2 DEF WaitingLots, RipeLots
    <3> QED BY <1>1, <1>2, <2>1, <3>1 DEF LotsWait
  <2>4. TargetIsAccounted'
    BY <1>1, <1>2, <2>1 DEF TargetIsAccounted, OnTheWay
  <2> QED BY <2>2, <2>3, <2>4 DEF BacktestInv
<1>6. CASE delta # 0
  <2> DEFINE D == DOMAIN pending
             o == [symbol |-> bar, qty |-> delta, placed |-> done[bar],
                   due |-> ExecuteIdx(bar, done[bar])]
  <2>1. PICK cancelled \in SUBSET Stale(delta) :
           /\ pending' = Append(Subsequence(pending, D \ cancelled), o)
           /\ targets' = [targets EXCEPT ![bar] = @ + delta]
           /\ lost' = [lost EXCEPT ![bar] =
                          @ + SumFunction([i \in cancelled |-> pending[i].qty])]
    BY <1>3, <1>6 DEF delta
  <2> DEFINE kept == Subsequence(pending, D \ cancelled)
             quantities == [i \in cancelled |-> pending[i].qty]
             gone == SumFunctionOnSet(quantities, cancelled)
  <2>2. cancelled \subseteq D /\ IsFiniteSet(cancelled)
        /\ \A i \in cancelled : pending[i].symbol = bar /\ pending[i] \in Lots
    <3>1. D = 1..Len(pending) /\ IsFiniteSet(D)
      BY FS_Interval
    <3>2. cancelled \subseteq D
      BY DEF Stale
    <3>3. IsFiniteSet(cancelled)
      BY <3>1, <3>2, FS_Subset
    <3>4. \A i \in cancelled : pending[i].symbol = bar /\ pending[i] \in Lots
      BY <1>1 DEF Stale
    <3> QED BY <3>2, <3>3, <3>4
  <2>3. o \in Lots /\ o \in WaitingLots
    <3>1. Awaits(bar, done[bar], ExecuteIdx(bar, done[bar]))
      BY <1>1, ExecuteIdxAwaits
    <3>2. ExecuteIdx(bar, done[bar]) \in Nat \ {0}
      BY <1>1, <3>1, BarTimes DEF Awaits
    <3>3. o \in Lots
      BY <1>1, <1>4, <1>6, <3>2, BarTimes DEF Lots
    <3> QED BY <1>1, <3>1, <3>3, BarTimes DEF WaitingLots
  <2>4. kept \in Seq(Lots) /\ kept \in Seq(WaitingLots)
    <3>1. D \ cancelled \subseteq D
      OBVIOUS
    <3> QED BY <1>1, <3>1, SubsequenceType
  <2>5. gone \in Int /\ SumFunction(quantities) = gone
    <3>1. \A i \in cancelled : quantities[i] \in Int
      BY <2>2, LotFields
    <3>2. DOMAIN quantities = cancelled
      OBVIOUS
    <3> HIDE DEF quantities
    <3> QED BY <2>2, <3>1, <3>2, SumType DEF SumFunction
  <2> HIDE DEF o, kept, gone, quantities
  <2>6. pending' = Append(kept, o) /\ lost' = [lost EXCEPT ![bar] = @ + gone]
    BY <2>1, <2>5 DEF kept, o, quantities
  <2>7. BacktestTypeOK'
    <3>1. targets' \in [Symbols -> Int] /\ lost' \in [Symbols -> Int]
      BY <1>1, <1>4, <2>1, <2>5, <2>6 DEF BacktestTypeOK
    <3>2. pending' \in Seq(Lots)
      BY <2>3, <2>4, <2>6
    <3> QED BY <1>1, <1>2, <3>1, <3>2 DEF BacktestTypeOK, Rebalance
  <2>8. LotsWait'
    <3>1. WaitingLots' = WaitingLots /\ RipeLots' = RipeLots
      BY <1>2 DEF WaitingLots, RipeLots
    <3>2. pending' \in Seq(WaitingLots)
      BY <2>3, <2>4, <2>6
    <3> QED BY <1>1, <1>2, <3>1, <3>2 DEF LotsWait
  <2>9. TargetIsAccounted'
    <3> SUFFICES ASSUME NEW t \in Symbols
                 PROVE  positions'[t] + (OrderedOf(pending', t) + OrderedOf(matured', t)) + lost'[t]
                          = targets'[t]
      BY DEF TargetIsAccounted, OnTheWay
    <3> DEFINE q(x) == IF bar = t THEN x ELSE 0
    <3>1. OrderedOf(pending', t) = OrderedOf(kept, t) + q(delta) /\ OrderedOf(kept, t) \in Int
      <4>1. OrderedOf(pending', t) = OrderedOf(kept, t) + (IF o.symbol = t THEN o.qty ELSE 0)
        BY <2>3, <2>4, <2>6, OrderedAppend
      <4>2. o.symbol = bar /\ o.qty = delta
        BY DEF o
      <4>3. OrderedOf(kept, t) \in Int
        BY <2>4, OrderedIsSum
      <4> QED BY <4>1, <4>2, <4>3
    <3>2. OrderedOf(pending, t) = OrderedOf(kept, t) + q(gone)
      <4> DEFINE f == OfSymbol(pending, t)
      <4>1. OrderedOf(pending, t) = OrderedOf(kept, t) + SumFunctionOnSet(f, cancelled)
        BY <1>1, <2>2, OrderedSplit DEF kept
      <4>2. CASE bar = t
        <5>1. \A i \in cancelled : f[i] = quantities[i] /\ quantities[i] \in Int
          BY <2>2, <4>2, LotFields DEF OfSymbol, quantities
        <5> HIDE DEF f
        <5>2. SumFunctionOnSet(f, cancelled) = gone
          BY <2>2, <5>1, SumSame DEF gone
        <5> QED BY <4>1, <4>2, <5>2
      <4>3. CASE bar # t
        <5>1. \A i \in cancelled : f[i] = 0
          BY <2>2, <4>3 DEF OfSymbol
        <5> HIDE DEF f
        <5>2. SumFunctionOnSet(f, cancelled) = 0
          BY <2>2, <5>1, SumZero
        <5> QED BY <4>1, <4>3, <5>2
      <4> QED BY <4>2, <4>3
    <3>3. lost'[t] = lost[t] + q(gone) /\ targets'[t] = targets[t] + q(delta)
      <4>1. lost \in [Symbols -> Int] /\ targets \in [Symbols -> Int] /\ bar \in Symbols
        BY <1>1, <1>4 DEF BacktestTypeOK
      <4>2. lost[t] \in Int /\ targets[t] \in Int
        BY <4>1
      <4>3. /\ lost' = [lost EXCEPT ![bar] = @ + gone]
            /\ targets' = [targets EXCEPT ![bar] = @ + delta]
        BY <2>1, <2>6
      <4> HIDE DEF gone, delta
      <4>4. lost'[t] = lost[t] + q(gone)
        BY <4>1, <4>2, <4>3
      <4>5. targets'[t] = targets[t] + q(delta)
        BY <4>1, <4>2, <4>3
      <4> QED BY <4>4, <4>5
    <3>4. positions[t] + (OrderedOf(pending, t) + OrderedOf(matured, t)) + lost[t] = targets[t]
      BY <1>1 DEF TargetIsAccounted, OnTheWay
    <3>5. /\ OrderedOf(pending, t) \in Int /\ OrderedOf(matured, t) \in Int
          /\ positions[t] \in Int /\ lost[t] \in Int /\ targets[t] \in Int
      BY <1>1, OrderedType
    <3>6. q(gone) \in Int /\ q(delta) \in Int /\ positions' = positions /\ matured' = matured
      BY <1>2, <1>4, <2>5
    <3> HIDE DEF q
    <3> QED BY <3>1, <3>2, <3>3, <3>4, <3>5, <3>6
  <2> QED BY <2>7, <2>8, <2>9 DEF BacktestInv
<1> QED BY <1>5, <1>6

LEMMA FeeType == ASSUME NEW x \in Int PROVE FeeOf(x, FALSE) \in Int
<1>1. TakerFeePct \in Int
  BY ConfigAssumption
<1>2. x * TakerFeePct \in Int
  BY <1>1
<1>3. \A y \in Int : y \div 100 \in Int
  OBVIOUS
<1> QED BY <1>2, <1>3 DEF FeeOf

LEMMA SettleKeeps ==
  ASSUME BacktestInv, Settle
  PROVE  BacktestInv'
<1>1. BacktestTypeOK /\ LotsWait /\ TargetIsAccounted
  BY DEF BacktestInv
<1>2. /\ phase' = "next" /\ bar' = NoBar /\ matured = <<>>
      /\ UNCHANGED <<done, matured, pending, price, targets>>
  BY <1>1 DEF Settle, LotsWait
<1> DEFINE proceeds == [s \in Liquidated |-> positions[s] * ClosePrice(s)
                          - FeeOf(Size(positions[s]) * ClosePrice(s), FALSE)]
<1>3. \/ /\ cash' = cash - Funding + SumFunction(proceeds)
         /\ positions' = [s \in Symbols |-> IF s \in Liquidated THEN 0 ELSE positions[s]]
         /\ lost' = [s \in Symbols |-> lost[s] + positions[s] - positions'[s]]
      \/ cash' = cash - Funding /\ UNCHANGED <<positions, lost>>
  BY DEF Settle
<1>4. /\ positions' \in [Symbols -> Int] /\ lost' \in [Symbols -> Int]
      /\ \A s \in Symbols : positions'[s] + lost'[s] = positions[s] + lost[s]
  <2> HIDE DEF proceeds
  <2>1. CASE UNCHANGED <<positions, lost>>
    BY <1>1, <2>1 DEF BacktestTypeOK
  <2>2. CASE /\ positions' = [s \in Symbols |-> IF s \in Liquidated THEN 0 ELSE positions[s]]
             /\ lost' = [s \in Symbols |-> lost[s] + positions[s] - positions'[s]]
    BY <1>1, <2>2 DEF BacktestTypeOK
  <2> QED BY <1>3, <2>1, <2>2
<1>5. cash' \in Int
  <2>1. /\ IsFiniteSet(Symbols) /\ FundingPct \in Int /\ PenaltyPct \in Int
        /\ \A s \in Symbols : positions[s] \in Int /\ price[s] \in Int
        /\ cash \in Int
    BY <1>1, ConfigAssumption DEF BacktestTypeOK
  <2>2. \A a, b \in Int : a * b \in Int
    OBVIOUS
  <2>3. \A a \in Int : a \div 100 \in Int /\ Size(a) \in Int /\ Dir(a) \in Int
    BY DEF Size, Dir
  <2>4. Funding \in Int
    <3>1. \A s \in Symbols : Notionals[s] \in Int
      BY <2>1, <2>2, <2>3 DEF Notionals
    <3>2. DOMAIN Notionals = Symbols
      BY DEF Notionals
    <3>3. Gross \in Int
      BY <2>1, <3>1, <3>2, SumType DEF Gross, SumFunction
    <3> QED BY <2>1, <2>2, <2>3, <3>3 DEF Funding
  <2>5. SumFunction(proceeds) \in Int
    <3>1. \A s \in Symbols : proceeds[s] \in Int
      <4> SUFFICES ASSUME NEW s \in Symbols PROVE proceeds[s] \in Int
        OBVIOUS
      <4>1. Dir(positions[s]) * price[s] * PenaltyPct \in Int
        BY <2>1, <2>2, <2>3
      <4>2. ClosePrice(s) \in Int
        BY <2>1, <2>3, <4>1 DEF ClosePrice
      <4>3. Size(positions[s]) * ClosePrice(s) \in Int /\ positions[s] * ClosePrice(s) \in Int
        BY <2>1, <2>2, <2>3, <4>2
      <4>4. FeeOf(Size(positions[s]) * ClosePrice(s), FALSE) \in Int
        BY <4>3, FeeType
      <4>5. proceeds[s] = positions[s] * ClosePrice(s)
                            - FeeOf(Size(positions[s]) * ClosePrice(s), FALSE)
        BY DEF Liquidated
      <4> HIDE DEF proceeds
      <4>6. \A a, b \in Int : a - b \in Int
        OBVIOUS
      <4> QED BY <4>3, <4>4, <4>5, <4>6, Zenon
    <3>2. DOMAIN proceeds = Symbols
      BY DEF Liquidated
    <3> HIDE DEF proceeds
    <3> QED BY <2>1, <3>1, <3>2, SumType DEF SumFunction
  <2> HIDE DEF proceeds
  <2> QED BY <1>3, <2>1, <2>4, <2>5
<1> HIDE DEF proceeds
<1>6. BacktestTypeOK'
  BY <1>1, <1>2, <1>4, <1>5 DEF BacktestTypeOK
<1>7. LotsWait'
  <2>1. WaitingLots' = WaitingLots
    BY <1>2 DEF WaitingLots
  <2> QED BY <1>1, <1>2, <2>1 DEF LotsWait
<1>8. TargetIsAccounted'
  <2> SUFFICES ASSUME NEW t \in Symbols
               PROVE  positions'[t] + (OrderedOf(pending', t) + OrderedOf(matured', t)) + lost'[t]
                        = targets'[t]
    BY DEF TargetIsAccounted, OnTheWay
  <2>1. positions[t] + (OrderedOf(pending, t) + OrderedOf(matured, t)) + lost[t] = targets[t]
    BY <1>1 DEF TargetIsAccounted, OnTheWay
  <2>2. /\ OrderedOf(pending, t) \in Int /\ OrderedOf(matured, t) \in Int
        /\ positions[t] \in Int /\ lost[t] \in Int /\ targets[t] \in Int
    BY <1>1, OrderedType
  <2>3. /\ positions'[t] \in Int /\ lost'[t] \in Int
        /\ positions'[t] + lost'[t] = positions[t] + lost[t]
    BY <1>4
  <2>4. pending' = pending /\ matured' = matured /\ targets' = targets
    BY <1>2
  <2> QED BY <2>1, <2>2, <2>3, <2>4
<1> QED BY <1>6, <1>7, <1>8 DEF BacktestInv

LEMMA BacktestInvStep == BacktestInv /\ [BacktestNext]_backtestVars => BacktestInv'
<1> SUFFICES ASSUME BacktestInv, [BacktestNext]_backtestVars PROVE BacktestInv'
  OBVIOUS
<1>1. CASE UNCHANGED backtestVars
  BY <1>1 DEF backtestVars, BacktestInv, BacktestTypeOK, LotsWait, WaitingLots, RipeLots,
     TargetIsAccounted, OnTheWay
<1>2. CASE BacktestNext
  BY <1>2, NextBarKeeps, MatchKeeps, RebalanceKeeps, SettleKeeps DEF BacktestNext
<1> QED BY <1>1, <1>2

LEMMA BacktestInvCorrect == BacktestSpec => []BacktestInv
BY BacktestInvInit, BacktestInvStep, PTL DEF BacktestSpec

\* Every reachable state of the backtest is well typed.
THEOREM BacktestTypeCorrect == BacktestSpec => []BacktestTypeOK
<1>1. BacktestInv => BacktestTypeOK
  BY DEF BacktestInv
<1> QED BY <1>1, BacktestInvCorrect, PTL

\* What the strategies asked for is held, on its way, or was taken away
\* (mvp11.py:267-289, 304-329).
THEOREM TargetsAreAccounted == BacktestSpec => []TargetIsAccounted
<1>1. BacktestInv => TargetIsAccounted
  BY DEF BacktestInv
<1> QED BY <1>1, BacktestInvCorrect, PTL

\* No order is filled in the bar that placed it, nor before its latency is over.
THEOREM LatencyHolds == BacktestSpec => []LatencyIsKept
<1>1. BacktestInv => LatencyIsKept
  <2> SUFFICES ASSUME BacktestInv, NEW i \in DOMAIN matured
               PROVE  LET placed == matured[i].placed
                      IN  /\ placed < done[bar]
                          /\ \/ done[bar] = LastBar(bar)
                             \/ /\ done[bar] >= placed + LatencyBars
                                /\ Times[bar][done[bar]] >= Times[bar][placed] + LatencySeconds
    BY DEF LatencyIsKept
  <2> DEFINE o == matured[i]
  <2>1. BacktestTypeOK /\ LotsWait
    BY DEF BacktestInv
  <2>2. o \in RipeLots /\ bar \in Symbols
    BY <2>1 DEF LotsWait, BacktestTypeOK
  <2>3. /\ o.placed < done[bar] /\ o.due <= done[bar] /\ Awaits(bar, o.placed, o.due)
        /\ o.placed \in Nat /\ o.placed >= 1 /\ o.due \in Nat
    BY <2>2, LotFields DEF RipeLots
  <2>4. done[bar] \in Nat /\ done[bar] <= LastBar(bar) /\ LastBar(bar) \in Nat
    BY <2>1, <2>2, BarTimes DEF BacktestTypeOK
  <2> HIDE DEF o
  <2>5. Awaits(bar, o.placed, done[bar])
    <3>1. done[bar] \in o.due..LastBar(bar) /\ o.placed \in 1..LastBar(bar)
      BY <2>3, <2>4
    <3> QED BY <2>2, <2>3, <3>1, AwaitsLater
  <2> QED BY <2>3, <2>5 DEF Awaits, o
<1> QED BY <1>1, BacktestInvCorrect, PTL

=============================================================================
