---------------------------- MODULE RiskManager ----------------------------
(***************************************************************************)
(* risk/manager.py in the loop it is written for: a caller asks for a      *)
(* target, apply approves a quantity, the executor moves the position to   *)
(* it.  Between two rounds of the caller the position also moves without   *)
(* it: by hand, or by a liquidation.  apply reads it only as current_qty   *)
(* of a request, so its trailing stop has to notice by itself that the     *)
(* position was closed or flipped; that it was closed and opened again on  *)
(* the same side, between two requests, it cannot notice.                  *)
(* Percentages are integers, a stop of 0 percent is a limit of None, and   *)
(* quantities are whole lots, so that a clamped quantity is rounded down.  *)
(***************************************************************************)
EXTENDS Integers

CONSTANTS NotionalCap, LeverageCap, WarnPct, DailyStopPct, TrailingPct,
          Prices, Equities, Targets, MaxDay,  \* what requests may bring
          None                                \* no approval

\* The constructor refuses other limits, apply answers other prices with 0.
ASSUME LimitsAssumption ==
    /\ NotionalCap \in Nat \ {0} /\ LeverageCap \in Nat \ {0}
    /\ WarnPct \in 1..99 /\ DailyStopPct \in Nat /\ TrailingPct \in 0..99
ASSUME RequestsAssumption ==
    /\ Prices \subseteq Nat \ {0} /\ Equities \subseteq Int
    /\ Targets \subseteq Int /\ MaxDay \in Nat \ {0}
    /\ None \notin Int

VARIABLES risk,       \* the fields of RiskManager
          position,   \* what the executor holds
          approval,   \* the approved quantity on its way to it, or None
          given,      \* history: the prices apply was given since the
                      \* position was opened
          carried     \* history: the position was opened on a side that apply
                      \* still tracked for an earlier one

vars == <<risk, position, approval, given, carried>>

Abs(n)  == IF n < 0 THEN -n ELSE n
Side(q) == IF q > 0 THEN 1 ELSE IF q < 0 THEN -1 ELSE 0
Least(a, b) == IF a < b THEN a ELSE b
Best(side, a, b) == IF (side > 0) = (a > b) THEN a ELSE b

Fresh == [day |-> 0, anchor |-> 0, daily |-> FALSE,
          side |-> 0, extreme |-> 0, stopped |-> FALSE, enforced |-> FALSE,
          notionalWarn |-> FALSE, leverageWarn |-> FALSE]

-----------------------------------------------------------------------------
(* The checks apply is made of.                                            *)

OpensNewRisk(current, target) ==
    /\ target # 0
    /\ \/ Side(current) # Side(target)
       \/ Abs(target) > Abs(current)

MutMaintainsOrAdds(current, target) ==
    current # 0 /\ Side(current) = Side(target) /\ target >= current

MaintainsOrAdds(current, target) ==
    /\ current # 0
    /\ Side(current) = Side(target)
    /\ Abs(target) >= Abs(current)

DrawnDown(anchor, equity) == (anchor - equity) * 100 >= DailyStopPct * anchor

MutRefreshDaily(r, q) ==
    IF r.day # q.day
    THEN [r EXCEPT !.day = q.day, !.anchor = q.equity, !.daily = FALSE]
    ELSE [r EXCEPT !.daily = DrawnDown(r.anchor, q.equity)]

\* A request of another day starts the day anew, whatever it brings.
RefreshDaily(r, q) ==
    IF DailyStopPct = 0 THEN r
    ELSE IF r.day # q.day
         THEN [r EXCEPT !.day = q.day, !.anchor = q.equity, !.daily = FALSE]
         ELSE [r EXCEPT !.daily = @ \/ DrawnDown(r.anchor, q.equity)]

StopHit(side, extreme, price) ==
    IF side > 0 THEN price * 100 <= extreme * (100 - TrailingPct)
                ELSE price * 100 >= extreme * (100 + TrailingPct)

\* A position seen for the first time, or no position: tracking starts over.
MutTrack(r, q) ==
    [r EXCEPT !.side = Side(q.current),
              !.extreme = IF q.current = 0 THEN 0 ELSE q.price]

Track(r, q) ==
    [r EXCEPT !.side = Side(q.current), !.stopped = FALSE,
              !.extreme = IF q.current = 0 THEN 0 ELSE q.price]

RefreshDynamicStop(r, q) ==
    LET side == Side(q.current)
        best == Best(side, r.extreme, q.price)
    IN  IF TrailingPct = 0 THEN r
        ELSE IF side = 0 \/ r.side # side THEN Track(r, q)
        ELSE [r EXCEPT !.extreme = best,
                       !.stopped = @ \/ StopHit(side, best, q.price)]

MaxAbsQty(q) == Least(NotionalCap, LeverageCap * q.equity) \div q.price

Clamp(qty, q) == Side(qty) * Least(Abs(qty), MaxAbsQty(q))

\* The alert flags after a request that was not rejected: each alert is raised
\* when its flag rises and may be raised again once it has fallen.
Settled(r, q, qty, enforce) ==
    LET used == Abs(qty) * q.price * 100
    IN  [r EXCEPT !.enforced = enforce,
                  !.notionalWarn = used >= WarnPct * NotionalCap,
                  !.leverageWarn = used >= WarnPct * LeverageCap * q.equity]

\* A request answered with 0 for another reason than the trailing stop.
Rejected(r) == [risk |-> r, qty |-> 0]

\* What apply answers: the fields after it and the approved quantity.
Apply(r, q) ==
    LET d == RefreshDynamicStop(RefreshDaily(r, q), q)
        enforce == d.stopped /\ MaintainsOrAdds(q.current, q.target)
        qty == Clamp(IF enforce THEN 0 ELSE q.target, q)
    IN  IF q.equity <= 0 THEN Rejected(r)
        ELSE IF d.daily /\ OpensNewRisk(q.current, q.target) THEN Rejected(d)
        ELSE [risk |-> Settled(d, q, qty, enforce), qty |-> qty]

-----------------------------------------------------------------------------

Init ==
    /\ risk = Fresh
    /\ position = 0
    /\ approval = None
    /\ given = {}
    /\ carried = FALSE

\* A request of today or of the next day; an approval the caller has not
\* executed is dropped.
Assess ==
    \E price \in Prices, equity \in Equities, target \in Targets,
       day \in {risk.day, risk.day + 1} \cap 1..MaxDay :
        LET q == [price |-> price, equity |-> equity, current |-> position,
                  target |-> target, day |-> day]
            a == Apply(risk, q)
        IN  /\ risk' = a.risk
            /\ approval' = a.qty
            /\ given' = IF equity > 0 /\ position # 0 THEN given \cup {price} ELSE given
            /\ UNCHANGED <<position, carried>>

\* The position moves to q; once it is on another side, it is another one.
MovesTo(q) ==
    LET same == Side(q) = Side(position)
    IN  /\ position' = q
        /\ given' = IF same THEN given ELSE {}
        /\ carried' = IF same THEN carried ELSE q # 0 /\ Side(q) = risk.side

\* execute_to_target moves the position there; a flip is two orders and may
\* be cut between them.
Execute ==
    /\ approval # None
    /\ \/ MovesTo(approval)
       \/ position * approval < 0 /\ MovesTo(0)
    /\ approval' = None
    /\ UNCHANGED risk

\* The position moves without apply being asked; an approval not executed by then
\* is dropped, since a round of the caller is one sequence of calls.
Trade ==
    /\ \E q \in Targets : MovesTo(q)
    /\ approval' = None
    /\ UNCHANGED risk

Next == Assess \/ Execute \/ Trade

Spec == Init /\ [][Next]_vars

-----------------------------------------------------------------------------
TypeOK ==
    /\ risk \in [day : 0..MaxDay, anchor : Nat, daily : BOOLEAN,
                 side : -1..1, extreme : Nat, stopped : BOOLEAN,
                 enforced : BOOLEAN, notionalWarn : BOOLEAN,
                 leverageWarn : BOOLEAN]
    /\ position \in Int
    /\ approval \in Int \cup {None}
    /\ given \subseteq Prices
    /\ carried \in BOOLEAN

\* The stop of fields r is a stop of the prices ps: its extreme is the best of
\* them, and one of them hit it if it is triggered.
IsStopOf(r, ps) ==
    /\ r.extreme \in ps
    /\ \A p \in ps : Best(r.side, r.extreme, p) = r.extreme
    /\ r.stopped => \E p \in ps : StopHit(r.side, r.extreme, p)

\* A quantity is approved only under a trailing stop that tracks the side of the
\* position it is approved for, and that stop is made of prices apply was given
\* since this position was opened: neither the extreme nor the trigger of an
\* earlier one, closed or flipped meanwhile, is left in it (README.md:155-166).
\* The exception is a position opened on the side still tracked, whose closing
\* apply was never shown: it inherits both (manager.py:159-174).
StopBelongsToPosition ==
    TrailingPct # 0 =>
        /\ approval \notin {None, 0} => risk.side = Side(position)
        /\ position # 0 /\ risk.side = Side(position) /\ ~carried => IsStopOf(risk, given)

\* However approvals and executions follow each other, no execution enlarges a
\* position whose trailing stop was hit, until it is closed or flipped
\* (README.md:172-178).
StoppedPositionOnlyShrinks ==
    [][Execute /\ risk.stopped /\ Side(position') = risk.side
         => Abs(position') <= Abs(position)]_vars

\* The daily stop lasts for its day whatever the equity does next, and while it
\* lasts no execution enlarges or flips the position
\* (test_daily_stop_still_allows_reducing_position_and_flatten_only).
DailyStopHolds ==
    [][risk.daily => /\ risk'.daily \/ risk'.day # risk.day
                     /\ Execute => ~OpensNewRisk(position, position')]_vars

=============================================================================
