----------------------------- MODULE Risk_proofs -----------------------------
(***************************************************************************)
(* Proofs about RiskManager, for any limits the constructor accepts, any   *)
(* prices, equities and targets a caller may bring and any number of days; *)
(* and about Degradation, for every set of metrics, thresholds, window and *)
(* recovery length, with the operator acting at any moment.                *)
(***************************************************************************)
EXTENDS RiskManager, Degradation, TLAPS

-----------------------------------------------------------------------------
(* What the operators apply is made of return.                             *)

Fields == [day : 0..MaxDay, anchor : Nat, daily : BOOLEAN,
           side : -1..1, extreme : Nat, stopped : BOOLEAN,
           enforced : BOOLEAN, notionalWarn : BOOLEAN, leverageWarn : BOOLEAN]

Requests == [price : Prices, equity : Equities, current : Int,
             target : Targets, day : 1..MaxDay]

\* The requests apply answers with more than 0: those with positive equity.
Funded(q) == q \in Requests /\ q.equity > 0

LEMMA SideType == ASSUME NEW n \in Int PROVE Side(n) \in -1..1 /\ (Side(n) = 0 <=> n = 0)
BY DEF Side

LEMMA AbsType == ASSUME NEW n \in Int PROVE Abs(n) \in Nat
BY DEF Abs

\* A quotient of naturals is a natural.
LEMMA QuotientType == ASSUME NEW a \in Nat, NEW b \in Nat \ {0} PROVE a \div b \in Nat
BY SMT

\* What a request that is not refused for its equity brings.
LEMMA RequestType ==
    ASSUME NEW q, Funded(q)
    PROVE  /\ q.price \in Nat /\ q.price > 0
           /\ q.equity \in Nat /\ q.equity > 0
           /\ q.current \in Int /\ q.target \in Int /\ q.day \in 1..MaxDay
<1>1. /\ q.price \in Prices /\ q.equity \in Equities /\ q.equity > 0
      /\ q.current \in Int /\ q.target \in Targets /\ q.day \in 1..MaxDay
    BY DEF Funded, Requests
<1>2. q.price \in Nat \ {0} /\ q.equity \in Int /\ q.target \in Int
    BY <1>1, RequestsAssumption
<1> QED
    BY <1>1, <1>2

\* The largest quantity the notional and the leverage cap allow is a natural.
LEMMA MaxAbsQtyType == ASSUME NEW q, Funded(q) PROVE MaxAbsQty(q) \in Nat
<1> DEFINE room == Least(NotionalCap, LeverageCap * q.equity)
<1>1. q.price \in Nat \ {0} /\ q.equity \in Nat
    BY RequestType
<1>2. LeverageCap * q.equity \in Nat
    BY <1>1, LimitsAssumption
<1>3. room \in Nat
    BY <1>2, LimitsAssumption DEF Least
<1>4. room \div q.price \in Nat
    BY <1>1, <1>3, QuotientType
<1> QED
    BY <1>4 DEF MaxAbsQty

\* A clamped quantity keeps its side or is 0, and is never larger.
LEMMA ClampShrinks ==
    ASSUME NEW q, Funded(q), NEW n \in Int
    PROVE  /\ Clamp(n, q) \in Int
           /\ Side(Clamp(n, q)) \in {0, Side(n)}
           /\ Abs(Clamp(n, q)) <= Abs(n)
<1> DEFINE m == Least(Abs(n), MaxAbsQty(q))
<1>1. m \in Nat /\ m <= Abs(n)
    BY MaxAbsQtyType, AbsType DEF Least
<1>2. Clamp(n, q) = IF n > 0 THEN m ELSE IF n < 0 THEN -m ELSE 0
    BY <1>1 DEF Clamp, Side
<1> QED
    BY <1>1, <1>2 DEF Side, Abs

LEMMA ClampBound ==
    ASSUME NEW q, Funded(q), NEW n \in Int
    PROVE  Abs(Clamp(n, q)) <= MaxAbsQty(q)
<1> DEFINE m == Least(Abs(n), MaxAbsQty(q))
<1>1. m \in Nat /\ m <= MaxAbsQty(q) /\ MaxAbsQty(q) \in Nat
    BY MaxAbsQtyType, AbsType DEF Least
<1>2. Clamp(n, q) = IF n > 0 THEN m ELSE IF n < 0 THEN -m ELSE 0
    BY <1>1 DEF Clamp, Side
<1> QED
    BY <1>1, <1>2 DEF Abs

\* A quotient times its divisor is at most the dividend.
LEMMA QuotientBound ==
    ASSUME NEW a \in Nat, NEW b \in Nat \ {0}, NEW m \in Nat, m <= a \div b
    PROVE  m * b <= a
<1>1. (a \div b) * b <= a
    BY SMT
<1>2. m * b <= (a \div b) * b
    BY QuotientType, SMT
<1> QED
    BY <1>1, <1>2, QuotientType

\* No approval is worth more, at the price it was asked for, than the notional
\* cap or than the leverage cap times the equity (RiskManager.apply).
THEOREM CapsHold ==
    ASSUME NEW q, Funded(q), NEW n \in Int
    PROVE  /\ Abs(Clamp(n, q)) * q.price <= NotionalCap
           /\ Abs(Clamp(n, q)) * q.price <= LeverageCap * q.equity
<1> DEFINE m == Abs(Clamp(n, q))
           b == q.price
           room == Least(NotionalCap, LeverageCap * q.equity)
<1>1. b \in Nat \ {0} /\ q.equity \in Nat
    BY RequestType
<1>2. LeverageCap * q.equity \in Nat
    BY <1>1, LimitsAssumption
<1>3. room \in Nat /\ room <= NotionalCap /\ room <= LeverageCap * q.equity
    BY <1>2, LimitsAssumption DEF Least
<1>4. m \in Nat /\ m <= MaxAbsQty(q)
    BY ClampShrinks, ClampBound, AbsType
<1>5. m * b <= room
    BY <1>1, <1>3, <1>4, QuotientBound DEF MaxAbsQty
<1>6. m * b \in Nat
    BY <1>1, <1>4
<1> HIDE DEF m, b, room
<1>7. m * b <= NotionalCap /\ m * b <= LeverageCap * q.equity
    BY <1>2, <1>3, <1>5, <1>6, LimitsAssumption
<1> QED
    BY <1>7 DEF m, b

\* The daily stop of a request's day: the fields keep their types, the trailing
\* stop is left alone, and a stop that holds ends only with its day.
LEMMA RefreshDailyFacts ==
    ASSUME NEW r \in Fields, NEW q, Funded(q)
    PROVE  LET d == RefreshDaily(r, q)
           IN  /\ d \in Fields
               /\ d.side = r.side /\ d.stopped = r.stopped /\ d.extreme = r.extreme
               /\ r.daily => d.daily \/ d.day # r.day
<1>1. q.equity \in Nat /\ q.day \in 0..MaxDay
    BY RequestType, RequestsAssumption
<1> QED
    BY <1>1 DEF RefreshDaily, Fields, DrawnDown

\* The trailing stop after a request: it tracks the position the request brings,
\* and leaves the daily stop alone.
LEMMA RefreshDynamicStopFacts ==
    ASSUME NEW r \in Fields, NEW q, Funded(q)
    PROVE  LET d == RefreshDynamicStop(r, q)
           IN  /\ d \in Fields
               /\ d.daily = r.daily /\ d.day = r.day
               /\ TrailingPct # 0 => d.side = Side(q.current)
               /\ TrailingPct = 0 => d = r
<1>1. q.price \in Nat /\ q.current \in Int
    BY RequestType
<1>2. Side(q.current) \in -1..1
    BY <1>1, SideType
<1>3. Best(Side(q.current), r.extreme, q.price) \in Nat
    BY <1>1 DEF Best, Fields
<1>4. Track(r, q) \in Fields
    BY <1>1, <1>2 DEF Track, Fields
<1>5. /\ Track(r, q).daily = r.daily /\ Track(r, q).day = r.day
      /\ Track(r, q).side = Side(q.current)
    BY DEF Track, Fields
<1>6. CASE TrailingPct = 0
    BY <1>6 DEF RefreshDynamicStop
<1>7. CASE TrailingPct # 0 /\ RefreshDynamicStop(r, q) = Track(r, q)
    BY <1>4, <1>5, <1>7
<1>8. CASE /\ TrailingPct # 0 /\ r.side = Side(q.current)
           /\ RefreshDynamicStop(r, q) # Track(r, q)
  <2> DEFINE best == Best(Side(q.current), r.extreme, q.price)
             hit == r.stopped \/ StopHit(Side(q.current), best, q.price)
  <2>1. RefreshDynamicStop(r, q) = [r EXCEPT !.extreme = best, !.stopped = hit]
      BY <1>8 DEF RefreshDynamicStop
  <2>2. best \in Nat /\ hit \in BOOLEAN
      BY <1>3 DEF Fields, StopHit
  <2> HIDE DEF best, hit
  <2> QED
      BY <1>8, <2>1, <2>2 DEF Fields
<1> QED
    BY <1>6, <1>7, <1>8 DEF RefreshDynamicStop

-----------------------------------------------------------------------------
(* What apply answers.                                                     *)

\* Without a trailing limit there is no trailing stop.
StopNeedsLimit(r) == TrailingPct = 0 => ~r.stopped

\* The fields after a request that was not refused for its equity, before the
\* alert flags are set.
Refreshed(r, q) == RefreshDynamicStop(RefreshDaily(r, q), q)

LEMMA RefreshedFacts ==
    ASSUME NEW r \in Fields, NEW q, Funded(q)
    PROVE  /\ Refreshed(r, q) \in Fields
           /\ TrailingPct # 0 => Refreshed(r, q).side = Side(q.current)
           /\ StopNeedsLimit(r) => StopNeedsLimit(Refreshed(r, q))
           /\ r.daily => Refreshed(r, q).daily \/ Refreshed(r, q).day # r.day
<1> DEFINE d == RefreshDaily(r, q)
<1>1. /\ d \in Fields /\ d.stopped = r.stopped
      /\ r.daily => d.daily \/ d.day # r.day
    BY RefreshDailyFacts
<1> HIDE DEF d
<1>2. /\ RefreshDynamicStop(d, q) \in Fields
      /\ RefreshDynamicStop(d, q).daily = d.daily /\ RefreshDynamicStop(d, q).day = d.day
      /\ TrailingPct # 0 => RefreshDynamicStop(d, q).side = Side(q.current)
      /\ TrailingPct = 0 => RefreshDynamicStop(d, q) = d
    BY <1>1, RefreshDynamicStopFacts
<1>3. Refreshed(r, q) = RefreshDynamicStop(d, q)
    BY DEF Refreshed, d
<1> QED
    BY <1>1, <1>2, <1>3 DEF StopNeedsLimit

\* The promises of one call of apply, whatever the fields and the request.
Answered(r, q, a) ==
    /\ a.risk \in Fields /\ a.qty \in Int
    /\ StopNeedsLimit(a.risk)
    /\ TrailingPct # 0 /\ a.qty # 0 => a.risk.side = Side(q.current)
    /\ a.risk.stopped /\ Side(a.qty) = a.risk.side => Abs(a.qty) <= Abs(q.current)
    /\ a.risk.daily => ~OpensNewRisk(q.current, a.qty)
    /\ r.daily => a.risk.daily \/ a.risk.day # r.day

\* A request answered with 0 keeps them when the fields it leaves do.
LEMMA RejectedAnswers ==
    ASSUME NEW r, NEW q, q.current \in Int, NEW d \in Fields, StopNeedsLimit(d),
           r.daily => d.daily \/ d.day # r.day
    PROVE  Answered(r, q, Rejected(d))
<1>1. Rejected(d).risk = d /\ Rejected(d).qty = 0
    BY DEF Rejected
<1>2. Abs(0) = 0 /\ Abs(q.current) \in Nat /\ ~OpensNewRisk(q.current, 0)
    BY AbsType DEF Abs, OpensNewRisk
<1> QED
    BY <1>1, <1>2 DEF Answered

\* Setting the alert flags leaves both stops alone.
LEMMA SettledFacts ==
    ASSUME NEW d \in Fields, NEW q, Funded(q), NEW n \in Int, NEW e \in BOOLEAN
    PROVE  LET f == Settled(d, q, n, e)
           IN  /\ f \in Fields
               /\ f.side = d.side /\ f.stopped = d.stopped /\ f.extreme = d.extreme
               /\ f.daily = d.daily /\ f.day = d.day
<1> DEFINE used == Abs(n) * q.price * 100
           warn1 == used >= WarnPct * NotionalCap
           warn2 == used >= WarnPct * LeverageCap * q.equity
<1>1. Abs(n) \in Nat /\ q.price \in Nat /\ q.equity \in Nat
    BY RequestType, AbsType
<1>2. used \in Int
    BY <1>1
<1>3. WarnPct * NotionalCap \in Int /\ WarnPct * LeverageCap * q.equity \in Int
    BY <1>1, LimitsAssumption
<1>4. warn1 \in BOOLEAN /\ warn2 \in BOOLEAN
    BY <1>2, <1>3
<1>5. Settled(d, q, n, e) = [d EXCEPT !.enforced = e, !.notionalWarn = warn1,
                                      !.leverageWarn = warn2]
    BY DEF Settled
<1> HIDE DEF warn1, warn2
<1> QED
    BY <1>4, <1>5 DEF Fields

LEMMA ApplyAnswers ==
    ASSUME NEW r \in Fields, StopNeedsLimit(r), NEW q \in Requests
    PROVE  Answered(r, q, Apply(r, q))
<1>0. q.current \in Int /\ q.equity \in Int /\ q.target \in Int
    BY RequestsAssumption DEF Requests
<1>1. CASE q.equity <= 0
  <2>1. Apply(r, q) = Rejected(r)
      BY <1>1 DEF Apply
  <2> QED
      BY <1>0, <2>1, RejectedAnswers
<1>2. CASE q.equity > 0
  <2> DEFINE d == Refreshed(r, q)
             enforce == d.stopped /\ MaintainsOrAdds(q.current, q.target)
             wanted == IF enforce THEN 0 ELSE q.target
             qty == Clamp(wanted, q)
  <2>0. Funded(q)
      BY <1>2 DEF Funded
  <2>1. /\ d \in Fields /\ StopNeedsLimit(d)
        /\ TrailingPct # 0 => d.side = Side(q.current)
        /\ r.daily => d.daily \/ d.day # r.day
      BY <2>0, RefreshedFacts
  <2>2. Apply(r, q) = IF d.daily /\ OpensNewRisk(q.current, q.target) THEN Rejected(d)
                      ELSE [risk |-> Settled(d, q, qty, enforce), qty |-> qty]
      BY <1>0, <1>2 DEF Apply, Refreshed
  <2> HIDE DEF d
  <2>3. CASE d.daily /\ OpensNewRisk(q.current, q.target)
      BY <1>0, <2>1, <2>2, <2>3, RejectedAnswers
  <2>4. CASE ~(d.daily /\ OpensNewRisk(q.current, q.target))
    <3>1. wanted \in Int /\ enforce \in BOOLEAN
        BY <1>0, <2>1 DEF Fields, MaintainsOrAdds
    <3>2. /\ qty \in Int /\ Side(qty) \in {0, Side(wanted)}
          /\ Abs(qty) <= Abs(wanted)
        BY <2>0, <3>1, ClampShrinks
    <3> DEFINE f == Settled(d, q, qty, enforce)
    <3> HIDE DEF qty, enforce
    <3>3. /\ f \in Fields /\ f.side = d.side /\ f.stopped = d.stopped
          /\ f.daily = d.daily /\ f.day = d.day
        BY <2>0, <2>1, <3>1, <3>2, SettledFacts
    <3> HIDE DEF f
    <3>4. f.stopped /\ Side(qty) = f.side => Abs(qty) <= Abs(q.current)
      <4> SUFFICES ASSUME d.stopped, Side(qty) = d.side
                   PROVE  Abs(qty) <= Abs(q.current)
          BY <3>3
      <4>1. d.side = Side(q.current)
          BY <2>1 DEF StopNeedsLimit
      <4>2. CASE q.current = 0
          BY <1>0, <3>2, <4>1, <4>2, SideType DEF Abs
      <4>3. CASE enforce
          BY <1>0, <3>2, <4>3, AbsType DEF Abs
      <4>4. CASE q.current # 0 /\ ~enforce
        <5>1. wanted = q.target
            BY <4>4
        <5>2. Side(q.current) # 0 /\ Side(q.target) = Side(q.current)
            BY <1>0, <3>2, <4>1, <4>4, <5>1, SideType
        <5>3. ~(Abs(q.target) >= Abs(q.current))
            BY <4>4, <5>2 DEF enforce, MaintainsOrAdds
        <5> QED
            BY <1>0, <3>2, <5>1, <5>3, AbsType
      <4> QED
          BY <4>2, <4>3, <4>4
    <3>5. f.daily => ~OpensNewRisk(q.current, qty)
      <4> SUFFICES ASSUME d.daily, qty # 0
                   PROVE  Side(q.current) = Side(qty) /\ Abs(qty) <= Abs(q.current)
          BY <1>0, <3>2, <3>3, AbsType DEF OpensNewRisk
      <4>1. Side(qty) = Side(wanted) /\ Side(qty) # 0
          BY <3>2, SideType
      <4>2. wanted = q.target /\ q.target # 0
          BY <4>1, SideType DEF Side
      <4>3. ~OpensNewRisk(q.current, q.target)
          BY <2>4
      <4> QED
          BY <1>0, <3>2, <4>1, <4>2, <4>3, AbsType DEF OpensNewRisk
    <3> DEFINE a == [risk |-> f, qty |-> qty]
    <3>6. Apply(r, q) = a
        BY <2>2, <2>4 DEF f
    <3>7. a.risk = f /\ a.qty = qty
        OBVIOUS
    <3>8. StopNeedsLimit(f)
        BY <2>1, <3>3 DEF StopNeedsLimit
    <3> HIDE DEF a
    <3> QED
        BY <2>1, <3>2, <3>3, <3>4, <3>5, <3>6, <3>7, <3>8 DEF Answered
  <2> QED
      BY <2>3, <2>4
<1> QED
    BY <1>0, <1>1, <1>2

-----------------------------------------------------------------------------
(* The prices a stop is made of.                                           *)

\* A larger factor gives a larger product.
LEMMA ProductGrows ==
    ASSUME NEW a \in Nat, NEW b \in Nat, a <= b, NEW k \in Nat
    PROVE  a * k <= b * k
BY SMT

\* The best of a price and an extreme is at least as good as either, and a stop
\* that was hit under the extreme is hit under the better one.
LEMMA BestIsBetter ==
    ASSUME NEW side \in {-1, 1}, NEW e \in Nat, NEW price \in Nat
    PROVE  LET best == Best(side, e, price)
           IN  /\ best \in {e, price}
               /\ Best(side, best, price) = best
               /\ \A p \in Nat : Best(side, e, p) = e => Best(side, best, p) = best
               /\ \A p \in Nat : StopHit(side, e, p) => StopHit(side, best, p)
<1> DEFINE best == Best(side, e, price)
<1>1. best \in {e, price} /\ Best(side, best, price) = best
    BY DEF Best
<1>2. ASSUME NEW p \in Nat, Best(side, e, p) = e PROVE Best(side, best, p) = best
    BY <1>2 DEF Best
<1>3. ASSUME NEW p \in Nat, StopHit(side, e, p) PROVE StopHit(side, best, p)
  <2>1. 100 - TrailingPct \in Nat /\ 100 + TrailingPct \in Nat /\ best \in Nat
      BY <1>1, LimitsAssumption
  <2>2. CASE side = 1
    <3>1. e <= best
        BY <2>2 DEF Best
    <3> HIDE DEF best
    <3>2. e * (100 - TrailingPct) <= best * (100 - TrailingPct)
        BY <2>1, <3>1, ProductGrows
    <3>3. e * (100 - TrailingPct) \in Nat /\ best * (100 - TrailingPct) \in Nat
        BY <2>1
    <3> QED
        BY <1>3, <2>2, <3>2, <3>3 DEF StopHit
  <2>3. CASE side = -1
    <3>1. best <= e
        BY <2>3 DEF Best
    <3> HIDE DEF best
    <3>2. best * (100 + TrailingPct) <= e * (100 + TrailingPct)
        BY <2>1, <3>1, ProductGrows
    <3>3. e * (100 + TrailingPct) \in Nat /\ best * (100 + TrailingPct) \in Nat
        BY <2>1
    <3> QED
        BY <1>3, <2>3, <3>2, <3>3 DEF StopHit
  <2> QED
      BY <2>2, <2>3
<1> QED
    BY <1>1, <1>2, <1>3

\* A stop of the prices given so far becomes one of those and the new price; for
\* a position seen for the first time it is one of the new price alone.
LEMMA RefreshedIsStopOf ==
    ASSUME NEW r \in Fields, NEW q, Funded(q), NEW ps \in SUBSET Prices,
           TrailingPct # 0, q.current # 0,
           IF r.side = Side(q.current) THEN IsStopOf(r, ps) ELSE ps = {}
    PROVE  IsStopOf(RefreshDynamicStop(r, q), ps \cup {q.price})
<1> DEFINE side == Side(q.current)
           best == Best(side, r.extreme, q.price)
           hit == r.stopped \/ StopHit(side, best, q.price)
<1>1. q.price \in Nat /\ side \in {-1, 1} /\ r.extreme \in Nat /\ ps \subseteq Nat
    BY RequestType, SideType, RequestsAssumption DEF Fields
<1>2. CASE r.side # side
  <2>1. /\ RefreshDynamicStop(r, q).side = side
        /\ RefreshDynamicStop(r, q).extreme = q.price
        /\ ~RefreshDynamicStop(r, q).stopped
      BY <1>2 DEF RefreshDynamicStop, Track, Fields
  <2>2. Best(side, q.price, q.price) = q.price
      BY <1>1 DEF Best
  <2> QED
      BY <1>2, <2>1, <2>2 DEF IsStopOf
<1>3. CASE r.side = side
  <2>1. RefreshDynamicStop(r, q) = [r EXCEPT !.extreme = best, !.stopped = hit]
      BY <1>1, <1>3 DEF RefreshDynamicStop
  <2>2. /\ RefreshDynamicStop(r, q).side = side
        /\ RefreshDynamicStop(r, q).extreme = best
        /\ RefreshDynamicStop(r, q).stopped = hit
      BY <1>3, <2>1 DEF Fields
  <2>3. /\ best \in {r.extreme, q.price} /\ Best(side, best, q.price) = best
        /\ \A p \in Nat : Best(side, r.extreme, p) = r.extreme => Best(side, best, p) = best
        /\ \A p \in Nat : StopHit(side, r.extreme, p) => StopHit(side, best, p)
      BY <1>1, BestIsBetter
  <2> HIDE DEF best, side
  <2>4. IsStopOf(r, ps) /\ r.side = side
      BY <1>3 DEF side
  <2>5. best \in ps \cup {q.price}
      BY <2>3, <2>4 DEF IsStopOf
  <2>6. \A p \in ps \cup {q.price} : Best(side, best, p) = best
      BY <1>1, <2>3, <2>4 DEF IsStopOf
  <2>7. hit => \E p \in ps \cup {q.price} : StopHit(side, best, p)
      BY <1>1, <2>3, <2>4 DEF IsStopOf
  <2> HIDE DEF hit
  <2> QED
      BY <2>2, <2>5, <2>6, <2>7 DEF IsStopOf
<1> QED
    BY <1>2, <1>3

\* The stop that apply leaves is the refreshed one, however it answers.
LEMMA ApplyLeavesStop ==
    ASSUME NEW r \in Fields, NEW q \in Requests, Funded(q)
    PROVE  LET a == Apply(r, q).risk
               d == Refreshed(r, q)
           IN  a.side = d.side /\ a.extreme = d.extreme /\ a.stopped = d.stopped
<1> DEFINE d == Refreshed(r, q)
           enforce == d.stopped /\ MaintainsOrAdds(q.current, q.target)
           wanted == IF enforce THEN 0 ELSE q.target
           qty == Clamp(wanted, q)
<1>1. d \in Fields /\ q.target \in Int /\ q.current \in Int /\ q.equity > 0 /\ q.equity \in Int
    BY RefreshedFacts, RequestType DEF Funded
<1>2. Apply(r, q) = IF d.daily /\ OpensNewRisk(q.current, q.target) THEN Rejected(d)
                    ELSE [risk |-> Settled(d, q, qty, enforce), qty |-> qty]
    BY <1>1 DEF Apply, Refreshed
<1> HIDE DEF d
<1>3. wanted \in Int /\ enforce \in BOOLEAN
    BY <1>1 DEF Fields, MaintainsOrAdds
<1>4. qty \in Int
    BY <1>3, ClampShrinks
<1> DEFINE f == Settled(d, q, qty, enforce)
<1> HIDE DEF qty, enforce
<1>5. f.side = d.side /\ f.stopped = d.stopped /\ f.extreme = d.extreme
    BY <1>1, <1>3, <1>4, SettledFacts
<1> HIDE DEF f
<1>6. Apply(r, q).risk = d \/ Apply(r, q).risk = f
    BY <1>2 DEF Rejected, f
<1> QED
    BY <1>5, <1>6 DEF d

LEMMA ApplyIsStopOf ==
    ASSUME NEW r \in Fields, NEW q \in Requests, Funded(q), NEW ps \in SUBSET Prices,
           TrailingPct # 0, q.current # 0,
           IF r.side = Side(q.current) THEN IsStopOf(r, ps) ELSE ps = {}
    PROVE  IsStopOf(Apply(r, q).risk, ps \cup {q.price})
<1> DEFINE d == RefreshDaily(r, q)
<1>1. d \in Fields /\ d.side = r.side /\ d.stopped = r.stopped /\ d.extreme = r.extreme
    BY RefreshDailyFacts
<1> HIDE DEF d
<1>2. IF d.side = Side(q.current) THEN IsStopOf(d, ps) ELSE ps = {}
    BY <1>1 DEF IsStopOf
<1>3. IsStopOf(RefreshDynamicStop(d, q), ps \cup {q.price})
    BY <1>1, <1>2, RefreshedIsStopOf
<1>4. Refreshed(r, q) = RefreshDynamicStop(d, q)
    BY DEF Refreshed, d
<1> QED
    BY <1>3, <1>4, ApplyLeavesStop DEF IsStopOf

-----------------------------------------------------------------------------
(* Type correctness and the stops, from one inductive invariant: what the  *)
(* last answer promised still holds of the approval it left.               *)

\* Under a trailing stop an approval on the stopped side is no larger than the
\* position; under a daily stop an approval opens no new risk.
ApprovalRespectsStops ==
    approval # None =>
        /\ risk.stopped /\ Side(approval) = risk.side => Abs(approval) <= Abs(position)
        /\ risk.daily => ~OpensNewRisk(position, approval)

\* The prices counted are those of a position that apply has been shown.
GivenIsOfPosition == TrailingPct # 0 /\ position # 0 /\ risk.side # Side(position) => given = {}

RiskInv == /\ TypeOK
           /\ StopNeedsLimit(risk)
           /\ StopBelongsToPosition
           /\ GivenIsOfPosition
           /\ ApprovalRespectsStops

LEMMA RiskInit == Init => RiskInv
<1> SUFFICES ASSUME Init PROVE RiskInv
    OBVIOUS
<1> USE DEF Init
<1>1. TypeOK
  <2>1. risk \in Fields
      BY RequestsAssumption DEF Fresh, Fields
  <2>2. position \in Int /\ approval = None /\ given = {} /\ carried = FALSE
      OBVIOUS
  <2>3. given \subseteq Prices /\ carried \in BOOLEAN
      BY <2>2
  <2> HIDE DEF Init
  <2> QED
      BY <2>1, <2>2, <2>3 DEF TypeOK, Fields
<1>2. StopNeedsLimit(risk)
    BY DEF StopNeedsLimit, Fresh
<1> QED
    BY <1>1, <1>2 DEF RiskInv, StopBelongsToPosition, GivenIsOfPosition, ApprovalRespectsStops

\* A request that Assess makes is one apply may be given, and its answer keeps
\* every promise about the position the request was made with.
LEMMA AssessAnswers ==
    ASSUME TypeOK, StopNeedsLimit(risk), Assess
    PROVE  /\ position' = position /\ approval' \in Int /\ risk' \in Fields
           /\ StopNeedsLimit(risk')
           /\ TrailingPct # 0 /\ approval' # 0 => risk'.side = Side(position)
           /\ risk'.stopped /\ Side(approval') = risk'.side
                => Abs(approval') <= Abs(position)
           /\ risk'.daily => ~OpensNewRisk(position, approval')
           /\ risk.daily => risk'.daily \/ risk'.day # risk.day
           /\ given' \subseteq Prices /\ carried' = carried
<1>1. PICK price \in Prices, equity \in Equities, target \in Targets,
           day \in {risk.day, risk.day + 1} \cap 1..MaxDay :
        LET q == [price |-> price, equity |-> equity, current |-> position,
                  target |-> target, day |-> day]
            a == Apply(risk, q)
        IN  /\ risk' = a.risk
            /\ approval' = a.qty
            /\ given' = IF equity > 0 /\ position # 0 THEN given \cup {price} ELSE given
            /\ UNCHANGED <<position, carried>>
    BY DEF Assess
<1> DEFINE q == [price |-> price, equity |-> equity, current |-> position,
                 target |-> target, day |-> day]
<1>2. q \in Requests /\ q.current = position
    BY DEF Requests, TypeOK
<1>3. risk \in Fields
    BY DEF TypeOK, Fields
<1>4. Answered(risk, q, Apply(risk, q))
    BY <1>2, <1>3, ApplyAnswers
<1>5. risk' = Apply(risk, q).risk /\ approval' = Apply(risk, q).qty /\ position' = position
    BY <1>1
<1>6. given' \subseteq Prices /\ carried' = carried
    BY <1>1 DEF TypeOK
<1> HIDE DEF q
<1> QED
    BY <1>2, <1>4, <1>5, <1>6 DEF Answered

\* Under a trailing limit a request either is refused for its equity, or shows
\* apply the position, at a price that is counted and that its stop is made of.
LEMMA AssessTracks ==
    ASSUME RiskInv, Assess, TrailingPct # 0, position # 0
    PROVE  \/ risk' = risk /\ given' = given
           \/ /\ risk'.side = Side(position)
              /\ ~carried => IsStopOf(risk', given')
<1>1. PICK price \in Prices, equity \in Equities, target \in Targets,
           day \in {risk.day, risk.day + 1} \cap 1..MaxDay :
        LET q == [price |-> price, equity |-> equity, current |-> position,
                  target |-> target, day |-> day]
        IN  /\ risk' = Apply(risk, q).risk
            /\ given' = IF equity > 0 /\ position # 0 THEN given \cup {price} ELSE given
    BY DEF Assess
<1> DEFINE q == [price |-> price, equity |-> equity, current |-> position,
                 target |-> target, day |-> day]
<1>2. q \in Requests /\ q.current = position /\ q.equity = equity /\ q.price = price
    BY DEF Requests, RiskInv, TypeOK
<1>3. risk \in Fields /\ given \in SUBSET Prices /\ equity \in Int
    BY RequestsAssumption DEF RiskInv, TypeOK, Fields
<1>4. risk' = Apply(risk, q).risk
    BY <1>1
<1> HIDE DEF q
<1>5. CASE equity <= 0
    BY <1>1, <1>2, <1>3, <1>4, <1>5 DEF Apply, Rejected
<1>6. CASE equity > 0
  <2>1. Funded(q) /\ given' = given \cup {q.price}
      BY <1>1, <1>2, <1>6 DEF Funded
  <2>2. risk'.side = Side(position)
      BY <1>2, <1>3, <1>4, <2>1, ApplyLeavesStop, RefreshedFacts
  <2>3. ~carried => IF risk.side = Side(position) THEN IsStopOf(risk, given) ELSE given = {}
      BY DEF RiskInv, StopBelongsToPosition, GivenIsOfPosition
  <2>4. ~carried => IsStopOf(risk', given')
      BY <1>2, <1>3, <1>4, <2>1, <2>3, ApplyIsStopOf
  <2> QED
      BY <2>2, <2>4
<1> QED
    BY <1>3, <1>5, <1>6

\* A position that has moved keeps its stop, or is one that apply has not seen.
LEMMA MoveKeepsStop ==
    ASSUME RiskInv, NEW n \in Int, MovesTo(n), risk' = risk, approval' = None
    PROVE  RiskInv'
<1>1. position' = n
    BY DEF MovesTo
<1>2. CASE Side(n) = Side(position)
  <2>1. UNCHANGED <<given, carried>>
      BY <1>2 DEF MovesTo
  <2>2. position # 0 <=> n # 0
      BY <1>2, SideType DEF RiskInv, TypeOK
  <2> QED
      BY <1>1, <1>2, <2>1, <2>2 DEF RiskInv, TypeOK, StopNeedsLimit, StopBelongsToPosition,
         GivenIsOfPosition, ApprovalRespectsStops
<1>3. CASE Side(n) # Side(position)
  <2>1. given' = {} /\ carried' = (n # 0 /\ Side(n) = risk.side)
      BY <1>3 DEF MovesTo
  <2> QED
      BY <1>1, <2>1 DEF RiskInv, TypeOK, StopNeedsLimit, StopBelongsToPosition,
         GivenIsOfPosition, ApprovalRespectsStops
<1> QED
    BY <1>2, <1>3

LEMMA RiskStep == RiskInv /\ [Next]_vars => RiskInv'
<1> SUFFICES ASSUME RiskInv, [Next]_vars PROVE RiskInv'
    OBVIOUS
<1>1. CASE Assess
  <2>1. /\ position' = position /\ approval' \in Int /\ risk' \in Fields
        /\ StopNeedsLimit(risk')
        /\ TrailingPct # 0 /\ approval' # 0 => risk'.side = Side(position)
        /\ risk'.stopped /\ Side(approval') = risk'.side
             => Abs(approval') <= Abs(position)
        /\ risk'.daily => ~OpensNewRisk(position, approval')
        /\ given' \subseteq Prices /\ carried' = carried
      BY <1>1, AssessAnswers DEF RiskInv
  <2>2. TypeOK'
      BY <2>1 DEF RiskInv, TypeOK, Fields
  <2>3. StopBelongsToPosition' /\ GivenIsOfPosition'
    <3>1. CASE TrailingPct # 0 /\ position # 0
      <4>1. CASE risk' = risk /\ given' = given
          BY <2>1, <3>1, <4>1 DEF RiskInv, StopBelongsToPosition, GivenIsOfPosition
      <4>2. CASE risk'.side = Side(position) /\ (~carried => IsStopOf(risk', given'))
          BY <2>1, <3>1, <4>2 DEF StopBelongsToPosition, GivenIsOfPosition
      <4> QED
          BY <1>1, <3>1, <4>1, <4>2, AssessTracks
    <3>2. CASE ~(TrailingPct # 0 /\ position # 0)
        BY <2>1, <3>2 DEF StopBelongsToPosition, GivenIsOfPosition
    <3> QED
        BY <3>1, <3>2
  <2>4. ApprovalRespectsStops'
      BY <2>1 DEF ApprovalRespectsStops
  <2> QED
      BY <2>1, <2>2, <2>3, <2>4 DEF RiskInv
<1>2. CASE Execute
    BY <1>2, MoveKeepsStop DEF Execute, RiskInv, TypeOK
<1>3. CASE Trade
    BY <1>3, MoveKeepsStop, RequestsAssumption DEF Trade
<1>4. CASE UNCHANGED vars
    BY <1>4 DEF vars, RiskInv, TypeOK, StopNeedsLimit, StopBelongsToPosition,
                IsStopOf, GivenIsOfPosition, ApprovalRespectsStops
<1> QED
    BY <1>1, <1>2, <1>3, <1>4 DEF Next

LEMMA RiskInvariance == Spec => []RiskInv
<1> QED
    BY RiskInit, RiskStep, PTL DEF Spec

\* The fields, the position and the approval keep their types whatever is
\* requested (RiskManager.apply).
THEOREM TypeCorrect == Spec => []TypeOK
<1>1. RiskInv => TypeOK
    BY DEF RiskInv
<1> QED
    BY <1>1, RiskInvariance, PTL

\* A quantity other than 0 is approved only under a trailing stop that tracks
\* the side of the position it is approved for, and that stop is made of prices
\* given since the position was opened, however positions are closed, flipped or
\* opened between two calls of apply; except for a position opened on the side
\* still tracked.
THEOREM StopIsOfPosition == Spec => []StopBelongsToPosition
<1>1. RiskInv => StopBelongsToPosition
    BY DEF RiskInv
<1> QED
    BY <1>1, RiskInvariance, PTL

\* What Execute leaves of an approval: it is reached, or a flip is cut at 0.
LEMMA ExecuteReaches ==
    ASSUME TypeOK, Execute
    PROVE  /\ approval # None /\ approval \in Int /\ risk' = risk
           /\ position' \in {approval, 0}
BY DEF Execute, MovesTo, TypeOK

\* A position whose trailing stop was hit only shrinks until it is closed or
\* flipped, for every sequence of requests, equities, prices and executions.
THEOREM StopShrinks == Spec => StoppedPositionOnlyShrinks
<1>1. RiskInv => (Execute /\ risk.stopped /\ Side(position') = risk.side
                    => Abs(position') <= Abs(position))
  <2> SUFFICES ASSUME RiskInv, Execute, risk.stopped, Side(position') = risk.side
               PROVE  Abs(position') <= Abs(position)
      OBVIOUS
  <2>1. approval # None /\ approval \in Int /\ position' \in {approval, 0}
      BY ExecuteReaches DEF RiskInv
  <2>2. position' = approval => Abs(position') <= Abs(position)
      BY <2>1 DEF RiskInv, ApprovalRespectsStops
  <2>3. position' = 0 => Abs(position') <= Abs(position)
      BY DEF Abs, RiskInv, TypeOK
  <2> QED
      BY <2>1, <2>2, <2>3
<1> QED
    BY <1>1, RiskInvariance, PTL DEF Spec, StoppedPositionOnlyShrinks

\* The daily stop lasts for its day whatever the equity does next, and while it
\* lasts no execution enlarges or flips the position.
THEOREM DailyStopLasts == Spec => DailyStopHolds
<1>1. RiskInv /\ [Next]_vars =>
        [risk.daily => /\ risk'.daily \/ risk'.day # risk.day
                       /\ Execute => ~OpensNewRisk(position, position')]_vars
  <2> SUFFICES ASSUME RiskInv, Next, risk.daily
               PROVE  /\ risk'.daily \/ risk'.day # risk.day
                      /\ Execute => ~OpensNewRisk(position, position')
      OBVIOUS
  <2>1. risk'.daily \/ risk'.day # risk.day
      BY AssessAnswers DEF Next, Execute, Trade, RiskInv
  <2>2. ASSUME Execute PROVE ~OpensNewRisk(position, position')
    <3>1. approval # None /\ approval \in Int /\ position' \in {approval, 0}
        BY <2>2, ExecuteReaches DEF RiskInv
    <3>2. ~OpensNewRisk(position, approval) /\ ~OpensNewRisk(position, 0)
        BY <3>1 DEF RiskInv, ApprovalRespectsStops, OpensNewRisk
    <3> QED
        BY <3>1, <3>2
  <2> QED
      BY <2>1, <2>2
<1> QED
    BY <1>1, RiskInvariance, PTL DEF Spec, DailyStopHolds

(***************************************************************************)
(* Automatic degradation.                                                  *)
(***************************************************************************)
-----------------------------------------------------------------------------
(* What one evaluation decides, without the window it is decided on *)

Evaluates(critical, warn) ==
    /\ seen.todo = "nothing"
    /\ \/ /\ critical # {}
          /\ mode' = "HALTED" /\ healthy' = 0 /\ released' = FALSE
          /\ seen' = [todo |-> "halt", block |-> global, reason |-> AutoHalt(critical)]
       \/ /\ critical = {} /\ warn # {}
          /\ mode' = "DEGRADED" /\ healthy' = 0
          /\ seen' = seen /\ released' = released
       \/ /\ critical = {} /\ warn = {}
          /\ healthy' = HealthyAfter /\ released' = released
          /\ \/ mode' = mode /\ seen' = seen
             \/ mode' = "NORMAL" /\ autoHalt = NoReason /\ seen' = seen
             \/ /\ mode' = "NORMAL" /\ autoHalt # NoReason
                /\ seen' = [todo |-> "recover", block |-> global, reason |-> autoHalt]
    /\ autoHalt' = autoHalt
    /\ global' = global

LEMMA RecordEvaluates ==
    ASSUME NEW sample \in Sample, RecordSample(sample)
    PROVE  \E critical, warn \in SUBSET Metrics : Evaluates(critical, warn)
<1> DEFINE w == Slide(sample)
           critical == Breached(w, Critical)
           warn == Breached(w, Warn)
<1>1. critical \in SUBSET Metrics /\ warn \in SUBSET Metrics
    BY DEF Breached
<1>2. Evaluates(critical, warn)
    BY DEF RecordSample, Evaluates
<1> QED
    BY <1>1, <1>2

-----------------------------------------------------------------------------
(* Type correctness *)

LEMMA SlideType ==
    ASSUME window \in Seq(Sample), Len(window) <= WindowSize, NEW sample \in Sample
    PROVE  Slide(sample) \in Seq(Sample) /\ Len(Slide(sample)) <= WindowSize
<1> DEFINE longer == Append(window, sample)
<1>1. longer \in Seq(Sample) /\ Len(longer) = Len(window) + 1
    OBVIOUS
<1>2. CASE Len(longer) > WindowSize
  <2>1. Slide(sample) = Tail(longer)
      BY <1>2 DEF Slide
  <2>2. Tail(longer) \in Seq(Sample) /\ Len(Tail(longer)) = Len(longer) - 1
      BY <1>1
  <2> QED
      BY <1>1, <2>1, <2>2, DegradationAssumption
<1>3. CASE ~(Len(longer) > WindowSize)
  <2>1. Slide(sample) = longer
      BY <1>3 DEF Slide
  <2> QED
      BY <1>1, <1>3, <2>1, DegradationAssumption
<1> QED
    BY <1>2, <1>3

LEMMA TypeInit == DegradationInit => DegradationTypeOK
<1> SUFFICES ASSUME DegradationInit PROVE DegradationTypeOK
    OBVIOUS
<1>1. window \in Seq(Sample) /\ Len(window) <= WindowSize
    BY DegradationAssumption DEF DegradationInit
<1>2. healthy \in 0..RecoverSamples
    BY DegradationAssumption DEF DegradationInit
<1>3. NoReason \in Reason /\ Idle.todo = "nothing" /\ Idle.block = NoReason /\ Idle.reason = NoReason
    BY DEF Reason, Idle
<1>4. seen \in [todo : {"nothing", "halt", "recover"}, block : Reason, reason : Reason]
    BY <1>3 DEF DegradationInit, Idle
<1> QED
    BY <1>1, <1>2, <1>3, <1>4 DEF DegradationInit, DegradationTypeOK, Modes

LEMMA TypeStep == DegradationTypeOK /\ [DegradationNext]_degradationVars => DegradationTypeOK'
<1> SUFFICES ASSUME DegradationTypeOK, [DegradationNext]_degradationVars PROVE DegradationTypeOK'
    OBVIOUS
<1>1. ASSUME NEW sample \in Sample, RecordSample(sample) PROVE DegradationTypeOK'
  <2>1. window' \in Seq(Sample) /\ Len(window') <= WindowSize
      BY <1>1, SlideType DEF RecordSample, DegradationTypeOK
  <2>2. /\ anomalies' \subseteq Metrics \X {"warn", "critical"}
        /\ raised' \subseteq Metrics \X {"warn", "critical"}
      BY <1>1 DEF RecordSample, Breached
  <2>3. PICK critical, warn \in SUBSET Metrics : Evaluates(critical, warn)
      BY <1>1, RecordEvaluates
  <2>4. HealthyAfter \in 0..RecoverSamples
      BY DegradationAssumption DEF HealthyAfter, DegradationTypeOK
  <2>5. mode' \in Modes /\ healthy' \in 0..RecoverSamples
      BY <2>3, <2>4, DegradationAssumption DEF Evaluates, DegradationTypeOK, Modes
  <2>6. AutoHalt(critical) \in Reason
      BY DEF Reason
  <2>7. seen' \in [todo : {"nothing", "halt", "recover"}, block : Reason, reason : Reason]
      BY <2>3, <2>6 DEF Evaluates, DegradationTypeOK
  <2>8. released' \in BOOLEAN /\ autoHalt' \in Reason /\ global' \in Reason
      BY <2>3 DEF Evaluates, DegradationTypeOK
  <2> QED
      BY <2>1, <2>2, <2>5, <2>7, <2>8 DEF DegradationTypeOK
<1>2. CASE ActHalt
  <2>1. autoHalt' \in Reason /\ global' \in Reason
      BY <1>2 DEF ActHalt, Adopted, DegradationTypeOK
  <2> QED
      BY <1>2, <2>1 DEF ActHalt, DegradationTypeOK, Idle, Reason
<1>3. CASE ActRecover
    BY <1>3 DEF ActRecover, DegradationTypeOK, Idle, Reason
<1>4. CASE OperatorEngages \/ OperatorReleases
    BY <1>4 DEF OperatorEngages, OperatorReleases, controllerVars, DegradationTypeOK, Reason
<1>5. CASE UNCHANGED degradationVars
    BY <1>5 DEF degradationVars, controllerVars, DegradationTypeOK
<1> QED
    BY <1>1, <1>2, <1>3, <1>4, <1>5 DEF DegradationNext, Record, Act

\* The controller's state and the switch keep their types.
THEOREM DegradationTypeCorrect == DegradationSpec => []DegradationTypeOK
BY TypeInit, TypeStep, PTL DEF DegradationSpec

-----------------------------------------------------------------------------
(* The invariant: whose halt is in force, and what record_sample knows of  *)
(* it while it holds a block it has read.                                  *)

OwnInv == global.by = "auto" => autoHalt = global

\* While a block is held, an automatic halt in force is the one that was read,
\* and an automatic halt that was read is the controller's own.
SeenInv ==
    /\ seen.todo # "nothing" =>
          /\ global.by = "auto" => seen.block = global
          /\ seen.block.by = "auto" => autoHalt = seen.block
    /\ seen.todo = "halt" => mode = "HALTED" /\ seen.reason.by = "auto"
    /\ seen.todo = "recover" => mode = "NORMAL"

NormalInv == seen.todo = "nothing" /\ mode = "NORMAL" => autoHalt = NoReason

BlockInv ==
    /\ HaltedIsBlocked
    /\ seen.todo = "halt" /\ ~released /\ seen.block # NoReason => global # NoReason

HaltInv == DegradationTypeOK /\ OwnInv /\ SeenInv /\ NormalInv /\ BlockInv

LEMMA HaltInvInit == DegradationInit => HaltInv
BY TypeInit DEF DegradationInit, HaltInv, OwnInv, SeenInv, NormalInv, BlockInv, HaltedIsBlocked, Idle, NoReason

LEMMA HaltInvStep == HaltInv /\ [DegradationNext]_degradationVars => HaltInv'
<1> SUFFICES ASSUME HaltInv, [DegradationNext]_degradationVars PROVE HaltInv'
    OBVIOUS
<1>0. DegradationTypeOK'
    BY TypeStep DEF HaltInv
<1>1. ASSUME NEW sample \in Sample, RecordSample(sample) PROVE HaltInv'
  <2>1. PICK critical, warn \in SUBSET Metrics : Evaluates(critical, warn)
      BY <1>1, RecordEvaluates
  <2>2. OwnInv'
      BY <2>1 DEF Evaluates, HaltInv, OwnInv
  <2>3. SeenInv'
      BY <2>1 DEF Evaluates, HaltInv, OwnInv, SeenInv, AutoHalt
  <2>4. NormalInv'
      BY <2>1 DEF Evaluates, HaltInv, NormalInv
  <2>5. BlockInv'
      BY <2>1 DEF Evaluates, HaltInv, BlockInv, HaltedIsBlocked
  <2> QED
      BY <1>0, <2>2, <2>3, <2>4, <2>5 DEF HaltInv
<1>2. CASE ActHalt
  <2>1. /\ seen.todo = "halt" /\ seen'.todo = "nothing" /\ mode' = mode /\ mode = "HALTED"
        /\ released' = released
      BY <1>2 DEF ActHalt, Idle, HaltInv, SeenInv
  <2>2. CASE MayEngage
    <3>1. global' = seen.reason /\ autoHalt' = seen.reason /\ seen.reason # NoReason
        BY <1>2, <2>2 DEF ActHalt, HaltInv, SeenInv, NoReason
    <3> QED
        BY <1>0, <2>1, <3>1
        DEF HaltInv, OwnInv, SeenInv, NormalInv, BlockInv, HaltedIsBlocked
  <2>3. CASE ~MayEngage
    <3>1. global' = global /\ autoHalt' = autoHalt /\ seen.block # NoReason
        BY <1>2, <2>3 DEF ActHalt, Adopted, MayEngage, HaltInv, SeenInv
    <3> QED
        BY <1>0, <2>1, <3>1
        DEF HaltInv, OwnInv, SeenInv, NormalInv, BlockInv, HaltedIsBlocked
  <2> QED
      BY <2>2, <2>3
<1>3. CASE ActRecover
  <2>1. /\ seen.todo = "recover" /\ seen'.todo = "nothing" /\ mode' = mode /\ mode = "NORMAL"
        /\ autoHalt' = NoReason
      BY <1>3 DEF ActRecover, Idle, HaltInv, SeenInv
  <2>2. global'.by # "auto"
    <3>1. CASE MayRelease
        BY <1>3, <3>1 DEF ActRecover, NoReason
    <3>2. CASE ~MayRelease
      <4>1. global' = global /\ seen.block # autoHalt
          BY <1>3, <3>2 DEF ActRecover, MayRelease
      <4> QED
          BY <2>1, <4>1 DEF HaltInv, OwnInv, SeenInv
    <3> QED
        BY <3>1, <3>2
  <2> QED
      BY <1>0, <2>1, <2>2
      DEF HaltInv, OwnInv, SeenInv, NormalInv, BlockInv, HaltedIsBlocked
<1>4. CASE OperatorEngages
    BY <1>0, <1>4
    DEF OperatorEngages, controllerVars, HaltInv, OwnInv, SeenInv, NormalInv, BlockInv,
        HaltedIsBlocked, Manual, NoReason
<1>5. CASE OperatorReleases
    BY <1>0, <1>5
    DEF OperatorReleases, controllerVars, HaltInv, OwnInv, SeenInv, NormalInv, BlockInv,
        HaltedIsBlocked, NoReason
<1>6. CASE UNCHANGED degradationVars
    BY <1>0, <1>6
    DEF degradationVars, controllerVars, HaltInv, OwnInv, SeenInv, NormalInv, BlockInv, HaltedIsBlocked
<1> QED
    BY <1>1, <1>2, <1>3, <1>4, <1>5, <1>6 DEF DegradationNext, Record, Act

LEMMA HaltInvCorrect == DegradationSpec => []HaltInv
BY HaltInvInit, HaltInvStep, PTL DEF DegradationSpec

\* An automatic halt in force is always the one record_sample will release.
THEOREM HaltIsOwned == DegradationSpec => []AutoHaltIsOwned
<1>1. HaltInv => AutoHaltIsOwned
    BY DEF HaltInv, OwnInv, AutoHaltIsOwned
<1> QED
    BY <1>1, HaltInvCorrect, PTL

\* The controller is never back to NORMAL with its own halt left engaged.
THEOREM NormalReleases == DegradationSpec => []NormalIsReleased
<1>1. HaltInv => NormalIsReleased
    BY DEF HaltInv, OwnInv, NormalInv, NormalIsReleased, NoReason
<1> QED
    BY <1>1, HaltInvCorrect, PTL

\* HALTED means blocked until the operator says otherwise, even when the operator
\* acts between the controller's look at the switch and its engage.
THEOREM HaltedBlocks == DegradationSpec => []HaltedIsBlocked
<1>1. HaltInv => HaltedIsBlocked
    BY DEF HaltInv, BlockInv
<1> QED
    BY <1>1, HaltInvCorrect, PTL

-----------------------------------------------------------------------------
(* The reasons the controller remembers and acts for are never manual.     *)

ReasonInv == autoHalt.by # "manual" /\ seen.reason.by # "manual"

\* A manual halt that record_sample has read is left alone.
THEOREM ManualIsKept == DegradationSpec => ManualHaltSurvives
<1>1. DegradationInit => ReasonInv
    BY DEF DegradationInit, ReasonInv, Idle, NoReason
<1>2. ReasonInv /\ [DegradationNext]_degradationVars => ReasonInv'
  <2> SUFFICES ASSUME ReasonInv, [DegradationNext]_degradationVars PROVE ReasonInv'
      OBVIOUS
  <2>1. ASSUME NEW sample \in Sample, RecordSample(sample) PROVE ReasonInv'
    <3>1. PICK critical, warn \in SUBSET Metrics : Evaluates(critical, warn)
        BY <2>1, RecordEvaluates
    <3> QED
        BY <3>1 DEF Evaluates, ReasonInv, AutoHalt
  <2>2. CASE ActHalt
      BY <2>2 DEF ActHalt, Adopted, ReasonInv, Idle, NoReason
  <2>3. CASE ActRecover
      BY <2>3 DEF ActRecover, ReasonInv, Idle, NoReason
  <2>4. CASE OperatorEngages \/ OperatorReleases
      BY <2>4 DEF OperatorEngages, OperatorReleases, controllerVars, ReasonInv
  <2>5. CASE UNCHANGED degradationVars
      BY <2>5 DEF degradationVars, controllerVars, ReasonInv
  <2> QED
      BY <2>1, <2>2, <2>3, <2>4, <2>5 DEF DegradationNext, Record, Act
<1>3. ReasonInv => (Act /\ seen.block = Manual /\ global = Manual => global' = Manual)
  <2> SUFFICES ASSUME ReasonInv, Act, seen.block = Manual, global = Manual
               PROVE  global' = Manual
      OBVIOUS
  <2>1. CASE ActHalt
      BY <2>1 DEF ActHalt, MayEngage, Manual, NoReason
  <2>2. CASE ActRecover
      BY <2>2 DEF ActRecover, MayRelease, ReasonInv, Manual
  <2> QED
      BY <2>1, <2>2 DEF Act
<1> QED
    BY <1>1, <1>2, <1>3, PTL DEF DegradationSpec, ManualHaltSurvives

=============================================================================
