-------------------------- MODULE Analytics_proofs --------------------------
(***************************************************************************)
(* Proofs about the computations beside live trading, for every value of   *)
(* the constants: a theorem for each computation, on inputs of any length, *)
(* and from it the invariant of the specification, whose only state is the *)
(* input that was picked.                                                  *)
(***************************************************************************)
EXTENDS Analytics, Folding_proofs, TLAPS

-----------------------------------------------------------------------------
(* Which instance is promoted, and which one a disaster is recovered from *)

\* What instances replicate; ids stand for their place in the order of names.
Snapshots == [id : Int, generation : Int, checkpoint : Int]

Health == [reachable : BOOLEAN, age : Int, lag : Int]

LEMMA LeastIsMember ==
  ASSUME NEW S, S \subseteq Nat, S # {}
  PROVE  Min(S) \in S /\ \A x \in S : Min(S) <= x
<1>1. \E x \in S : \A y \in S : x <= y
  BY LeastNumber
<1> QED BY <1>1 DEF Min

\* The position FirstBest takes is one no other position is better than.
LEMMA BestPosition ==
  ASSUME NEW I, I \subseteq Nat, IsFiniteSet(I), I # {}, NEW better,
         \A i \in I : <<i, i>> \notin better,
         \A i, j, k \in I : <<i, j>> \in better /\ <<j, k>> \in better => <<i, k>> \in better,
         NEW best, best \subseteq I,
         \A i \in I : i \in best <=> \A j \in I : <<j, i>> \notin better
  PROVE  Min(best) \in best
<1>1. \E i \in I : \A j \in I : <<j, i>> \notin better
  BY MinimalMember
<1>2. best \subseteq Nat /\ best # {}
  BY <1>1
<1> QED BY <1>2, LeastIsMember

LEMMA BeforeOrders ==
  /\ \A s \in Snapshots : ~Before(s, s)
  /\ \A s, t, u \in Snapshots : Before(s, t) /\ Before(t, u) => Before(s, u)
  /\ \A s, t \in Snapshots : ~Before(s, t) /\ ~Before(t, s) => s = t
BY DEF Before, NewerThan, Snapshots

\* FreshBefore leaves open only the choice between equal fit instances.
LEMMA FreshBeforeOrders ==
  /\ \A s \in Health : ~FreshBefore(s, s)
  /\ \A s, t, u \in Health : FreshBefore(s, t) /\ FreshBefore(t, u) => FreshBefore(s, u)
  /\ \A s, t \in Health : /\ ~FreshBefore(s, t) /\ ~FreshBefore(t, s) /\ Fit(s) /\ Fit(t)
                          => s = t
<1>1. \A s \in Health : s.age \in Int /\ s.lag \in Int /\ s.reachable \in BOOLEAN
  BY DEF Health
<1>2. /\ \A s \in Health : ~FreshBefore(s, s)
      /\ \A s, t, u \in Health : FreshBefore(s, t) /\ FreshBefore(t, u) => FreshBefore(s, u)
  BY <1>1 DEF FreshBefore
<1>3. ASSUME NEW s \in Health, NEW t \in Health, ~FreshBefore(s, t), ~FreshBefore(t, s),
             Fit(s), Fit(t)
      PROVE  s = t
  <2>1. s.age = t.age /\ s.lag = t.lag
    BY <1>1, <1>3 DEF FreshBefore
  <2>2. s.reachable = TRUE /\ t.reachable = TRUE
    BY <1>1, <1>3 DEF Fit, Unhealthy
  <2> QED BY <2>1, <2>2 DEF Health
<1> QED BY <1>2, <1>3

LEMMA SequenceFacts ==
  ASSUME NEW S, NEW seq \in Seq(S)
  PROVE  /\ DOMAIN seq \subseteq Nat /\ IsFiniteSet(DOMAIN seq)
         /\ DOMAIN seq = 1..Len(seq) /\ Len(seq) \in Nat
         /\ \A i \in DOMAIN seq : seq[i] \in S
<1>1. DOMAIN seq = 1..Len(seq) /\ Len(seq) \in Nat /\ 1 \in Int
  OBVIOUS
<1>2. IsFiniteSet(1..Len(seq))
  BY <1>1, FS_Interval
<1> QED BY <1>1, <1>2

LEMMA SourceIsBest ==
  ASSUME NEW seq \in Seq(Snapshots), seq # <<>>
  PROVE  \E i \in DOMAIN seq : /\ FirstBest(seq, DOMAIN seq, Before) = seq[i]
                               /\ \A j \in DOMAIN seq : ~Before(seq[j], seq[i])
<1> DEFINE I == DOMAIN seq
           better == {p \in I \X I : Before(seq[p[1]], seq[p[2]])}
           best == {i \in I : \A j \in I : ~Before(seq[j], seq[i])}
<1>1. I \subseteq Nat /\ IsFiniteSet(I) /\ I # {} /\ \A i \in I : seq[i] \in Snapshots
  BY SequenceFacts
<1>2. \A i, j \in I : <<i, j>> \in better <=> Before(seq[i], seq[j])
  OBVIOUS
<1>3. /\ \A i \in I : <<i, i>> \notin better
      /\ \A i, j, k \in I : <<i, j>> \in better /\ <<j, k>> \in better => <<i, k>> \in better
  <2> HIDE DEF better, I
  <2> QED BY <1>1, <1>2, BeforeOrders
<1>4. best \subseteq I /\ \A i \in I : i \in best <=> \A j \in I : <<j, i>> \notin better
  BY <1>2
<1> HIDE DEF better, best, I
<1>5. Min(best) \in best
  BY <1>1, <1>3, <1>4, BestPosition
<1> QED BY <1>5 DEF FirstBest, best, I

LEMMA PromotedIsBest ==
  ASSUME NEW seq \in Seq(Health), NEW I, I \subseteq DOMAIN seq, I # {}
  PROVE  \E i \in I : /\ FirstBest(seq, I, FreshBefore) = seq[i]
                      /\ \A j \in I : ~FreshBefore(seq[j], seq[i])
<1> DEFINE better == {p \in I \X I : FreshBefore(seq[p[1]], seq[p[2]])}
           best == {i \in I : \A j \in I : ~FreshBefore(seq[j], seq[i])}
<1>1. I \subseteq Nat /\ IsFiniteSet(I) /\ \A i \in I : seq[i] \in Health
  <2>1. DOMAIN seq \subseteq Nat /\ IsFiniteSet(DOMAIN seq) /\ \A i \in DOMAIN seq : seq[i] \in Health
    BY SequenceFacts
  <2> QED BY <2>1, FS_Subset
<1>2. \A i, j \in I : <<i, j>> \in better <=> FreshBefore(seq[i], seq[j])
  OBVIOUS
<1>3. /\ \A i \in I : <<i, i>> \notin better
      /\ \A i, j, k \in I : <<i, j>> \in better /\ <<j, k>> \in better => <<i, k>> \in better
  <2> HIDE DEF better
  <2> QED BY <1>1, <1>2, FreshBeforeOrders
<1>4. best \subseteq I /\ \A i \in I : i \in best <=> \A j \in I : <<j, i>> \notin better
  BY <1>2
<1> HIDE DEF better, best
<1>5. Min(best) \in best
  BY <1>1, <1>3, <1>4, BestPosition
<1> QED BY <1>5 DEF FirstBest, best

\* The same list in another order.
LEMMA PermutedIsSequence ==
  ASSUME NEW S, NEW seq \in Seq(S), NEW p \in [DOMAIN seq -> DOMAIN seq]
  PROVE  /\ [i \in DOMAIN seq |-> seq[p[i]]] \in Seq(S)
         /\ DOMAIN [i \in DOMAIN seq |-> seq[p[i]]] = DOMAIN seq
<1>1. DOMAIN seq = 1..Len(seq) /\ Len(seq) \in Nat /\ \A i \in 1..Len(seq) : seq[i] \in S
  OBVIOUS
<1>2. [i \in 1..Len(seq) |-> seq[p[i]]] \in [1..Len(seq) -> S]
  BY <1>1
<1> QED BY <1>1, <1>2

\* A recovery plan is what its docstring calls it, deterministic: whatever the
\* snapshots are and however many, in whichever order they are listed, the plan
\* is the same (high_availability.py:89-122).
THEOREM RecoveryIsDeterministic ==
  ASSUME NEW seq \in Seq(Snapshots), seq # <<>>, NEW target,
         NEW p \in [DOMAIN seq -> DOMAIN seq],
         \A i \in DOMAIN seq : \E k \in DOMAIN seq : p[k] = i
  PROVE  PlanDisasterRecovery([i \in DOMAIN seq |-> seq[p[i]]], target)
           = PlanDisasterRecovery(seq, target)
<1> DEFINE per == [i \in DOMAIN seq |-> seq[p[i]]]
<1>1. \A i \in DOMAIN seq : seq[i] \in Snapshots
  OBVIOUS
<1>2. per \in Seq(Snapshots) /\ per # <<>> /\ DOMAIN per = DOMAIN seq
  <2>1. per \in Seq(Snapshots) /\ DOMAIN per = DOMAIN seq
    BY PermutedIsSequence
  <2>2. DOMAIN seq # {} /\ DOMAIN <<>> = {}
    OBVIOUS
  <2> HIDE DEF per
  <2> QED BY <2>1, <2>2
<1>3. PICK i \in DOMAIN seq : /\ FirstBest(seq, DOMAIN seq, Before) = seq[i]
                              /\ \A j \in DOMAIN seq : ~Before(seq[j], seq[i])
  BY SourceIsBest
<1>4. PICK k \in DOMAIN per : /\ FirstBest(per, DOMAIN per, Before) = per[k]
                              /\ \A j \in DOMAIN per : ~Before(per[j], per[k])
  <2> HIDE DEF per
  <2> QED BY <1>2, SourceIsBest
<1>5. ~Before(per[k], seq[i]) /\ per[k] \in Snapshots
  BY <1>1, <1>2, <1>3, <1>4
<1>6. ~Before(seq[i], per[k])
  <2>1. PICK m \in DOMAIN seq : p[m] = i
    BY <1>3
  <2>2. per[m] = seq[i]
    BY <2>1
  <2> QED BY <1>2, <1>4, <2>1, <2>2
<1>7. FirstBest(per, DOMAIN per, Before) = FirstBest(seq, DOMAIN seq, Before)
  BY <1>1, <1>3, <1>4, <1>5, <1>6, BeforeOrders
<1> HIDE DEF per
<1> QED BY <1>7 DEF PlanDisasterRecovery, per

\* In whatever order the standbys are listed, one as fit is promoted, of the least
\* lag and heartbeat age; it is the same one unless two are equal in both
\* (high_availability.py:46-86).
THEOREM FailoverIsDeterministic ==
  ASSUME NEW seq \in Seq(Health), NEW primary,
         NEW p \in [DOMAIN seq -> DOMAIN seq],
         \A i \in DOMAIN seq : \E k \in DOMAIN seq : p[k] = i
  PROVE  EvaluateFailover(primary, [i \in DOMAIN seq |-> seq[p[i]]])
           = EvaluateFailover(primary, seq)
<1> DEFINE per == [i \in DOMAIN seq |-> seq[p[i]]]
           I == {i \in DOMAIN seq : Fit(seq[i])}
           J == {i \in DOMAIN per : Fit(per[i])}
<1>1. \A i \in DOMAIN seq : seq[i] \in Health
  OBVIOUS
<1>2. per \in Seq(Health) /\ DOMAIN per = DOMAIN seq /\ \A i \in DOMAIN seq : per[i] = seq[p[i]]
  BY PermutedIsSequence
<1> HIDE DEF per
<1>3. ASSUME NEW i \in I PROVE \E m \in J : per[m] = seq[i]
  <2>1. PICK m \in DOMAIN seq : p[m] = i
    OBVIOUS
  <2>2. per[m] = seq[i]
    BY <1>2, <2>1
  <2> QED BY <1>2, <2>2
<1>4. ASSUME NEW m \in J PROVE p[m] \in I /\ per[m] = seq[p[m]]
  BY <1>2
<1>5. CASE I = {}
  <2>1. J = {}
    BY <1>4, <1>5
  <2> QED BY <1>5, <2>1 DEF EvaluateFailover, per
<1>6. CASE I # {}
  <2>1. J # {}
    BY <1>3, <1>6
  <2>2. PICK i \in I : /\ FirstBest(seq, I, FreshBefore) = seq[i]
                       /\ \A j \in I : ~FreshBefore(seq[j], seq[i])
    <3>1. I \subseteq DOMAIN seq
      OBVIOUS
    <3> HIDE DEF I
    <3> QED BY <1>6, <3>1, PromotedIsBest
  <2>3. PICK k \in J : /\ FirstBest(per, J, FreshBefore) = per[k]
                       /\ \A j \in J : ~FreshBefore(per[j], per[k])
    <3>1. J \subseteq DOMAIN per
      OBVIOUS
    <3> HIDE DEF J
    <3> QED BY <1>2, <2>1, <3>1, PromotedIsBest
  <2>4. ~FreshBefore(per[k], seq[i]) /\ per[k] \in Health /\ seq[i] \in Health
        /\ Fit(per[k]) /\ Fit(seq[i])
    BY <1>1, <1>2, <1>4, <2>2, <2>3
  <2>5. ~FreshBefore(seq[i], per[k])
    BY <1>3, <2>3
  <2>6. FirstBest(per, J, FreshBefore) = FirstBest(seq, I, FreshBefore)
    BY <2>2, <2>3, <2>4, <2>5, FreshBeforeOrders
  <2> QED BY <1>6, <2>1, <2>6 DEF EvaluateFailover, per
<1> QED BY <1>5, <1>6

-----------------------------------------------------------------------------
(* The state after a restart *)

\* Positions and orders under some keys.
Accounts(Keys, Values) == [Kinds -> UNION {[D -> Values] : D \in SUBSET Keys}]

Applicable(events, n, Keys, Values) ==
  \A i \in 1..n : /\ events[i].kind \in Kinds
                  /\ events[i].key \in Keys /\ events[i].value \in Values

\* t is s with e applied.
Overlaid(s, e, t) ==
  \A kind \in Kinds :
    /\ DOMAIN t[kind] = IF kind = e.kind THEN DOMAIN s[kind] \cup {e.key} ELSE DOMAIN s[kind]
    /\ \A key \in DOMAIN t[kind] :
         t[kind][key] = IF kind = e.kind /\ key = e.key THEN e.value ELSE s[kind][key]

LEMMA OverlayParts ==
  ASSUME NEW Keys, NEW Values, NEW s \in Accounts(Keys, Values),
         NEW e, e.kind \in Kinds, e.key \in Keys, e.value \in Values
  PROVE  Overlay(s, e) \in Accounts(Keys, Values) /\ Overlaid(s, e, Overlay(s, e))
<1> DEFINE Maps == UNION {[D -> Values] : D \in SUBSET Keys}
           old == s[e.kind]
           new == [key \in DOMAIN old \cup {e.key} |->
                     IF key = e.key THEN e.value ELSE old[key]]
<1>1. s \in [Kinds -> Maps]
  BY DEF Accounts
<1>2. PICK D \in SUBSET Keys : old \in [D -> Values]
  <2>1. old \in Maps
    <3> HIDE DEF Maps
    <3> QED BY <1>1
  <2> QED BY <2>1
<1>3. new \in [D \cup {e.key} -> Values]
  BY <1>2
<1>4. new \in Maps
  BY <1>3
<1>5. Overlay(s, e) = [s EXCEPT ![e.kind] = new]
  BY DEF Overlay
<1>6. /\ DOMAIN new = DOMAIN old \cup {e.key}
      /\ \A key \in DOMAIN new : new[key] = IF key = e.key THEN e.value ELSE old[key]
  OBVIOUS
<1> HIDE DEF new, Maps
<1>7. Overlay(s, e) \in [Kinds -> Maps]
  BY <1>1, <1>4, <1>5
<1>8. \A kind \in Kinds : Overlay(s, e)[kind] = IF kind = e.kind THEN new ELSE s[kind]
  BY <1>1, <1>5
<1> QED BY <1>6, <1>7, <1>8 DEF Accounts, Maps, Overlaid

\* The equation of the fold that applies events one after the other.
IsOverlayFold(h, base, events) ==
  h = [s \in SUBSET (DOMAIN events) |->
         IF s = {} THEN base ELSE Overlay(h[s \ {Max(s)}], events[Max(s)])]

\* X is the states that applying n events to base goes through.
Overlays(X, base, events, n) ==
  X[0] = base /\ \A i \in 1..n : X[i] = Overlay(X[i - 1], events[i])

LEMMA OverlaidStates ==
  ASSUME NEW Keys, NEW Values, NEW base \in Accounts(Keys, Values),
         NEW T, NEW events \in Seq(T), NEW n, n = Len(events),
         Applicable(events, n, Keys, Values)
  PROVE  \E X \in [0..n -> Accounts(Keys, Values)] :
            Overlays(X, base, events, n) /\ X[n] = RecoverState(base, events)
<1> DEFINE States == Accounts(Keys, Values)
           H == [i \in 1..n |-> [s \in States |-> Overlay(s, events[i])]]
<1>1. n \in Nat /\ DOMAIN events = 1..n
  OBVIOUS
<1>2. \A i \in 1..n : /\ events[i].kind \in Kinds /\ events[i].key \in Keys
                      /\ events[i].value \in Values
  BY DEF Applicable
<1>3. \A i \in 1..n, s \in States : Overlay(s, events[i]) \in States
  BY <1>2, OverlayParts
<1>4. H \in [1..n -> [States -> States]]
  <2> HIDE DEF States
  <2> QED BY <1>3
<1>5. \A i \in 1..n, s \in States : H[i][s] = Overlay(s, events[i])
  OBVIOUS
<1> HIDE DEF H
<1>6. PICK g \in [SUBSET (1..n) -> States] : IsLeftFold(g, n, base, H)
  <2>1. base \in States
    OBVIOUS
  <2> HIDE DEF States
  <2> QED BY <1>1, <1>4, <2>1, LeftFoldExists
<1>7. \A s \in SUBSET (1..n) : s # {} => Max(s) \in s
  BY <1>1, GreatestIsMember
<1>8. \A s \in SUBSET (1..n) : s # {} =>
         H[Max(s)][g[s \ {Max(s)}]] = Overlay(g[s \ {Max(s)}], events[Max(s)])
  <2> HIDE DEF States
  <2> QED BY <1>5, <1>6, <1>7
<1>9. IsOverlayFold(g, base, events)
  <2> HIDE DEF States
  <2>1. g = [s \in SUBSET (1..n) |->
               IF s = {} THEN base ELSE Overlay(g[s \ {Max(s)}], events[Max(s)])]
    BY <1>6, <1>8 DEF IsLeftFold
  <2> QED BY <1>1, <2>1 DEF IsOverlayFold
<1> DEFINE h == CHOOSE k : IsOverlayFold(k, base, events)
<1>10. IsOverlayFold(h, base, events)
  BY <1>9, Zenon
<1>11. RecoverState(base, events) = h[DOMAIN events]
  BY Zenon DEF RecoverState, FoldLeft, MapThenFoldSet, IsOverlayFold
<1> HIDE DEF h
<1> DEFINE X == [i \in 0..n |-> h[1..i]]
<1>12. h[1..0] = base
  BY <1>1, <1>10 DEF IsOverlayFold
<1>13. ASSUME NEW i \in 1..n PROVE h[1..i] = Overlay(h[1..(i - 1)], events[i])
  <2>1. /\ Max(1..i) = i /\ (1..i) \ {i} = 1..(i - 1)
        /\ 1..i \in SUBSET (1..n) /\ 1..i # {}
    BY <1>1, PrefixMax
  <2>2. h[1..i] = Overlay(h[(1..i) \ {Max(1..i)}], events[Max(1..i)])
    BY <1>1, <1>10, <2>1, Zenon DEF IsOverlayFold
  <2> QED BY <2>1, <2>2
<1> DEFINE Good == {i \in 0..n : h[1..i] \in States}
<1>14. 0..n \subseteq Good
  <2>1. 0 \in Good
    BY <1>1, <1>12
  <2>2. ASSUME NEW i \in 0..(n - 1), i \in Good PROVE i + 1 \in Good
    <3>1. i + 1 \in 1..n /\ (i + 1) - 1 = i
      BY <1>1
    <3>2. h[1..(i + 1)] = Overlay(h[1..i], events[i + 1])
      BY <1>13, <3>1
    <3>3. h[1..i] \in States
      BY <2>2
    <3> HIDE DEF States
    <3> QED BY <1>1, <1>3, <3>1, <3>2, <3>3
  <2> HIDE DEF Good
  <2> QED BY <1>1, <2>1, <2>2, UpwardInduction
<1>15. X \in [0..n -> States]
  <2> HIDE DEF States
  <2> QED BY <1>14
<1>16. X[0] = base /\ X[n] = h[DOMAIN events]
  BY <1>1, <1>12
<1>17. \A i \in 1..n : X[i] = Overlay(X[i - 1], events[i])
  BY <1>1, <1>13
<1> HIDE DEF X
<1> QED BY <1>11, <1>15, <1>16, <1>17 DEF Overlays

\* r has what the exchange has in state x or had in state s.
Between(r, x, s) ==
  \A kind \in Kinds :
    /\ DOMAIN r[kind] \subseteq DOMAIN x[kind] \cup DOMAIN s[kind]
    /\ DOMAIN s[kind] \subseteq DOMAIN r[kind]
    /\ \A key \in DOMAIN r[kind] :
         \/ key \in DOMAIN x[kind] /\ r[kind][key] = x[kind][key]
         \/ key \in DOMAIN s[kind] /\ r[kind][key] = s[kind][key]

\* An event applied to both keeps that.
LEMMA OverlayBetween ==
  ASSUME NEW Keys, NEW Values, NEW r \in Accounts(Keys, Values),
         NEW x \in Accounts(Keys, Values), NEW s, Between(r, x, s),
         NEW e, e.kind \in Kinds, e.key \in Keys, e.value \in Values
  PROVE  Between(Overlay(r, e), Overlay(x, e), s)
<1> DEFINE p == Overlay(r, e)
           y == Overlay(x, e)
<1>1. Overlaid(x, e, y) /\ Overlaid(r, e, p)
  BY OverlayParts
<1> HIDE DEF p, y
<1>3. ASSUME NEW kind \in Kinds
      PROVE  /\ DOMAIN p[kind] \subseteq DOMAIN y[kind] \cup DOMAIN s[kind]
             /\ DOMAIN s[kind] \subseteq DOMAIN p[kind]
  <2>1. /\ DOMAIN r[kind] \subseteq DOMAIN x[kind] \cup DOMAIN s[kind]
        /\ DOMAIN s[kind] \subseteq DOMAIN r[kind]
    BY DEF Between
  <2>2. CASE kind = e.kind
    <3>1. DOMAIN y[kind] = DOMAIN x[kind] \cup {e.key} /\ DOMAIN p[kind] = DOMAIN r[kind] \cup {e.key}
      BY <1>1, <2>2 DEF Overlaid
    <3> QED BY <2>1, <3>1
  <2>3. CASE kind # e.kind
    <3>1. DOMAIN y[kind] = DOMAIN x[kind] /\ DOMAIN p[kind] = DOMAIN r[kind]
      BY <1>1, <2>3 DEF Overlaid
    <3> QED BY <2>1, <3>1
  <2> QED BY <2>2, <2>3
<1>4. ASSUME NEW kind \in Kinds, NEW key \in DOMAIN p[kind]
      PROVE  \/ key \in DOMAIN y[kind] /\ p[kind][key] = y[kind][key]
             \/ key \in DOMAIN s[kind] /\ p[kind][key] = s[kind][key]
  <2>1. CASE kind = e.kind /\ key = e.key
    BY <1>1, <1>4, <2>1 DEF Overlaid
  <2>2. CASE ~(kind = e.kind /\ key = e.key)
    <3>1. DOMAIN p[kind] = IF kind = e.kind THEN DOMAIN r[kind] \cup {e.key} ELSE DOMAIN r[kind]
      BY <1>1 DEF Overlaid
    <3>2. key \in DOMAIN r[kind]
      BY <1>4, <2>2, <3>1
    <3>3. p[kind][key] = r[kind][key]
      BY <1>1, <1>4, <2>2 DEF Overlaid
    <3>4. DOMAIN y[kind] = IF kind = e.kind THEN DOMAIN x[kind] \cup {e.key} ELSE DOMAIN x[kind]
      BY <1>1 DEF Overlaid
    <3>5. key \in DOMAIN x[kind] => key \in DOMAIN y[kind]
      BY <3>4
    <3>6. key \in DOMAIN x[kind] => y[kind][key] = x[kind][key]
      BY <1>1, <2>2, <3>5 DEF Overlaid
    <3> QED BY <3>2, <3>3, <3>5, <3>6 DEF Between
  <2> QED BY <2>1, <2>2
<1> QED BY <1>3, <1>4 DEF Between, p, y

\* Maps with the same keys and values are one map.
LEMMA SameAccounts ==
  ASSUME NEW Keys, NEW Values, NEW s \in Accounts(Keys, Values),
         NEW t \in Accounts(Keys, Values),
         \A kind \in Kinds : DOMAIN s[kind] = DOMAIN t[kind],
         \A kind \in Kinds : \A key \in DOMAIN s[kind] : s[kind][key] = t[kind][key]
  PROVE  s = t
<1> DEFINE Maps == UNION {[D -> Values] : D \in SUBSET Keys}
<1>1. s \in [Kinds -> Maps] /\ t \in [Kinds -> Maps]
  BY DEF Accounts
<1>2. ASSUME NEW kind \in Kinds PROVE s[kind] = t[kind]
  <2>1. s[kind] \in Maps /\ t[kind] \in Maps
    <3> HIDE DEF Maps
    <3> QED BY <1>1
  <2>2. PICK D \in SUBSET Keys, E \in SUBSET Keys :
          s[kind] \in [D -> Values] /\ t[kind] \in [E -> Values]
    BY <2>1
  <2>3. D = E /\ \A key \in D : s[kind][key] = t[kind][key]
    BY <2>2
  <2> QED BY <2>2, <2>3
<1> HIDE DEF Maps
<1> QED BY <1>1, <1>2

\* late is events without the first l of the n.
Continues(late, events, l, n) == \A i \in 1..(n - l) : late[i] = events[i + l]

\* Applying events from before the snapshot on ends where the exchange is.
LEMMA SnapshotIsOvertaken ==
  ASSUME NEW Keys, NEW Values, NEW n \in Nat, NEW events,
         Applicable(events, n, Keys, Values),
         NEW a \in 0..n, NEW l \in 0..a,
         NEW late, Continues(late, events, l, n),
         NEW X \in [0..n -> Accounts(Keys, Values)], NEW base, Overlays(X, base, events, n),
         NEW R \in [0..(n - l) -> Accounts(Keys, Values)], Overlays(R, X[a], late, n - l)
  PROVE  R[n - l] = X[n]
<1> DEFINE States == Accounts(Keys, Values)
<1>1. a \in Int /\ l \in Int /\ 0 <= l /\ l <= a /\ a <= n /\ a - l \in Nat /\ n - a \in Nat
      /\ a \in 0..n
  OBVIOUS
<1>2. X \in [0..n -> States] /\ R \in [0..(n - l) -> States]
  OBVIOUS
<1> HIDE DEF States
<1>3. ASSUME NEW k \in 0..(n - l - 1)
      PROVE  LET e == events[k + l + 1]
             IN  /\ X[k + l + 1] = Overlay(X[k + l], e) /\ R[k + 1] = Overlay(R[k], e)
                 /\ e.kind \in Kinds /\ e.key \in Keys /\ e.value \in Values
                 /\ X[k + l] \in States /\ R[k] \in States
  <2>1. /\ k + l \in 0..n /\ k + l + 1 \in 1..n /\ k + 1 \in 1..(n - l) /\ k \in 0..(n - l)
        /\ (k + l + 1) - 1 = k + l /\ (k + 1) - 1 = k /\ (k + 1) + l = k + l + 1
    BY <1>1
  <2>2. X[k + l + 1] = Overlay(X[k + l], events[k + l + 1])
    BY <2>1 DEF Overlays
  <2>3. R[k + 1] = Overlay(R[k], events[k + l + 1])
    BY <2>1 DEF Overlays, Continues
  <2> QED BY <1>2, <2>1, <2>2, <2>3 DEF Applicable
<1> DEFINE Early == {k \in 0..(a - l) : Between(R[k], X[k + l], X[a])}
<1>4. 0..(a - l) \subseteq Early
  <2>1. 0 \in Early
    BY <1>1 DEF Between, Overlays
  <2>2. ASSUME NEW k \in 0..(a - l - 1), k \in Early PROVE k + 1 \in Early
    <3>1. /\ k \in 0..(n - l - 1) /\ k + 1 \in 0..(a - l) /\ (k + 1) + l = k + l + 1
      BY <1>1
    <3>2. Between(R[k], X[k + l], X[a])
      BY <2>2
    <3>3. Between(R[k + 1], X[k + l + 1], X[a])
      <4> DEFINE e == events[k + l + 1]
      <4>1. /\ X[k + l + 1] = Overlay(X[k + l], e) /\ R[k + 1] = Overlay(R[k], e)
            /\ e.kind \in Kinds /\ e.key \in Keys /\ e.value \in Values
            /\ X[k + l] \in States /\ R[k] \in States
        BY <1>3, <3>1
      <4> HIDE DEF e
      <4>2. Between(Overlay(R[k], e), Overlay(X[k + l], e), X[a])
        BY <3>2, <4>1, OverlayBetween DEF States
      <4> QED BY <4>1, <4>2
    <3> QED BY <3>1, <3>3
  <2> HIDE DEF Early
  <2> QED BY <1>1, <2>1, <2>2, UpwardInduction
<1>5. R[a - l] = X[a]
  <2>1. a - l \in 0..(a - l) /\ (a - l) + l = a /\ a - l \in 0..(n - l)
    BY <1>1
  <2>2. Between(R[a - l], X[a], X[a])
    BY <1>4, <2>1
  <2>3. R[a - l] \in States /\ X[a] \in States
    BY <1>1, <1>2, <2>1
  <2>4. /\ \A kind \in Kinds : DOMAIN R[a - l][kind] = DOMAIN X[a][kind]
        /\ \A kind \in Kinds : \A key \in DOMAIN R[a - l][kind] :
              R[a - l][kind][key] = X[a][kind][key]
    BY <2>2 DEF Between
  <2> QED BY <2>3, <2>4, SameAccounts DEF States
<1> DEFINE After == {k \in 0..(n - a) : R[k + a - l] = X[k + a]}
<1>6. 0..(n - a) \subseteq After
  <2>1. 0 \in After
    <3>1. 0 + a = a /\ 0 + a - l = a - l /\ 0 \in 0..(n - a)
      BY <1>1
    <3> QED BY <1>5, <3>1
  <2>2. ASSUME NEW k \in 0..(n - a - 1), k \in After PROVE k + 1 \in After
    <3>1. /\ k + a - l \in 0..(n - l - 1) /\ k + 1 \in 0..(n - a)
          /\ (k + a - l) + l = k + a /\ (k + a) + 1 = (k + 1) + a
          /\ (k + a - l) + 1 = (k + 1) + a - l
      BY <1>1
    <3>2. R[k + a - l] = X[k + a]
      BY <2>2
    <3>3. /\ X[(k + a) + 1] = Overlay(X[k + a], events[(k + a) + 1])
          /\ R[(k + a - l) + 1] = Overlay(R[k + a - l], events[(k + a) + 1])
      BY <1>3, <3>1
    <3> QED BY <3>1, <3>2, <3>3
  <2> HIDE DEF After
  <2> QED BY <1>1, <2>1, <2>2, UpwardInduction
<1> QED
  <2>1. n - a \in 0..(n - a) /\ (n - a) + a = n /\ (n - a) + a - l = n - l
    BY <1>1
  <2> QED BY <1>6, <2>1

\* What a part of a sequence consists of.
LEMMA PartOfSequence ==
  ASSUME NEW T, NEW s \in Seq(T), NEW a \in 1..(Len(s) + 1), NEW b \in (a - 1)..Len(s)
  PROVE  /\ SubSeq(s, a, b) \in Seq(T) /\ Len(SubSeq(s, a, b)) = b - a + 1
         /\ \A i \in 1..(b - a + 1) : SubSeq(s, a, b)[i] = s[i + a - 1]
OBVIOUS

\* After a restart positions and orders are the exchange's, whatever the events
\* and however long before the snapshot the stream was opened
\* (recovery.py:31-53).
THEOREM RecoveryCatchesUp ==
  ASSUME NEW T, NEW events \in Seq(T), \A i \in DOMAIN events : Supported(events[i]),
         NEW taken \in 0..Len(events), NEW listened \in 0..taken
  PROVE  RecoverState(ExchangeAfter(events, taken),
                      SubSeq(events, listened + 1, Len(events)))
           = ExchangeAfter(events, Len(events))
<1> DEFINE n == Len(events)
           Keys == {events[i].key : i \in 1..n}
           Values == {events[i].value : i \in 1..n}
           base == [kind \in Kinds |-> <<>>]
           late == SubSeq(events, listened + 1, n)
<1>1. /\ n \in Nat /\ DOMAIN events = 1..n /\ taken \in Nat /\ listened \in Int
      /\ 0 <= listened /\ listened <= taken /\ taken <= n
  OBVIOUS
<1>2. Applicable(events, n, Keys, Values)
  BY <1>1 DEF Applicable, Supported
<1>3. base \in Accounts(Keys, Values)
  <2>1. <<>> \in [{} -> Values]
    OBVIOUS
  <2>2. <<>> \in UNION {[D -> Values] : D \in SUBSET Keys}
    BY <2>1
  <2> QED BY <2>2 DEF Accounts
<1> HIDE DEF Keys, Values, base, n
<1>4. ASSUME NEW m \in 0..n
      PROVE  \E X \in [0..m -> Accounts(Keys, Values)] :
                Overlays(X, base, events, m) /\ X[m] = ExchangeAfter(events, m)
  <2> DEFINE part == SubSeq(events, 1, m)
  <2>1. /\ m \in Nat /\ part \in Seq(T) /\ Len(part) = m
        /\ \A i \in 1..m : part[i] = events[i]
    <3>1. 1 \in 1..(Len(events) + 1) /\ m \in (1 - 1)..Len(events)
          /\ m - 1 + 1 = m /\ \A i \in 1..m : i + 1 - 1 = i
      BY <1>1 DEF n
    <3> QED BY <3>1, PartOfSequence
  <2>2. Applicable(part, m, Keys, Values)
    BY <1>1, <1>2, <2>1 DEF Applicable
  <2> HIDE DEF part
  <2>3. PICK X \in [0..m -> Accounts(Keys, Values)] :
          Overlays(X, base, part, m) /\ X[m] = RecoverState(base, part)
    BY <1>3, <2>1, <2>2, OverlaidStates
  <2>4. ExchangeAfter(events, m) = RecoverState(base, part)
    BY Zenon DEF ExchangeAfter, RecoverState, base, part
  <2>5. Overlays(X, base, events, m)
    BY <2>1, <2>3 DEF Overlays
  <2> QED BY <2>3, <2>4, <2>5
<1>5. PICK X \in [0..n -> Accounts(Keys, Values)] :
         Overlays(X, base, events, n) /\ X[n] = ExchangeAfter(events, n)
  BY <1>1, <1>4
<1>6. PICK Y \in [0..taken -> Accounts(Keys, Values)] :
         Overlays(Y, base, events, taken) /\ Y[taken] = ExchangeAfter(events, taken)
  BY <1>1, <1>4
<1>7. Y[taken] = X[taken]
  <2> DEFINE Good == {i \in 0..taken : Y[i] = X[i]}
  <2>1. 0 \in Good
    BY <1>1, <1>5, <1>6 DEF Overlays
  <2>2. ASSUME NEW i \in 0..(taken - 1), i \in Good PROVE i + 1 \in Good
    <3>1. i + 1 \in 1..taken /\ i + 1 \in 1..n /\ (i + 1) - 1 = i /\ i + 1 \in 0..taken
      BY <1>1
    <3>2. Y[i + 1] = Overlay(Y[i], events[i + 1]) /\ X[i + 1] = Overlay(X[i], events[i + 1])
      BY <1>5, <1>6, <3>1 DEF Overlays
    <3> QED BY <2>2, <3>1, <3>2
  <2>3. 0..taken \subseteq Good
    <3> HIDE DEF Good
    <3> QED BY <1>1, <2>1, <2>2, UpwardInduction
  <2> QED BY <1>1, <2>3
<1>8. /\ late \in Seq(T) /\ Len(late) = n - listened
      /\ \A i \in 1..(n - listened) : late[i] = events[i + listened]
  <2>1. listened + 1 \in 1..(Len(events) + 1) /\ n \in ((listened + 1) - 1)..Len(events)
        /\ n - (listened + 1) + 1 = n - listened
        /\ \A i \in 1..(n - listened) : i + (listened + 1) - 1 = i + listened
    BY <1>1 DEF n
  <2> QED BY <2>1, PartOfSequence
<1>9. Applicable(late, n - listened, Keys, Values)
  <2>1. \A i \in 1..(n - listened) : i + listened \in 1..n
    BY <1>1
  <2> QED BY <1>2, <1>8, <2>1 DEF Applicable
<1>10. X[taken] \in Accounts(Keys, Values) /\ taken \in 0..n /\ listened \in 0..taken
  BY <1>1
<1> HIDE DEF late
<1>11. PICK R \in [0..(n - listened) -> Accounts(Keys, Values)] :
          /\ Overlays(R, X[taken], late, n - listened)
          /\ R[n - listened] = RecoverState(X[taken], late)
  BY <1>8, <1>9, <1>10, OverlaidStates
<1>12. Continues(late, events, listened, n)
  BY <1>8 DEF Continues
<1>13. R[n - listened] = X[n]
  BY <1>1, <1>2, <1>5, <1>10, <1>11, <1>12, SnapshotIsOvertaken, SMTT(30)
<1> QED BY <1>5, <1>6, <1>7, <1>11, <1>13 DEF late, n

-----------------------------------------------------------------------------
(* The ledger's hash chain *)

\* Logs of any length whose events have the fields append_event writes, edited in
\* whatever way.
Logs(Texts, Hashes) ==
  Seq([seq : Int, content : Texts, prev : Hashes, hash : Hashes])

\* Equal hashes at one position of two verified logs: equal events, and equal
\* hashes before them.
LEMMA EqualHashes ==
  ASSUME NEW Texts, NEW Hashes, NEW a \in Logs(Texts, Hashes),
         NEW b \in Logs(Texts, Hashes), NEW i \in DOMAIN a, NEW j \in DOMAIN b,
         Intact(a, i), Intact(b, j), a[i].hash = b[j].hash
  PROVE  i = j /\ a[i] = b[j] /\ (i # 1 => a[i - 1].hash = b[i - 1].hash)
<1>1. <<a[i].seq, a[i].content, a[i].prev>> = <<b[j].seq, b[j].content, b[j].prev>>
  BY DEF Intact, ComputeHash
<1>2. a[i].seq = b[j].seq /\ a[i].content = b[j].content /\ a[i].prev = b[j].prev
  BY <1>1
<1>3. i = j
  BY <1>2 DEF Intact
<1>4. a[i] = b[j]
  <2> DEFINE Events == [seq : Int, content : Texts, prev : Hashes, hash : Hashes]
  <2>1. a \in Seq(Events) /\ b \in Seq(Events)
    BY DEF Logs
  <2>2. a[i] \in Events /\ b[j] \in Events
    <3> HIDE DEF Events
    <3> QED BY <2>1
  <2>3. a[i].hash = b[j].hash
    OBVIOUS
  <2> QED BY <1>2, <2>2, <2>3
<1>5. i # 1 => a[i - 1].hash = b[i - 1].hash
  BY <1>2, <1>3 DEF Intact
<1> QED BY <1>3, <1>4, <1>5

\* Two ledgers that verify and end in the same hash are the same ledger, whatever
\* was removed, replaced, swapped or written anew and however long they are: the
\* last hash, kept elsewhere, is all that has to be trusted (audit.py:65-83).
THEOREM VerifiedLogIsOriginal ==
  ASSUME NEW Texts, NEW Hashes, NEW a \in Logs(Texts, Hashes),
         NEW b \in Logs(Texts, Hashes),
         VerifyChain(a), VerifyChain(b), HeadHash(a) = HeadHash(b)
  PROVE  a = b
<1>1. Len(a) \in Nat /\ DOMAIN a = 1..Len(a) /\ Len(b) \in Nat /\ DOMAIN b = 1..Len(b)
  BY DEF Logs
<1>2. CASE a = <<>> \/ b = <<>>
  <2>1. \A log \in Logs(Texts, Hashes) :
          log # <<>> /\ VerifyChain(log) => HeadHash(log) # Genesis
    <3> SUFFICES ASSUME NEW log \in Logs(Texts, Hashes), log # <<>>, VerifyChain(log)
                 PROVE  HeadHash(log) # Genesis
      OBVIOUS
    <3>1. Len(log) \in DOMAIN log BY DEF Logs
    <3>2. HeadHash(log) = <<log[Len(log)].seq, log[Len(log)].content, log[Len(log)].prev>>
      BY <3>1 DEF HeadHash, Last, VerifyChain, Intact, ComputeHash
    <3> QED BY <3>2 DEF Genesis
  <2> QED BY <1>2, <2>1 DEF HeadHash
<1>3. CASE a # <<>> /\ b # <<>>
  <2>1. Len(a) \in DOMAIN a /\ Len(b) \in DOMAIN b
    BY <1>1, <1>3 DEF Logs
  <2>2. a[Len(a)].hash = b[Len(b)].hash
    BY <1>3 DEF HeadHash, Last
  <2>3. Len(a) = Len(b)
    BY <2>1, <2>2, EqualHashes DEF VerifyChain
  <2> DEFINE n == Len(a)
             Differ == {k \in 0..(n - 1) : a[n - k].hash # b[n - k].hash}
  <2>4. Differ = {}
    <3> SUFFICES ASSUME Differ # {} PROVE FALSE
      OBVIOUS
    <3>1. PICK m \in Differ : \A k \in Differ : m <= k
      <4>1. Differ \subseteq Nat BY <1>1
      <4> HIDE DEF Differ
      <4> QED BY <4>1, LeastNumber
    <3>2. m \in Nat /\ m # 0
      BY <1>1, <2>2, <2>3
    <3>3. a[n - (m - 1)].hash = b[n - (m - 1)].hash
      <4>1. m - 1 \in 0..(n - 1) BY <1>1, <3>2
      <4>2. m - 1 \notin Differ
        <5> HIDE DEF Differ
        <5>1. ~(m <= m - 1) BY <3>2
        <5> QED BY <3>1, <5>1
      <4> QED BY <4>1, <4>2
    <3>4. n - (m - 1) \in DOMAIN a /\ n - (m - 1) \in DOMAIN b /\ n - (m - 1) # 1
      BY <1>1, <2>3, <3>2
    <3>5. a[n - (m - 1) - 1].hash = b[n - (m - 1) - 1].hash
      BY <3>3, <3>4, EqualHashes DEF VerifyChain
    <3>6. n - (m - 1) - 1 = n - m
      BY <1>1, <3>2
    <3> QED BY <3>5, <3>6
  <2>5. \A i \in DOMAIN a : a[i] = b[i]
    <3> SUFFICES ASSUME NEW i \in DOMAIN a PROVE a[i] = b[i]
      OBVIOUS
    <3>1. n - i \in 0..(n - 1) /\ n - (n - i) = i
      BY <1>1
    <3>2. a[i].hash = b[i].hash
      BY <2>4, <3>1
    <3>3. i \in DOMAIN b
      BY <1>1, <2>3
    <3> QED BY <3>2, <3>3, EqualHashes DEF VerifyChain
  <2> QED BY <1>1, <2>3, <2>5 DEF Logs
<1> QED BY <1>2, <1>3

\* An append to a ledger that verifies yields one that does, so that every ledger
\* made by append alone verifies (audit.py:40-63).
THEOREM AppendVerifies ==
  ASSUME NEW Texts, NEW Hashes, NEW log \in Logs(Texts, Hashes), NEW content,
         VerifyChain(log)
  PROVE  VerifyChain(AppendEvent(log, content))
<1> DEFINE n == Len(log) + 1
           e == Event(n, content, HeadHash(log))
           new == Append(log, e)
<1>1. n \in Nat \ {0} /\ DOMAIN log = 1..(n - 1)
  BY DEF Logs
<1>2. /\ DOMAIN new = 1..n /\ new[n] = e
      /\ \A i \in 1..(n - 1) : new[i] = log[i]
  <2> HIDE DEF e
  <2> QED BY DEF Logs
<1>3. HeadHash(log) = IF n = 1 THEN Genesis ELSE log[n - 1].hash
  <2>1. log = <<>> <=> n = 1 BY DEF Logs
  <2>2. n - 1 = Len(log) BY DEF Logs
  <2> QED BY <2>1, <2>2 DEF HeadHash, Last
<1>4. e.seq = n /\ e.prev = HeadHash(log) /\ e.hash = ComputeHash(e.seq, e.content, e.prev)
  BY DEF Event
<1> HIDE DEF n, e, new
<1>5. ASSUME NEW i \in 1..(n - 1) PROVE Intact(new, i)
  <2>1. Intact(log, i) BY <1>1, <1>5 DEF VerifyChain
  <2>2. new[i] = log[i] /\ (i # 1 => new[i - 1] = log[i - 1])
    BY <1>1, <1>2, <1>5
  <2> QED BY <2>1, <2>2 DEF Intact
<1>6. Intact(new, n)
  <2>1. n # 1 => new[n - 1] = log[n - 1] BY <1>1, <1>2
  <2> QED BY <1>2, <1>3, <1>4, <2>1 DEF Intact
<1>7. VerifyChain(new)
  <2> SUFFICES ASSUME NEW i \in 1..n PROVE Intact(new, i)
    BY <1>2 DEF VerifyChain
  <2>1. i = n \/ i \in 1..(n - 1) BY <1>1
  <2> QED BY <1>5, <1>6, <2>1
<1> QED BY <1>7 DEF AppendEvent, new, e, n

\* A ledger as the code writes it, or edited.
Ledger(log) == \E Hashes : log \in Logs(Contents, Hashes)

LEMMA LedgerParts ==
  ASSUME NEW Hashes, NEW log \in Logs(Contents, Hashes)
  PROVE  /\ Len(log) \in Nat /\ DOMAIN log = 1..Len(log)
         /\ \A i \in DOMAIN log : /\ log[i].seq \in Int /\ log[i].content \in Contents
                                  /\ log[i].prev \in Hashes /\ log[i].hash \in Hashes
                                  /\ log[i] = [seq |-> log[i].seq, content |-> log[i].content,
                                               prev |-> log[i].prev, hash |-> log[i].hash]
<1> DEFINE Events == [seq : Int, content : Contents, prev : Hashes, hash : Hashes]
<1>1. log \in Seq(Events)
  BY DEF Logs
<1>2. \A e \in Events : /\ e.seq \in Int /\ e.content \in Contents
                        /\ e.prev \in Hashes /\ e.hash \in Hashes
                        /\ e = [seq |-> e.seq, content |-> e.content,
                                prev |-> e.prev, hash |-> e.hash]
  OBVIOUS
<1>3. Len(log) \in Nat /\ DOMAIN log = 1..Len(log) /\ \A i \in DOMAIN log : log[i] \in Events
  <2> HIDE DEF Events
  <2> QED BY <1>1
<1> HIDE DEF Events
<1> QED BY <1>2, <1>3

LEMMA MoreHashes ==
  ASSUME NEW Hashes, NEW More, Hashes \subseteq More, NEW log \in Logs(Contents, Hashes)
  PROVE  log \in Logs(Contents, More)
<1> DEFINE Events == [seq : Int, content : Contents, prev : More, hash : More]
<1>1. \A i \in DOMAIN log : log[i] \in Events
  BY LedgerParts
<1>2. log \in Seq([seq : Int, content : Contents, prev : Hashes, hash : Hashes])
  BY DEF Logs
<1>3. log \in Seq(Events)
  <2> DEFINE Old == [seq : Int, content : Contents, prev : Hashes, hash : Hashes]
  <2>1. log \in Seq(Old)
    BY <1>2
  <2> HIDE DEF Old, Events
  <2> QED BY <1>1, <2>1, SequenceOf
<1> QED BY <1>3 DEF Logs

\* Two ledgers, whatever their hashes: the same if they verify and end alike.
LEMMA VerifiedLedgers ==
  ASSUME NEW a, NEW b, Ledger(a), Ledger(b),
         VerifyChain(a), VerifyChain(b), HeadHash(a) = HeadHash(b)
  PROVE  a = b
<1>1. PICK H : a \in Logs(Contents, H)
  BY DEF Ledger
<1>2. PICK K : b \in Logs(Contents, K)
  BY DEF Ledger
<1>3. a \in Logs(Contents, H \cup K) /\ b \in Logs(Contents, H \cup K)
  BY <1>1, <1>2, MoreHashes
<1> QED BY <1>3, VerifiedLogIsOriginal

\* An event of the ledger's form, appended, put in or taken over.
LEMMA ReplacedIsLedger ==
  ASSUME NEW log, Ledger(log), NEW i \in DOMAIN log, NEW e,
         NEW H, e \in [seq : Int, content : Contents, prev : H, hash : H]
  PROVE  Ledger([log EXCEPT ![i] = e])
<1>1. PICK K : log \in Logs(Contents, K)
  BY DEF Ledger
<1> DEFINE Events == [seq : Int, content : Contents, prev : H \cup K, hash : H \cup K]
<1>2. log \in Seq(Events)
  BY <1>1, MoreHashes DEF Logs
<1>3. e \in Events
  OBVIOUS
<1>4. [log EXCEPT ![i] = e] \in Seq(Events)
  <2> HIDE DEF Events
  <2> QED BY <1>2, <1>3
<1> QED BY <1>4 DEF Ledger, Logs

LEMMA AppendedIsLedger ==
  ASSUME NEW log, Ledger(log), NEW content \in Contents
  PROVE  Ledger(AppendEvent(log, content))
<1>1. PICK K : log \in Logs(Contents, K)
  BY DEF Ledger
<1> DEFINE head == HeadHash(log)
           e == Event(Len(log) + 1, content, head)
           H == K \cup {head, e.hash}
           Events == [seq : Int, content : Contents, prev : H, hash : H]
<1>2. log \in Seq(Events) /\ Len(log) \in Nat
  <2>1. Len(log) \in Nat
    BY <1>1, LedgerParts
  <2>2. K \subseteq H
    OBVIOUS
  <2> HIDE DEF H
  <2>3. log \in Logs(Contents, H)
    BY <1>1, <2>2, MoreHashes
  <2> QED BY <2>1, <2>3 DEF Logs
<1>3. e \in Events
  BY <1>2 DEF Event
<1>4. Append(log, e) \in Seq(Events)
  <2> HIDE DEF Events, e
  <2> QED BY <1>2, <1>3
<1> QED BY <1>4 DEF Ledger, Logs, AppendEvent

\* The empty ledger is one, and the code's appends keep it one that verifies.
LEMMA BuiltVerifies ==
  ASSUME NEW contents \in Seq(Contents)
  PROVE  Ledger(Built(contents)) /\ VerifyChain(Built(contents))
<1> DEFINE n == Len(contents)
           Is(X, k) == X = [i \in 0..k |-> IF i = 0 THEN <<>> ELSE AppendEvent(X[i - 1], contents[i])]
           Good == {k \in 0..n : \E X : Is(X, k)}
<1>1. n \in Nat /\ \A i \in 1..n : contents[i] \in Contents
  OBVIOUS
<1> HIDE DEF n
<1>2. 0..n \subseteq Good
  <2>1. 0 \in Good
    <3> DEFINE X == [i \in 0..0 |-> <<>>]
    <3>1. X = [i \in 0..0 |-> IF i = 0 THEN <<>> ELSE AppendEvent(X[i - 1], contents[i])]
      OBVIOUS
    <3>2. \E Y : Is(Y, 0)
      <4> HIDE DEF X
      <4> QED BY <3>1
    <3>3. 0 \in 0..n
      BY <1>1
    <3> HIDE DEF Is
    <3> QED BY <3>2, <3>3
  <2>2. ASSUME NEW k \in 0..(n - 1), k \in Good PROVE k + 1 \in Good
    <3>1. PICK X : Is(X, k)
      BY <2>2
    <3> DEFINE Y == [i \in 0..(k + 1) |-> IF i = k + 1 THEN AppendEvent(X[k], contents[k + 1])
                                          ELSE X[i]]
    <3>2. k \in Nat /\ k + 1 \in 0..n /\ (k + 1) - 1 = k
      BY <1>1
    <3>3. \A i \in 0..(k + 1) :
            Y[i] = IF i = 0 THEN <<>> ELSE AppendEvent(Y[i - 1], contents[i])
      <4> SUFFICES ASSUME NEW i \in 0..(k + 1)
                   PROVE  Y[i] = IF i = 0 THEN <<>> ELSE AppendEvent(Y[i - 1], contents[i])
        OBVIOUS
      <4>1. CASE i = k + 1
        <5>1. Y[i - 1] = X[k] /\ i # 0
          BY <3>2, <4>1
        <5> QED BY <4>1, <5>1
      <4>2. CASE i # k + 1
        <5>1. i \in 0..k /\ Y[i] = X[i]
          BY <3>2, <4>2
        <5>2. i # 0 => Y[i - 1] = X[i - 1]
          BY <3>2, <5>1
        <5> QED BY <3>1, <5>1, <5>2
      <4> QED BY <4>1, <4>2
    <3>4. Is(Y, k + 1)
      <4> DEFINE Z == [i \in 0..(k + 1) |-> IF i = 0 THEN <<>> ELSE AppendEvent(Y[i - 1], contents[i])]
      <4>1. \A i \in 0..(k + 1) : Y[i] = Z[i]
        BY <3>3
      <4>2. DOMAIN Y = 0..(k + 1) /\ Y = [i \in 0..(k + 1) |-> Y[i]]
        OBVIOUS
      <4> HIDE DEF Y
      <4> QED BY <4>1, <4>2
    <3> QED BY <3>2, <3>4
  <2> HIDE DEF Good
  <2> QED BY <1>1, <2>1, <2>2, UpwardInduction
<1> DEFINE log == CHOOSE X : Is(X, n)
<1>3. Is(log, n)
  <2>1. n \in 0..n
    BY <1>1
  <2>2. \E X : Is(X, n)
    BY <1>2, <2>1
  <2> HIDE DEF Is
  <2> QED BY <2>2, Zenon
<1>4. Built(contents) = log[n]
  BY Zenon DEF Built, n
<1> HIDE DEF log
<1> DEFINE Fine == {i \in 0..n : Ledger(log[i]) /\ VerifyChain(log[i])}
<1>5. 0..n \subseteq Fine
  <2>1. 0 \in Fine
    <3>1. log[0] = <<>>
      BY <1>1, <1>3
    <3>2. <<>> \in Logs(Contents, {})
      BY DEF Logs
    <3> QED BY <1>1, <3>1, <3>2 DEF Ledger, VerifyChain
  <2>2. ASSUME NEW i \in 0..(n - 1), i \in Fine PROVE i + 1 \in Fine
    <3>1. i + 1 \in 1..n /\ i + 1 \in 0..n /\ (i + 1) - 1 = i /\ i + 1 # 0
      BY <1>1
    <3>2. log[i + 1] = AppendEvent(log[i], contents[i + 1])
      BY <1>3, <3>1
    <3>3. Ledger(log[i]) /\ VerifyChain(log[i]) /\ contents[i + 1] \in Contents
      BY <1>1, <2>2, <3>1
    <3> HIDE DEF Is
    <3>4. PICK H : log[i] \in Logs(Contents, H)
      BY <3>3 DEF Ledger
    <3>5. VerifyChain(log[i + 1])
      BY <3>2, <3>3, <3>4, AppendVerifies
    <3> QED BY <3>1, <3>2, <3>3, <3>5, AppendedIsLedger
  <2> HIDE DEF Fine
  <2> QED BY <1>1, <2>1, <2>2, UpwardInduction
<1>6. n \in 0..n
  BY <1>1
<1> QED BY <1>4, <1>5, <1>6

\* An edited ledger still has a ledger's form.
LEMMA EditedIsLedger ==
  ASSUME NEW log, Ledger(log), NEW edited \in Edits(log)
  PROVE  Ledger(edited)
<1>1. PICK H : log \in Logs(Contents, H)
  BY DEF Ledger
<1> DEFINE Events == [seq : Int, content : Contents, prev : H, hash : H]
<1>2. log \in Seq(Events)
  BY <1>1 DEF Logs
<1>3. /\ DOMAIN log = 1..Len(log) /\ Len(log) \in Nat
      /\ \A i \in DOMAIN log : log[i] \in Events
  <2> HIDE DEF Events
  <2> QED BY <1>2
<1>4. CASE edited = log
  BY <1>4
<1>5. CASE \E i \in DOMAIN log : edited = RemoveAt(log, i)
  <2>1. PICK i \in DOMAIN log : edited = RemoveAt(log, i)
    BY <1>5
  <2>2. SubSeq(log, 1, i - 1) \in Seq(Events) /\ SubSeq(log, i + 1, Len(log)) \in Seq(Events)
    <3>1. /\ 1 \in 1..(Len(log) + 1) /\ i - 1 \in (1 - 1)..Len(log)
          /\ i + 1 \in 1..(Len(log) + 1) /\ Len(log) \in ((i + 1) - 1)..Len(log)
      BY <1>3
    <3> HIDE DEF Events
    <3> QED BY <1>2, <3>1, PartOfSequence
  <2>3. edited \in Seq(Events)
    <3> HIDE DEF Events
    <3> QED BY <2>1, <2>2 DEF RemoveAt
  <2> QED BY <2>3 DEF Ledger, Logs
<1>6. CASE \E i \in DOMAIN log, j \in DOMAIN log : edited = [log EXCEPT ![i] = log[j]]
  <2>1. PICK i \in DOMAIN log, j \in DOMAIN log : edited = [log EXCEPT ![i] = log[j]]
    BY <1>6
  <2>2. log[j] \in Events
    BY <1>3
  <2> QED BY <2>1, <2>2, ReplacedIsLedger
<1>7. CASE \E i \in DOMAIN log, c \in Contents : edited = [log EXCEPT ![i].content = c]
  <2>1. PICK i \in DOMAIN log, c \in Contents : edited = [log EXCEPT ![i].content = c]
    BY <1>7
  <2>2. [log[i] EXCEPT !.content = c] \in Events
    <3>1. log[i] \in Events
      BY <1>3
    <3> QED BY <3>1
  <2>3. edited = [log EXCEPT ![i] = [log[i] EXCEPT !.content = c]]
    BY <2>1, Zenon
  <2> QED BY <2>2, <2>3, ReplacedIsLedger
<1>8. CASE \E i \in DOMAIN log, c \in Contents :
             edited = [log EXCEPT ![i] = Event(i, c, log[i].prev)]
  <2>1. PICK i \in DOMAIN log, c \in Contents :
          edited = [log EXCEPT ![i] = Event(i, c, log[i].prev)]
    BY <1>8
  <2> DEFINE e == Event(i, c, log[i].prev)
             K == H \cup {e.hash}
  <2>2. i \in Int /\ log[i].prev \in H
    BY <1>1, <1>3, LedgerParts
  <2>3. e \in [seq : Int, content : Contents, prev : K, hash : K]
    BY <2>2 DEF Event
  <2> HIDE DEF e, K
  <2>4. edited = [log EXCEPT ![i] = e]
    BY <2>1 DEF e
  <2> QED BY <2>3, <2>4, ReplacedIsLedger
<1> QED BY <1>4, <1>5, <1>6, <1>7, <1>8 DEF Edits

-----------------------------------------------------------------------------
(* Exposure, tail losses and correlation *)

LEMMA GreaterOfTwo ==
  ASSUME NEW a \in Int, NEW b \in Int
  PROVE  Max({a, b}) = IF a >= b THEN a ELSE b
<1> DEFINE m == IF a >= b THEN a ELSE b
<1>1. m \in {a, b} /\ \A y \in {a, b} : m >= y
  OBVIOUS
<1>2. \A x \in {a, b} : (\A y \in {a, b} : x >= y) => x = m
  OBVIOUS
<1> HIDE DEF m
<1>3. Max({a, b}) \in {a, b} /\ \A y \in {a, b} : Max({a, b}) >= y
  BY <1>1 DEF Max
<1>4. Max({a, b}) = m
  BY <1>2, <1>3
<1> QED BY <1>4 DEF m

\* Long and short exposure make up net and gross, and the strategies' exposures
\* add up to the net one, whatever the positions (portfolio_engine.py:58-93).
THEOREM ExposuresAddUp ==
  ASSUME NEW P, \A p \in P : p.qty \in Int /\ p.price \in Int, NEW positions \in Seq(P)
  PROVE  LET e == CalculateNetExposure(positions)
         IN  /\ e.net = e.long - e.short /\ e.gross = e.long + e.short
             /\ e.net = SumFunction(e.perStrategy)
<1> DEFINE I == DOMAIN positions
           x == [i \in I |-> Notional(positions[i])]
           long == [i \in I |-> Max({x[i], 0})]
           short == [i \in I |-> Max({-x[i], 0})]
           gross == [i \in I |-> Abs(x[i])]
           S == {positions[i].strategy : i \in I}
           part == [s \in S |->
                      SumFunction([i \in I |-> IF positions[i].strategy = s THEN x[i] ELSE 0])]
<1>1. IsFiniteSet(I)
  <2>1. I = 1..Len(positions) /\ Len(positions) \in Int /\ 1 \in Int
    OBVIOUS
  <2> QED BY <2>1, FS_Interval
<1>2. \A i \in I : x[i] \in Int
  <2>1. \A i \in I : positions[i] \in P
    OBVIOUS
  <2>2. \A a, b \in Int : a * b \in Int
    OBVIOUS
  <2> QED BY <2>1, <2>2 DEF Notional
<1>3. IsFiniteSet(S)
  <2> DEFINE f == [i \in I |-> positions[i].strategy]
  <2>1. f \in Surjection(I, S)
    BY DEF Surjection
  <2> HIDE DEF f, I, S
  <2> QED BY <1>1, <2>1, FS_Surjection
<1>4. \A s \in S : part[s] = SumFunctionOnSet([i \in I |-> IF positions[i].strategy = s
                                                          THEN x[i] ELSE 0], I)
  BY DEF SumFunction
<1> DEFINE e == CalculateNetExposure(positions)
<1>5. /\ e.net = SumFunctionOnSet(x, I) /\ e.gross = SumFunctionOnSet(gross, I)
      /\ e.long = SumFunctionOnSet(long, I) /\ e.short = SumFunctionOnSet(short, I)
      /\ e.perStrategy = part
  BY DEF CalculateNetExposure, SumFunction
<1>6. \A i \in I : /\ gross[i] \in Int /\ long[i] \in Int /\ short[i] \in Int
                   /\ long[i] = x[i] + short[i] /\ gross[i] = long[i] + short[i]
  <2> SUFFICES ASSUME NEW i \in I
               PROVE  /\ gross[i] \in Int /\ long[i] \in Int /\ short[i] \in Int
                      /\ long[i] = x[i] + short[i] /\ gross[i] = long[i] + short[i]
    OBVIOUS
  <2>1. /\ long[i] = Max({x[i], 0}) /\ short[i] = Max({-x[i], 0}) /\ gross[i] = Abs(x[i])
        /\ x[i] \in Int /\ -x[i] \in Int /\ 0 \in Int
    BY <1>2
  <2> HIDE DEF x, long, short, gross
  <2>2. /\ Max({x[i], 0}) = IF x[i] >= 0 THEN x[i] ELSE 0
        /\ Max({-x[i], 0}) = IF -x[i] >= 0 THEN -x[i] ELSE 0
    BY <2>1, GreaterOfTwo
  <2> QED BY <2>1, <2>2 DEF Abs
<1> HIDE DEF x, long, short, gross, e
<1>7. SumFunctionOnSet(long, I) = SumFunctionOnSet(x, I) + SumFunctionOnSet(short, I)
  BY <1>1, <1>2, <1>6, SumOfSums
<1>8. SumFunctionOnSet(gross, I) = SumFunctionOnSet(long, I) + SumFunctionOnSet(short, I)
  BY <1>1, <1>6, SumOfSums
<1>9. SumFunctionOnSet(x, I) \in Int /\ SumFunctionOnSet(short, I) \in Int
  BY <1>1, <1>2, <1>6, SumType
<1>10. SumFunctionOnSet(x, I) = SumFunctionOnSet(part, S)
  <2> DEFINE key == [i \in I |-> positions[i].strategy]
             of == [s \in S |-> [i \in I |-> IF positions[i].strategy = s THEN x[i] ELSE 0]]
  <2>1. \A i \in I : x[i] \in Int /\ key[i] \in S
    BY <1>2
  <2>2. \A s \in S : part[s] = SumFunctionOnSet(of[s], I)
    BY <1>4
  <2>3. \A s \in S, i \in I : of[s][i] = IF key[i] = s THEN x[i] ELSE 0
    OBVIOUS
  <2> HIDE DEF key, of, S, part, I
  <2>4. Groups(I, x, key, S, part, of)
    BY <2>1, <2>2, <2>3 DEF Groups
  <2> QED BY <1>1, <1>3, <2>4, SumByGroup
<1>11. DOMAIN part = S
  OBVIOUS
<1> HIDE DEF part
<1>12. e.net = e.long - e.short /\ e.gross = e.long + e.short
  BY <1>5, <1>7, <1>8, <1>9
<1>13. e.net = SumFunction(e.perStrategy)
  BY <1>5, <1>10, <1>11 DEF SumFunction
<1> QED BY <1>12, <1>13 DEF e

\* The tail has a scenario and no more than there are, and all but one of it fit
\* in the share.
LEMMA TailFits ==
  ASSUME NEW n \in Nat \ {0}, NEW tailPct \in 1..99, NEW up \in BOOLEAN
  PROVE  /\ TailCount(n, tailPct, up) \in 1..n
         /\ 100 * (TailCount(n, tailPct, up) - 1) <= tailPct * n
<1> DEFINE share == tailPct * n
           q == share \div 100
           t == q + (IF (share % 100) = 0 /\ ~up THEN 0 ELSE 1)
<1>1. share \in Nat /\ share <= 99 * n
  <2>1. \A a \in 1..99, b \in Nat : a * b \in Nat /\ a * b <= 99 * b
    OBVIOUS
  <2> QED BY <2>1
<1> HIDE DEF share
<1>2. q \in Nat /\ 100 * q <= share
  BY <1>1
<1> HIDE DEF q
<1>3. q <= n - 1
  BY <1>1, <1>2
<1>4. t \in Int /\ t <= n /\ t - 1 <= q /\ 1 \in Int
  BY <1>2, <1>3
<1>5. TailCount(n, tailPct, up) = Max({1, t})
  BY DEF TailCount, t, q, share
<1> HIDE DEF t
<1>6. Max({1, t}) = IF 1 >= t THEN 1 ELSE t
  BY <1>4, GreaterOfTwo
<1> QED BY <1>1, <1>2, <1>4, <1>5, <1>6 DEF share

\* At most the tail's share of the scenarios lose more than the value at risk, and
\* the conditional one is no smaller, whichever way the share is rounded
\* (portfolio_engine.py:159-197).
THEOREM TailIsCovered ==
  ASSUME NEW returns \in Seq(Int), returns # <<>>, NEW tailPct \in 1..99, NEW up \in BOOLEAN
  PROVE  LET m == HistoricalVarCvar(returns, tailPct, up, 1)
             worse == {i \in DOMAIN returns : -returns[i] > m.var}
         IN  /\ 100 * Cardinality(worse) <= tailPct * Len(returns)
             /\ m.cvarSum >= m.tail * m.var
<1> DEFINE n == Len(returns)
           profits == [i \in DOMAIN returns |-> returns[i] * 1]
           e == SortedPlaces(profits)
           losses == [i \in DOMAIN returns |-> -SortedBy(profits, profits)[i]]
           t == TailCount(n, tailPct, up)
           worse == {i \in DOMAIN returns : -returns[i] > losses[t]}
           m == HistoricalVarCvar(returns, tailPct, up, 1)
<1>1. n \in Nat \ {0} /\ DOMAIN returns = 1..n /\ \A i \in 1..n : returns[i] \in Int
  OBVIOUS
<1>2. m.var = losses[t] /\ m.tail = t /\ m.cvarSum = SumFunctionOnSet(losses, 1..t)
  BY DEF HistoricalVarCvar
<1> HIDE DEF n, m
<1>3. profits \in [1..n -> Int] /\ \A i \in 1..n : profits[i] = returns[i]
  BY <1>1
<1>4. \A i \in 1..n : losses[i] = -profits[e[i]]
  BY <1>1 DEF SortedBy
<1> HIDE DEF profits, e, losses
<1>5. ListsPlaces(e, profits, n)
  <2>1. n \in Nat /\ e = SortedPlaces(profits)
    BY <1>1 DEF e
  <2> QED BY <1>3, <2>1, SortedPlacesList
<1> USE DEF ListsPlaces
<1>6. t \in 1..n /\ 100 * (t - 1) <= tailPct * n
  BY <1>1, TailFits
<1> HIDE DEF t
<1>7. /\ \A i \in 1..n : losses[i] \in Int
      /\ \A i, j \in 1..n : i < j => losses[i] >= losses[j]
  <2>1. \A i \in 1..n : e[i] \in 1..n /\ profits[e[i]] \in Int
    BY <1>3, <1>5
  <2>2. \A i \in 1..n : losses[i] \in Int
    BY <1>4, <2>1
  <2>3. ASSUME NEW i \in 1..n, NEW j \in 1..n, i < j PROVE losses[i] >= losses[j]
    <3>1. profits[e[i]] <= profits[e[j]]
      BY <1>5, <2>3
    <3> QED BY <1>4, <2>1, <3>1
  <2> QED BY <2>2, <2>3
<1>8. Cardinality(worse) \in Nat /\ Cardinality(worse) <= t - 1
  <2> DEFINE T == 1..(t - 1)
             first == {e[i] : i \in T}
             f == [i \in T |-> e[i]]
  <2>1. worse \subseteq first
    <3> SUFFICES ASSUME NEW x \in worse PROVE x \in first
      OBVIOUS
    <3>1. x \in 1..n /\ -returns[x] > losses[t]
      BY <1>1
    <3>2. PICK i \in 1..n : e[i] = x
      BY <1>5, <3>1
    <3>3. losses[i] > losses[t]
      BY <1>3, <1>4, <3>1, <3>2
    <3>4. i < t
      BY <1>6, <1>7, <3>3
    <3>5. i \in T
      BY <1>6, <3>4
    <3> QED BY <3>2, <3>5
  <2>2. IsFiniteSet(T) /\ Cardinality(T) = t - 1
    <3>1. 1 \in Int /\ t - 1 \in Int /\ t - 1 >= 0
      BY <1>6
    <3> QED BY <3>1, FS_Interval
  <2>3. f \in Surjection(T, first)
    BY DEF Surjection
  <2> HIDE DEF f, T, first, worse
  <2>4. IsFiniteSet(first) /\ Cardinality(first) <= t - 1
    BY <2>2, <2>3, FS_Surjection
  <2>5. IsFiniteSet(worse) /\ Cardinality(worse) <= Cardinality(first)
    BY <2>1, <2>4, FS_Subset
  <2>6. Cardinality(worse) \in Nat /\ Cardinality(first) \in Nat
    BY <2>4, <2>5, FS_CardinalityType
  <2> QED BY <1>6, <2>4, <2>5, <2>6
<1>9. 100 * Cardinality(worse) <= tailPct * n
  <2> HIDE DEF worse
  <2>1. 100 * Cardinality(worse) <= 100 * (t - 1)
    BY <1>6, <1>8
  <2>2. tailPct * n \in Int
    BY <1>1
  <2> QED BY <1>6, <1>8, <2>1, <2>2
<1>10. SumFunctionOnSet(losses, 1..t) >= t * losses[t]
  <2> DEFINE same == [i \in 1..t |-> losses[t]]
  <2>1. t \in Nat /\ losses[t] \in Int /\ \A i \in 1..t : same[i] = losses[t]
    BY <1>6, <1>7
  <2>2. \A i \in 1..t : same[i] \in Int /\ losses[i] \in Int /\ same[i] <= losses[i]
    <3> SUFFICES ASSUME NEW i \in 1..t
                 PROVE  same[i] \in Int /\ losses[i] \in Int /\ same[i] <= losses[i]
      OBVIOUS
    <3>1. i \in 1..n /\ (i < t \/ i = t)
      BY <1>1, <1>6
    <3>2. losses[i] \in Int /\ losses[i] >= losses[t]
      BY <1>6, <1>7, <3>1
    <3> QED BY <2>1, <3>2
  <2>3. IsFiniteSet(1..t)
    <3>1. 1 \in Int /\ t \in Int
      BY <1>6
    <3> QED BY <3>1, FS_Interval
  <2> HIDE DEF same
  <2>4. SumFunctionOnSet(same, 1..t) <= SumFunctionOnSet(losses, 1..t)
    BY <2>2, <2>3, SumMonotone
  <2>5. SumFunctionOnSet(same, 1..t) = t * losses[t]
    BY <2>1, SumConstant
  <2>6. SumFunctionOnSet(losses, 1..t) \in Int /\ t * losses[t] \in Int
    BY <2>1, <2>2, <2>3, SumType
  <2> QED BY <2>4, <2>5, <2>6
<1> QED BY <1>2, <1>9, <1>10 DEF m, n

\* The covariance of a series with a multiple of another.
LEMMA CovarianceOfMultiple ==
  ASSUME NEW x \in Seq(Int), NEW k \in Int, NEW z, z = [i \in DOMAIN x |-> k * x[i]]
  PROVE  /\ Covariance(x, x) \in Int
         /\ Covariance(x, z) = k * Covariance(x, x)
         /\ Covariance(z, z) = k * (k * Covariance(x, x))
<1> DEFINE I == DOMAIN x
           xx == [i \in I |-> x[i] * x[i]]
           xz == [i \in I |-> x[i] * z[i]]
           zz == [i \in I |-> z[i] * z[i]]
           n == Len(x)
           A == SumFunctionOnSet(xx, I)
           B == SumFunctionOnSet(x, I)
<1>1. IsFiniteSet(I) /\ n \in Nat /\ DOMAIN z = I /\ Len(z) = n
  <2>1. I = 1..Len(x) /\ Len(x) \in Nat /\ 1 \in Int
    OBVIOUS
  <2>2. DOMAIN z = 1..Len(x)
    BY <2>1
  <2>3. z \in Seq(Int) /\ Len(z) = Len(x)
    <3>1. z \in [1..Len(x) -> Int]
      BY <2>1
    <3> QED BY <2>1, <2>2, <3>1
  <2> QED BY <2>1, <2>2, <2>3, FS_Interval
<1>2. \A i \in I : x[i] \in Int /\ z[i] = k * x[i]
  OBVIOUS
<1>3. \A i \in I : /\ xx[i] \in Int /\ xz[i] = k * xx[i] /\ xz[i] \in Int
                   /\ zz[i] = k * xz[i]
  <2>1. \A a \in Int : /\ a * a \in Int /\ a * (k * a) = k * (a * a)
                       /\ k * (a * a) \in Int
                       /\ (k * a) * (k * a) = k * (k * (a * a))
    OBVIOUS
  <2> QED BY <1>2, <2>1
<1>4. /\ Covariance(x, x) = n * A - B * B
      /\ Covariance(x, z) = n * SumFunctionOnSet(xz, I) - B * SumFunctionOnSet(z, I)
      /\ Covariance(z, z) = n * SumFunctionOnSet(zz, I)
                              - SumFunctionOnSet(z, I) * SumFunctionOnSet(z, I)
  BY <1>1 DEF Covariance, SumFunction
<1> HIDE DEF I, xx, xz, zz, n
<1>5. SumFunctionOnSet(z, I) = k * B
  BY <1>1, <1>2, SumScaled
<1>6. SumFunctionOnSet(xz, I) = k * A
  BY <1>1, <1>3, SumScaled
<1>7. SumFunctionOnSet(zz, I) = k * (k * A)
  <2>1. SumFunctionOnSet(zz, I) = k * SumFunctionOnSet(xz, I)
    BY <1>1, <1>3, SumScaled
  <2> QED BY <1>6, <2>1
<1>8. A \in Int /\ B \in Int
  BY <1>1, <1>2, <1>3, SumType
<1> HIDE DEF A, B
<1>9. \A a, b \in Int :
        /\ n * a - b * b \in Int
        /\ n * (k * a) - b * (k * b) = k * (n * a - b * b)
        /\ n * (k * (k * a)) - (k * b) * (k * b) = k * (k * (n * a - b * b))
  BY <1>1
<1> QED BY <1>4, <1>5, <1>6, <1>7, <1>8, <1>9

\* A strategy that copies another one, scaled or inverted, is not approved beside
\* it, unless the limit lets full correlation pass (portfolio_engine.py:96-156).
THEOREM CopiesAreRefused ==
  ASSUME MaxPairCorr < 100, NEW x \in Seq(Int), NEW y, NEW k \in Int \ {0},
         Covariance(x, x) # 0
  PROVE  ~EvaluateCorrelationRisk(<<x, y, [i \in DOMAIN x |-> k * x[i]]>>).approved
<1> DEFINE z == [i \in DOMAIN x |-> k * x[i]]
           returns == <<x, y, z>>
           v == Covariance(x, x)
           w == Covariance(x, z)
           u == Covariance(z, z)
           C == {c \in 0..100 : c * c * v * u <= 10000 * w * w}
<1>1. v \in Int /\ w = k * v /\ u = k * (k * v)
  BY CovarianceOfMultiple
<1> HIDE DEF z, v, w, u
<1>2. v # 0 /\ u # 0
  <2>1. \A a, b \in Int : a # 0 /\ b # 0 => a * b # 0
    OBVIOUS
  <2>2. v # 0
    BY DEF v
  <2>3. k * v \in Int
    BY <1>1
  <2> QED BY <1>1, <2>1, <2>2, <2>3
<1>3. 100 \in C
  <2>1. 100 * 100 * v * (k * (k * v)) = 10000 * (k * v) * (k * v)
    BY <1>1
  <2>2. 100 * 100 * v * (k * (k * v)) \in Int
    BY <1>1
  <2> QED BY <1>1, <2>1, <2>2
<1>4. Max(C) = 100
  <2>1. \A c \in C : 100 >= c
    OBVIOUS
  <2> HIDE DEF C
  <2>2. Max(C) \in C /\ \A c \in C : Max(C) >= c
    BY <1>3, <2>1 DEF Max
  <2>3. C \subseteq 0..100
    BY DEF C
  <2>4. Max(C) >= 100
    BY <1>3, <2>2
  <2>5. Max(C) \in 0..100
    BY <2>2, <2>3
  <2>6. \A m \in 0..100 : m >= 100 => m = 100
    OBVIOUS
  <2> QED BY <2>4, <2>5, <2>6
<1>5. AbsCorr(x, z) = 100
  <2>1. AbsCorr(x, z) = Max(C)
    BY <1>2 DEF AbsCorr, v, w, u
  <2> QED BY <1>4, <2>1
<1>6. MaxPairCorr \in Int
  BY CorrelationAssumption DEF ValidLimits
<1> DEFINE pairs == {p \in (DOMAIN returns) \X (DOMAIN returns) : p[1] < p[2]}
           breached == {p \in pairs : AbsCorr(returns[p[1]], returns[p[2]]) > MaxPairCorr}
<1>7. <<1, 3>> \in pairs /\ returns[1] = x /\ returns[3] = z
  OBVIOUS
<1>8. <<1, 3>> \in breached
  <2> HIDE DEF returns, pairs
  <2> QED BY <1>5, <1>6, <1>7
<1>9. breached # {}
  <2> HIDE DEF breached
  <2> QED BY <1>8
<1>10. ~EvaluateCorrelationRisk(returns).approved
  <2> HIDE DEF returns
  <2> QED BY <1>9 DEF EvaluateCorrelationRisk
<1> QED BY <1>10 DEF returns, z

-----------------------------------------------------------------------------
(* The capital that is allocated *)

LEMMA LesserOfTwo ==
  ASSUME NEW a \in Int, NEW b \in Int
  PROVE  Min({a, b}) = IF a <= b THEN a ELSE b
<1> DEFINE m == IF a <= b THEN a ELSE b
<1>1. m \in {a, b} /\ \A y \in {a, b} : m <= y
  OBVIOUS
<1>2. \A x \in {a, b} : (\A y \in {a, b} : x <= y) => x = m
  OBVIOUS
<1> HIDE DEF m
<1>3. Min({a, b}) \in {a, b} /\ \A y \in {a, b} : Min({a, b}) <= y
  BY <1>1 DEF Min
<1>4. Min({a, b}) = m
  BY <1>2, <1>3
<1> QED BY <1>4 DEF m

LEMMA AllocatorFacts ==
  /\ Whole \in Nat \ {0} /\ MinWeight \in Nat /\ MaxWeight \in Nat /\ Passes \in Nat
  /\ MaxDrawdown \in Nat \ {0} /\ TargetVolatility \in Nat \ {0} /\ CostBudget \in Nat \ {0}
  /\ FactorWeights \in [1..5 -> Int] /\ SumFunction(FactorWeights) > 0
  /\ ReservePct \in Int
<1>1. /\ Whole \in Int /\ MinWeight \in Int /\ MaxWeight \in Int /\ MaxDrawdown \in Int
      /\ TargetVolatility \in Int /\ CostBudget \in Int
  BY AllocatorAssumption, Zenon
<1>2. Whole > 0 /\ Passes \in Nat /\ FactorWeights \in [1..5 -> Int] /\ ValidConfig
  BY AllocatorAssumption, Zenon
<1>3. /\ ReservePct \in 0..99 /\ MaxDrawdown > 0 /\ TargetVolatility > 0 /\ CostBudget > 0
      /\ 0 <= MinWeight /\ MinWeight <= MaxWeight /\ SumFunction(FactorWeights) > 0
  BY <1>2, Zenon DEF ValidConfig
<1> QED BY <1>1, <1>2, <1>3

\* What is left of a residual while it is spread over n weights.
Residuals(n) == [weights : [1..n -> Int], left : Nat]

\* new is acc after the k-th weight took d of what is left.
Takes(new, acc, k, d, grow, n) ==
  /\ d <= acc.left /\ new.left = acc.left - d
  /\ new.weights = [acc.weights EXCEPT ![k] = IF grow THEN acc.weights[k] + d
                                              ELSE acc.weights[k] - d]
  /\ new \in Residuals(n)
  /\ \/ d = acc.left
     \/ IF grow THEN acc.weights[k] + d >= MaxWeight ELSE acc.weights[k] - d <= MinWeight

LEMMA MovedParts ==
  ASSUME NEW n \in Nat, NEW acc \in Residuals(n), NEW k \in 1..n, NEW grow \in BOOLEAN
  PROVE  \E d \in Nat : Takes(Moved(acc, k, grow), acc, k, d, grow, n)
<1>1. acc.weights \in [1..n -> Int] /\ acc.left \in Nat
  BY DEF Residuals
<1>2. acc.weights[k] \in Int /\ MaxWeight \in Int /\ MinWeight \in Int /\ acc.left \in Int
  BY <1>1, AllocatorFacts
<1> DEFINE room == IF grow THEN MaxWeight - acc.weights[k] ELSE acc.weights[k] - MinWeight
           d == Max({0, Min({room, acc.left})})
           new == [acc.weights EXCEPT ![k] = IF grow THEN acc.weights[k] + d ELSE acc.weights[k] - d]
<1>3. room \in Int
  BY <1>2
<1>4. Moved(acc, k, grow) = [weights |-> new, left |-> acc.left - d]
  BY DEF Moved
<1> HIDE DEF room
<1>5. Min({room, acc.left}) = IF room <= acc.left THEN room ELSE acc.left
  BY <1>2, <1>3, LesserOfTwo
<1>6. Min({room, acc.left}) \in Int
  BY <1>2, <1>3, <1>5
<1>7. d = IF 0 >= Min({room, acc.left}) THEN 0 ELSE Min({room, acc.left})
  BY <1>6, GreaterOfTwo
<1> HIDE DEF d
<1>8. d \in Nat /\ d <= acc.left /\ (d = acc.left \/ d >= room)
  BY <1>1, <1>3, <1>5, <1>6, <1>7
<1>9. new \in [1..n -> Int]
  BY <1>1, <1>2, <1>8
<1>10. acc.left - d \in Nat
  BY <1>1, <1>8
<1>11. \/ d = acc.left
       \/ IF grow THEN acc.weights[k] + d >= MaxWeight ELSE acc.weights[k] - d <= MinWeight
  BY <1>2, <1>8 DEF room
<1> HIDE DEF new
<1>12. Moved(acc, k, grow) \in Residuals(n)
  BY <1>4, <1>9, <1>10 DEF Residuals
<1>13. Moved(acc, k, grow).left = acc.left - d /\ Moved(acc, k, grow).weights = new
  BY <1>4
<1> QED BY <1>8, <1>11, <1>12, <1>13 DEF new, Takes

\* The first i places of order have been served: the sum is right, and while
\* something is left they are full.
Served(acc, order, i, n, grow) ==
  /\ Whole = SumFunctionOnSet(acc.weights, 1..n) + (IF grow THEN acc.left ELSE -acc.left)
  /\ \A j \in 1..i : \/ acc.left = 0
                     \/ IF grow THEN acc.weights[order[j]] >= MaxWeight
                        ELSE acc.weights[order[j]] <= MinWeight

LEMMA ServedStep ==
  ASSUME NEW n \in Nat, NEW acc \in Residuals(n), NEW order \in [1..n -> 1..n],
         NEW i \in 0..(n - 1), NEW grow \in BOOLEAN, Served(acc, order, i, n, grow)
  PROVE  /\ Moved(acc, order[i + 1], grow) \in Residuals(n)
         /\ Served(Moved(acc, order[i + 1], grow), order, i + 1, n, grow)
<1> DEFINE k == order[i + 1]
           new == Moved(acc, k, grow)
<1>1. k \in 1..n /\ i \in Nat
  OBVIOUS
<1> HIDE DEF k
<1> DEFINE w == acc.weights
           left == acc.left
           y == new.weights
<1>2. PICK d \in Nat : Takes(new, acc, k, d, grow, n)
  BY <1>1, MovedParts
<1>3. w \in [1..n -> Int] /\ left \in Nat
  BY DEF Residuals
<1>4. IsFiniteSet(1..n) /\ MaxWeight \in Int /\ MinWeight \in Int /\ Whole \in Int
  <2>1. 1 \in Int /\ n \in Int
    OBVIOUS
  <2> QED BY <2>1, FS_Interval, AllocatorFacts
<1> DEFINE v == IF grow THEN w[k] + d ELSE w[k] - d
           rest == new.left
<1> HIDE DEF new, w, left, y, rest
<1>5. /\ d <= left /\ rest = left - d /\ y = [w EXCEPT ![k] = v] /\ new \in Residuals(n)
      /\ \/ d = left
         \/ IF grow THEN w[k] + d >= MaxWeight ELSE w[k] - d <= MinWeight
  BY <1>2 DEF Takes, w, left, y, rest
<1>6. w[k] \in Int /\ v \in Int
  <2>1. w[k] \in Int
    BY <1>1, <1>3
  <2> QED BY <2>1
<1>7. SumFunctionOnSet(y, 1..n) = SumFunctionOnSet(w, 1..n) - w[k] + v
  <2> HIDE DEF v
  <2>1. SumFunctionOnSet([w EXCEPT ![k] = v], 1..n) = SumFunctionOnSet(w, 1..n) - w[k] + v
    BY <1>1, <1>3, <1>6, SumPlaced
  <2> QED BY <1>5, <2>1
<1>8. SumFunctionOnSet(w, 1..n) \in Int
  <2>1. \A x \in 1..n : w[x] \in Int
    BY <1>3
  <2> QED BY <1>4, <2>1, SumType
<1>9. Whole = SumFunctionOnSet(y, 1..n) + (IF grow THEN rest ELSE -rest)
  <2>1. Whole = SumFunctionOnSet(w, 1..n) + (IF grow THEN left ELSE -left)
    BY DEF Served, w, left
  <2>2. \A W, A, B, x, l, r \in Int :
          /\ W = A + (IF grow THEN l ELSE -l) /\ r = l - d
          /\ B = A - x + (IF grow THEN x + d ELSE x - d)
          => W = B + (IF grow THEN r ELSE -r)
    OBVIOUS
  <2> DEFINE A == SumFunctionOnSet(w, 1..n)
             B == SumFunctionOnSet(y, 1..n)
             x == w[k]
  <2>3. A \in Int /\ x \in Int /\ left \in Int /\ rest \in Int /\ rest = left - d
    BY <1>3, <1>5, <1>6, <1>8
  <2>4. B = A - x + (IF grow THEN x + d ELSE x - d)
    BY <1>7
  <2>5. Whole = A + (IF grow THEN left ELSE -left)
    BY <2>1
  <2> HIDE DEF A, B, x, v
  <2>6. B \in Int
    BY <2>3, <2>4
  <2>7. Whole = B + (IF grow THEN rest ELSE -rest)
    BY <1>4, <2>2, <2>3, <2>4, <2>5, <2>6
  <2> QED BY <2>7 DEF B
<1>10. ASSUME NEW j \in 1..(i + 1)
      PROVE  rest = 0 \/ IF grow THEN y[order[j]] >= MaxWeight ELSE y[order[j]] <= MinWeight
  <2> DEFINE o == order[j]
  <2>1. o \in 1..n
    BY <1>1
  <2> HIDE DEF o
  <2>2. w[o] \in Int /\ y[o] = IF o = k THEN v ELSE w[o]
    BY <1>3, <1>5, <1>6, <2>1
  <2>3. CASE o = k
    <3>1. y[o] = v /\ w[k] \in Int
      BY <1>6, <2>2, <2>3
    <3>2. d = left => rest = 0
      BY <1>3, <1>5
    <3> QED BY <1>5, <3>1, <3>2 DEF o
  <2>4. CASE o # k
    <3>1. j \in 1..i
      BY <1>1, <2>4 DEF k, o
    <3>2. left = 0 \/ IF grow THEN w[o] >= MaxWeight ELSE w[o] <= MinWeight
      BY <3>1 DEF Served, w, left, o
    <3>3. left = 0 => rest = 0
      BY <1>3, <1>5
    <3>4. y[o] = w[o]
      BY <2>2, <2>4
    <3> QED BY <3>2, <3>3, <3>4 DEF o
  <2> QED BY <2>3, <2>4
<1> QED
  <2>1. new \in Residuals(n)
    BY <1>5
  <2> QED BY <1>9, <1>10, <2>1 DEF Served, new, k, y, rest

\* The equation of the fold that spreads a residual.
IsMoveFold(h, base, order, grow) ==
  h = [s \in SUBSET (DOMAIN order) |->
         IF s = {} THEN base ELSE Moved(h[s \ {Max(s)}], order[Max(s)], grow)]

Spread(base, order, grow) == FoldLeft(LAMBDA acc, n : Moved(acc, n, grow), base, order)

LEMMA SpreadStates ==
  ASSUME NEW n \in Nat, NEW base \in Residuals(n), NEW order \in [1..n -> 1..n],
         NEW grow \in BOOLEAN
  PROVE  \E X : /\ X[0] = base
                /\ \A i \in 1..n : X[i] = Moved(X[i - 1], order[i], grow)
                /\ X[n] = Spread(base, order, grow)
<1> DEFINE States == Residuals(n)
           H == [i \in 1..n |-> [s \in States |-> Moved(s, order[i], grow)]]
<1>1. DOMAIN order = 1..n
  OBVIOUS
<1>2. \A i \in 1..n, s \in States : Moved(s, order[i], grow) \in States
  <2> SUFFICES ASSUME NEW i \in 1..n, NEW s \in States
               PROVE  Moved(s, order[i], grow) \in States
    OBVIOUS
  <2>1. order[i] \in 1..n
    OBVIOUS
  <2> QED BY <2>1, MovedParts DEF Takes
<1>3. H \in [1..n -> [States -> States]]
  <2> HIDE DEF States
  <2> QED BY <1>2
<1>4. \A i \in 1..n, s \in States : H[i][s] = Moved(s, order[i], grow)
  OBVIOUS
<1>5. base \in States
  OBVIOUS
<1> HIDE DEF H, States
<1>6. PICK g \in [SUBSET (1..n) -> States] : IsLeftFold(g, n, base, H)
  BY <1>3, <1>5, LeftFoldExists
<1>7. \A s \in SUBSET (1..n) : s # {} => Max(s) \in s
  BY GreatestIsMember
<1>8. \A s \in SUBSET (1..n) : s # {} =>
         H[Max(s)][g[s \ {Max(s)}]] = Moved(g[s \ {Max(s)}], order[Max(s)], grow)
  BY <1>4, <1>6, <1>7
<1>9. IsMoveFold(g, base, order, grow)
  <2>1. g = [s \in SUBSET (1..n) |->
               IF s = {} THEN base ELSE Moved(g[s \ {Max(s)}], order[Max(s)], grow)]
    BY <1>6, <1>8 DEF IsLeftFold
  <2> QED BY <1>1, <2>1 DEF IsMoveFold
<1> DEFINE h == CHOOSE k : IsMoveFold(k, base, order, grow)
<1>10. IsMoveFold(h, base, order, grow)
  BY <1>9, Zenon
<1>11. Spread(base, order, grow) = h[DOMAIN order]
  BY Zenon DEF Spread, FoldLeft, MapThenFoldSet, IsMoveFold
<1> HIDE DEF h
<1> DEFINE X == [i \in 0..n |-> h[1..i]]
<1>12. h[1..0] = base
  BY <1>1, <1>10 DEF IsMoveFold
<1>13. ASSUME NEW i \in 1..n PROVE h[1..i] = Moved(h[1..(i - 1)], order[i], grow)
  <2>1. /\ Max(1..i) = i /\ (1..i) \ {i} = 1..(i - 1)
        /\ 1..i \in SUBSET (1..n) /\ 1..i # {}
    BY PrefixMax
  <2>2. h[1..i] = Moved(h[(1..i) \ {Max(1..i)}], order[Max(1..i)], grow)
    BY <1>1, <1>10, <2>1, Zenon DEF IsMoveFold
  <2> QED BY <2>1, <2>2
<1>14. X[0] = base /\ X[n] = h[DOMAIN order]
  BY <1>1, <1>12
<1>15. \A i \in 1..n : X[i] = Moved(X[i - 1], order[i], grow)
  <2> SUFFICES ASSUME NEW i \in 1..n PROVE X[i] = Moved(X[i - 1], order[i], grow)
    OBVIOUS
  <2>1. X[i] = h[1..i] /\ X[i - 1] = h[1..(i - 1)]
    OBVIOUS
  <2> HIDE DEF X
  <2> QED BY <1>13, <2>1
<1> HIDE DEF X
<1> QED BY <1>11, <1>14, <1>15

\* Once every place is served, something left means that all weights are on
\* the bound, and then the sum is not short of the whole.
LEMMA ServedIsWhole ==
  ASSUME NEW n \in Nat, Feasible(n), NEW acc \in Residuals(n), NEW grow \in BOOLEAN,
         NEW order, NEW key, ListsPlaces(order, key, n), Served(acc, order, n, n, grow)
  PROVE  SumFunctionOnSet(acc.weights, 1..n) = Whole
<1> DEFINE w == acc.weights
           left == acc.left
           A == SumFunctionOnSet(w, 1..n)
<1>1. w \in [1..n -> Int] /\ left \in Nat
  BY DEF Residuals
<1>2. Whole = A + (IF grow THEN left ELSE -left)
  BY DEF Served
<1>3. IsFiniteSet(1..n)
  <2>1. 1 \in Int /\ n \in Int
    OBVIOUS
  <2> QED BY <2>1, FS_Interval
<1>4. Whole \in Int /\ MinWeight \in Int /\ MaxWeight \in Int
  BY AllocatorFacts
<1>5. A \in Int
  <2>1. \A z \in 1..n : w[z] \in Int
    BY <1>1
  <2> HIDE DEF w
  <2> QED BY <1>3, <2>1, SumType
<1> DEFINE bound == IF grow THEN MaxWeight ELSE MinWeight
           flat == [z \in 1..n |-> bound]
<1>6. bound \in Int
  BY <1>4
<1>7. left # 0 => \A z \in 1..n : IF grow THEN w[z] >= bound ELSE w[z] <= bound
  <2> SUFFICES ASSUME left # 0, NEW z \in 1..n
               PROVE  IF grow THEN w[z] >= bound ELSE w[z] <= bound
    OBVIOUS
  <2>1. PICK j \in 1..n : order[j] = z
    BY DEF ListsPlaces
  <2>2. IF grow THEN w[order[j]] >= MaxWeight ELSE w[order[j]] <= MinWeight
    BY DEF Served
  <2> QED BY <2>1, <2>2
<1>8. SumFunctionOnSet(flat, 1..n) = n * bound
  <2>1. \A z \in 1..n : flat[z] = bound
    OBVIOUS
  <2> HIDE DEF bound, flat
  <2> QED BY <1>6, <2>1, SumConstant
<1>9. n * MinWeight <= Whole /\ n * MaxWeight >= Whole
  BY DEF Feasible
<1>10. \A z \in 1..n : w[z] \in Int /\ flat[z] \in Int /\ flat[z] = bound
  BY <1>1, <1>6
<1>11. CASE left # 0 /\ grow
  <2>1. \A z \in 1..n : flat[z] \in Int /\ w[z] \in Int /\ flat[z] <= w[z]
    BY <1>4, <1>7, <1>10, <1>11
  <2>2. SumFunctionOnSet(flat, 1..n) <= A
    <3> HIDE DEF flat, w
    <3> QED BY <1>3, <2>1, SumMonotone
  <2>3. Whole = A + left /\ n * MaxWeight <= A
    BY <1>2, <1>8, <1>11, <2>2
  <2> HIDE DEF A, left
  <2>4. \A p \in Int : p <= A /\ p >= Whole /\ Whole = A + left => left = 0
    BY <1>1, <1>4, <1>5
  <2>5. n * MaxWeight \in Int
    BY <1>4
  <2> QED BY <1>9, <1>11, <2>3, <2>4, <2>5
<1>12. CASE left # 0 /\ ~ grow
  <2>1. \A z \in 1..n : flat[z] \in Int /\ w[z] \in Int /\ w[z] <= flat[z]
    BY <1>4, <1>7, <1>10, <1>12
  <2>2. A <= SumFunctionOnSet(flat, 1..n)
    <3> HIDE DEF flat, w
    <3> QED BY <1>3, <2>1, SumMonotone
  <2>3. Whole = A - left /\ A <= n * MinWeight
    BY <1>1, <1>2, <1>5, <1>8, <1>12, <2>2
  <2> HIDE DEF A, left
  <2>4. \A p \in Int : A <= p /\ p <= Whole /\ Whole = A - left => left = 0
    BY <1>1, <1>4, <1>5
  <2>5. n * MinWeight \in Int
    BY <1>4
  <2> QED BY <1>9, <1>12, <2>3, <2>4, <2>5
<1>13. CASE left = 0
  BY <1>2, <1>5, <1>13
<1> QED BY <1>11, <1>12, <1>13

LEMMA SettledIsWhole ==
  ASSUME NEW n \in Nat, Feasible(n), NEW w \in [1..n -> Int]
  PROVE  Settled(w) \in [1..n -> Int] /\ SumFunctionOnSet(Settled(w), 1..n) = Whole
<1> DEFINE residual == Whole - SumFunction(w)
           grow == residual > 0
           left == IF grow THEN residual ELSE -residual
           base == [weights |-> w, left |-> left]
           key == [m \in 1..n |-> IF grow THEN w[m] ELSE -w[m]]
           order == SortedPlaces(key)
<1>1. DOMAIN w = 1..n
  OBVIOUS
<1>2. Settled(w) = Spread(base, order, grow).weights
  BY <1>1, Zenon DEF Settled, Spread
<1>3. SumFunction(w) = SumFunctionOnSet(w, 1..n) /\ SumFunction(w) \in Int
  <2>1. IsFiniteSet(1..n)
    <3>1. 1 \in Int /\ n \in Int
      OBVIOUS
    <3> QED BY <3>1, FS_Interval
  <2>2. SumFunction(w) = SumFunctionOnSet(w, 1..n)
    BY <1>1, Zenon DEF SumFunction
  <2>3. \A z \in 1..n : w[z] \in Int
    OBVIOUS
  <2>4. SumFunctionOnSet(w, 1..n) \in Int
    BY <2>1, <2>3, SumType
  <2> QED BY <2>2, <2>4
<1>4. Whole \in Int
  BY AllocatorFacts
<1>5. residual \in Int /\ grow \in BOOLEAN
  BY <1>3, <1>4
<1>6. left \in Nat
  <2> HIDE DEF residual
  <2> QED BY <1>5
<1>7. key \in [1..n -> Int]
  <2> HIDE DEF grow
  <2>1. \A m \in 1..n : w[m] \in Int /\ -w[m] \in Int
    OBVIOUS
  <2> QED BY <2>1
<1>8. Whole = SumFunctionOnSet(w, 1..n) + (IF grow THEN left ELSE -left)
  BY <1>3, <1>4
<1> HIDE DEF left, grow, key
<1>9. ListsPlaces(order, key, n)
  BY <1>7, SortedPlacesList
<1> HIDE DEF order
<1>10. order \in [1..n -> 1..n]
  BY <1>9 DEF ListsPlaces
<1>11. base \in Residuals(n) /\ base.weights = w /\ base.left = left
  BY <1>6 DEF Residuals
<1> HIDE DEF base
<1>12. PICK X : /\ X[0] = base
                /\ \A i \in 1..n : X[i] = Moved(X[i - 1], order[i], grow)
                /\ X[n] = Spread(base, order, grow)
  BY <1>5, <1>10, <1>11, SpreadStates
<1> DEFINE Good == {i \in 0..n : X[i] \in Residuals(n) /\ Served(X[i], order, i, n, grow)}
<1>13. 0 \in Good
  BY <1>8, <1>11, <1>12 DEF Served
<1>14. ASSUME NEW i \in 0..(n - 1), i \in Good PROVE i + 1 \in Good
  <2>1. X[i] \in Residuals(n) /\ Served(X[i], order, i, n, grow)
    BY <1>14
  <2>2. i + 1 \in 1..n /\ (i + 1) - 1 = i /\ i + 1 \in 0..n
    OBVIOUS
  <2>3. X[i + 1] = Moved(X[i], order[i + 1], grow)
    BY <1>12, <2>2
  <2>4. /\ Moved(X[i], order[i + 1], grow) \in Residuals(n)
        /\ Served(Moved(X[i], order[i + 1], grow), order, i + 1, n, grow)
    BY <1>5, <1>10, <2>1, ServedStep
  <2> QED BY <2>2, <2>3, <2>4
<1>15. n \in Good
  <2>1. 0..n \subseteq Good
    <3> HIDE DEF Good
    <3> QED BY <1>13, <1>14, UpwardInduction
  <2> QED BY <2>1
<1>16. X[n] \in Residuals(n) /\ Served(X[n], order, n, n, grow)
  BY <1>15
<1>17. SumFunctionOnSet(X[n].weights, 1..n) = Whole
  BY <1>5, <1>9, <1>16, ServedIsWhole
<1>18. X[n].weights \in [1..n -> Int]
  BY <1>16 DEF Residuals
<1> QED BY <1>2, <1>12, <1>17, <1>18

LEMMA QuotientBounds ==
  ASSUME NEW a \in Int, NEW b \in Nat \ {0}
  PROVE  a \div b \in Int /\ b * (a \div b) <= a /\ a <= b * (a \div b) + (b - 1)
OBVIOUS

LEMMA ProductGrows ==
  ASSUME NEW W \in Nat, NEW a \in Int, NEW b \in Int, a > b
  PROVE  W * a >= W * b + W
<1>1. a - b - 1 \in Nat /\ a = b + 1 + (a - b - 1)
  OBVIOUS
<1>2. \A t \in Nat : W * t \in Nat /\ W * (b + 1 + t) = W * b + W + W * t
  OBVIOUS
<1>3. W * b \in Int
  OBVIOUS
<1> QED BY <1>1, <1>2, <1>3

\* Shares of A, rounded down, are together at most A and short of it by less
\* than their number.
LEMMA SharesAddUp ==
  ASSUME NEW n \in Nat \ {0}, NEW A \in Int, NEW W \in Nat \ {0}, NEW w, NEW q,
         \A i \in 1..n : w[i] \in Int /\ q[i] = (A * w[i]) \div W,
         SumFunctionOnSet(w, 1..n) = W
  PROVE  LET s == SumFunctionOnSet(q, 1..n) IN s \in Int /\ A - n < s /\ s <= A
<1> DEFINE I == 1..n
           a == [i \in I |-> A * w[i]]
           b == [i \in I |-> W * q[i]]
           c == [i \in I |-> W - 1]
           d == [i \in I |-> b[i] + c[i]]
           s == SumFunctionOnSet(q, I)
<1>1. IsFiniteSet(I)
  <2>1. 1 \in Int /\ n \in Int
    OBVIOUS
  <2> QED BY <2>1, FS_Interval
<1>2. \A i \in I : q[i] \in Int /\ W * q[i] <= A * w[i] /\ A * w[i] <= W * q[i] + (W - 1)
  <2> SUFFICES ASSUME NEW i \in I
               PROVE  /\ q[i] \in Int /\ W * q[i] <= A * w[i]
                      /\ A * w[i] <= W * q[i] + (W - 1)
    OBVIOUS
  <2>1. A * w[i] \in Int /\ q[i] = (A * w[i]) \div W
    OBVIOUS
  <2> HIDE DEF I
  <2> QED BY <2>1, QuotientBounds
<1>3. \A i \in I : /\ a[i] \in Int /\ b[i] \in Int /\ c[i] \in Int /\ c[i] = W - 1
                   /\ d[i] \in Int /\ d[i] = b[i] + c[i] /\ b[i] <= a[i] /\ a[i] <= d[i]
                   /\ w[i] \in Int /\ a[i] = A * w[i] /\ q[i] \in Int /\ b[i] = W * q[i]
  BY <1>2
<1> HIDE DEF a, b, c, d
<1>4. SumFunctionOnSet(a, I) = A * W
  <2>1. SumFunctionOnSet(a, I) = A * SumFunctionOnSet(w, I)
    <3> HIDE DEF I
    <3> QED BY <1>1, <1>3, SumScaled
  <2> QED BY <2>1
<1>5. s \in Int /\ SumFunctionOnSet(b, I) = W * s
  <2> HIDE DEF I
  <2>1. s \in Int
    BY <1>1, <1>3, SumType
  <2>2. W \in Int /\ \A i \in I : q[i] \in Int /\ b[i] = W * q[i]
    BY <1>3
  <2>3. SumFunctionOnSet(b, I) = W * s
    BY <1>1, <2>2, SumScaled
  <2> QED BY <2>1, <2>3
<1>6. SumFunctionOnSet(c, I) = n * (W - 1)
  BY <1>3, SumConstant
<1>7. SumFunctionOnSet(d, I) = SumFunctionOnSet(b, I) + SumFunctionOnSet(c, I)
  <2> HIDE DEF I
  <2> QED BY <1>1, <1>3, SumOfSums
<1>8. SumFunctionOnSet(b, I) <= SumFunctionOnSet(a, I)
  <2> HIDE DEF I
  <2> QED BY <1>1, <1>3, SumMonotone
<1>9. SumFunctionOnSet(a, I) <= SumFunctionOnSet(d, I)
  <2> HIDE DEF I
  <2> QED BY <1>1, <1>3, SumMonotone
<1>10. W * s <= A * W /\ A * W <= W * s + n * (W - 1)
  BY <1>4, <1>5, <1>6, <1>7, <1>8, <1>9
<1> HIDE DEF s
<1>11. A * W = W * A /\ W * A \in Int /\ W * s \in Int
  BY <1>5
<1>12. s <= A
  <2> SUFFICES ASSUME s > A PROVE FALSE
    BY <1>5
  <2>1. W * s >= W * A + W
    BY <1>5, ProductGrows
  <2> QED BY <1>10, <1>11, <2>1
<1>13. A < s + n
  <2> SUFFICES ASSUME ~ (A < s + n) PROVE FALSE
    OBVIOUS
  <2>1. A > s + n - 1 /\ s + n - 1 \in Int
    BY <1>5
  <2>2. W * A >= W * (s + n - 1) + W
    BY <2>1, ProductGrows
  <2>3. W * (s + n - 1) = W * s + W * n - W /\ W * n \in Int /\ n * (W - 1) = W * n - n
    BY <1>5
  <2> QED BY <1>10, <1>11, <2>2, <2>3
<1> QED BY <1>5, <1>12, <1>13 DEF s

LEMMA GreatestOfThree ==
  ASSUME NEW a \in Int, NEW b \in Int, NEW c \in Int
  PROVE  Max({a, b, c}) \in Int /\ Max({a, b, c}) >= c
<1> DEFINE S == {a, b, c}
           m == IF a >= b /\ a >= c THEN a ELSE IF b >= c THEN b ELSE c
<1>1. m \in S /\ \A z \in S : m >= z
  OBVIOUS
<1>2. S \subseteq Int /\ c \in S
  OBVIOUS
<1> HIDE DEF m, S
<1>3. Max(S) \in S /\ \A z \in S : Max(S) >= z
  BY <1>1 DEF Max
<1> QED BY <1>2, <1>3 DEF S

LEMMA ClampType == ASSUME NEW v \in Int PROVE Clamp01(v) \in Int
<1> DEFINE m == Min({v, One})
<1>1. One \in Int
  BY DEF One
<1>2. m \in Int
  BY <1>1, LesserOfTwo
<1> HIDE DEF m
<1>3. Max({0, m}) \in Int
  BY <1>2, GreaterOfTwo
<1> QED BY <1>3 DEF Clamp01, m

AllocationSignal == [confidence : Int, stability : Int, drawdown : Int,
                     volatility : Int, cost : Int]

LEMMA ScoreIsPositive ==
  ASSUME NEW s \in AllocationSignal, ValidSignal(s)
  PROVE  Score(s) \in Nat \ {0}
<1>1. /\ s.confidence \in Int /\ s.stability \in Int /\ s.drawdown \in Int
      /\ s.volatility \in Nat /\ s.cost \in Nat
  BY DEF AllocationSignal, ValidSignal
<1>2. One \in Int /\ Clamp01(s.confidence) \in Int /\ Clamp01(s.stability) \in Int
  BY <1>1, ClampType DEF One
<1>3. One - Clamp01((s.drawdown * One) \div MaxDrawdown) \in Int
  <2> DEFINE v == (s.drawdown * One) \div MaxDrawdown
  <2>1. s.drawdown * One \in Int
    BY <1>1, <1>2
  <2>2. v \in Int
    BY <2>1, AllocatorFacts, QuotientBounds
  <2> HIDE DEF v
  <2>3. Clamp01(v) \in Int
    BY <2>2, ClampType
  <2> QED BY <1>2, <2>3 DEF v
<1>4. (TargetVolatility * One) \div (s.volatility + TargetVolatility) \in Int
  <2>1. TargetVolatility * One \in Int /\ s.volatility + TargetVolatility \in Nat \ {0}
    BY <1>1, <1>2, AllocatorFacts
  <2> QED BY <2>1, QuotientBounds
<1>5. (CostBudget * One) \div (s.cost + CostBudget) \in Int
  <2>1. CostBudget * One \in Int /\ s.cost + CostBudget \in Nat \ {0}
    BY <1>1, <1>2, AllocatorFacts
  <2> QED BY <2>1, QuotientBounds
<1> DEFINE factor == [k \in 1..5 |-> Components(s)[k] * FactorWeights[k]]
<1>6. \A k \in 1..5 : factor[k] \in Int
  <2> SUFFICES ASSUME NEW k \in 1..5 PROVE factor[k] \in Int
    OBVIOUS
  <2>1. Components(s)[k] \in Int
    BY <1>2, <1>3, <1>4, <1>5 DEF Components
  <2>2. FactorWeights[k] \in Int
    BY AllocatorFacts
  <2>3. \A a, b \in Int : a * b \in Int
    OBVIOUS
  <2> QED BY <2>1, <2>2, <2>3
<1>7. SumFunction(factor) \in Int /\ SumFunction(FactorWeights) \in Nat \ {0}
  <2>1. IsFiniteSet(1..5)
    <3>1. 1 \in Int /\ 5 \in Int
      OBVIOUS
    <3> QED BY <3>1, FS_Interval
  <2>2. DOMAIN factor = 1..5
    OBVIOUS
  <2>3. SumFunctionOnSet(factor, 1..5) \in Int
    <3> HIDE DEF factor
    <3> QED BY <1>6, <2>1, SumType
  <2>4. SumFunction(factor) = SumFunctionOnSet(factor, 1..5)
    BY <2>2 DEF SumFunction
  <2>5. SumFunction(FactorWeights) = SumFunctionOnSet(FactorWeights, 1..5)
    BY AllocatorFacts DEF SumFunction
  <2>6. \A k \in 1..5 : FactorWeights[k] \in Int
    BY AllocatorFacts
  <2>7. SumFunctionOnSet(FactorWeights, 1..5) \in Int
    BY <2>1, <2>6, SumType
  <2> QED BY <2>3, <2>4, <2>5, <2>7, AllocatorFacts
<1> DEFINE a == SumFunction(factor) \div SumFunction(FactorWeights)
           b == (MinWeight * One) \div (2 * Whole)
           c == One \div 100
<1>8. a \in Int
  <2> HIDE DEF factor
  <2> QED BY <1>7, QuotientBounds
<1>9. b \in Int
  <2>1. MinWeight * One \in Int /\ 2 * Whole \in Nat \ {0}
    BY <1>2, AllocatorFacts
  <2> QED BY <2>1, QuotientBounds
<1>10. c \in Int /\ c > 0
  BY DEF One
<1>11. Score(s) = Max({a, b, c})
  BY DEF Score
<1> HIDE DEF a, b, c
<1>12. Max({a, b, c}) \in Int /\ Max({a, b, c}) >= c
  BY <1>8, <1>9, <1>10, GreatestOfThree
<1> QED BY <1>10, <1>11, <1>12

LEMMA BaseType ==
  ASSUME NEW n \in Nat \ {0}, NEW scores \in [1..n -> Nat \ {0}]
  PROVE  Base(scores) \in [1..n -> Nat]
<1> DEFINE I == 1..n
           total == SumFunction(scores)
           ones == [i \in I |-> 1]
<1>1. IsFiniteSet(I)
  <2>1. 1 \in Int /\ n \in Int
    OBVIOUS
  <2> QED BY <2>1, FS_Interval
<1>2. total = SumFunctionOnSet(scores, I)
  <2>1. DOMAIN scores = I
    OBVIOUS
  <2> QED BY <2>1, Zenon DEF SumFunction
<1>3. \A i \in I : ones[i] \in Int /\ scores[i] \in Int /\ ones[i] <= scores[i] /\ ones[i] = 1
  OBVIOUS
<1>4. SumFunctionOnSet(ones, I) = n * 1
  <2> HIDE DEF ones
  <2> QED BY <1>3, SumConstant
<1>5. total \in Int /\ SumFunctionOnSet(ones, I) <= total
  <2> HIDE DEF ones, I, total
  <2>1. SumFunctionOnSet(scores, I) \in Int
    BY <1>1, <1>3, SumType
  <2>2. SumFunctionOnSet(ones, I) <= SumFunctionOnSet(scores, I)
    BY <1>1, <1>3, SumMonotone
  <2> QED BY <1>2, <2>1, <2>2
<1>6. total \in Nat \ {0}
  BY <1>4, <1>5
<1> HIDE DEF total
<1>7. ASSUME NEW i \in I PROVE (Whole * scores[i]) \div total \in Nat
  <2> DEFINE p == Whole * scores[i]
             q == p \div total
  <2>1. Whole \in Nat /\ scores[i] \in Nat
    BY AllocatorFacts
  <2>2. p \in Nat
    BY <2>1
  <2> HIDE DEF p
  <2>3. q \in Int /\ p <= total * q + (total - 1)
    <3>1. p \in Int /\ total \in Nat \ {0}
      BY <1>6, <2>2
    <3> QED BY <3>1, QuotientBounds
  <2> HIDE DEF q
  <2>4. q >= 0
    <3> SUFFICES ASSUME q < 0 PROVE FALSE
      BY <2>3
    <3>1. total * 0 >= total * q + total
      BY <1>6, <2>3, ProductGrows
    <3>2. total * 0 = 0 /\ total * q \in Int
      BY <1>6, <2>3
    <3> QED BY <1>6, <2>2, <2>3, <3>1, <3>2
  <2> QED BY <2>3, <2>4 DEF p, q
<1>8. DOMAIN scores = I
  OBVIOUS
<1>9. Base(scores) = [i \in I |-> (Whole * scores[i]) \div total]
  BY <1>8 DEF Base, total
<1> QED BY <1>7, <1>9

LEMMA ClampedType ==
  ASSUME NEW n \in Nat \ {0}, NEW base \in [1..n -> Nat], NEW w \in [1..n -> Int]
  PROVE  Clamped(base, w) \in [1..n -> Int]
<1> DEFINE I == 1..n
           bound(v) == Max({MinWeight, Min({v, MaxWeight})})
           free == {i \in I : bound(w[i]) = w[i]}
           held == [i \in I |-> bound(w[i])]
           remain == Whole - SumFunctionOnSet(held, I \ free)
           freeBase == SumFunctionOnSet(base, free)
<1>1. IsFiniteSet(I) /\ IsFiniteSet(free) /\ IsFiniteSet(I \ free)
  <2>1. 1 \in Int /\ n \in Int
    OBVIOUS
  <2>2. IsFiniteSet(I)
    BY <2>1, FS_Interval
  <2>3. free \subseteq I /\ I \ free \subseteq I
    OBVIOUS
  <2> HIDE DEF I, free
  <2> QED BY <2>2, <2>3, FS_Subset
<1>2. DOMAIN w = I
  OBVIOUS
<1>3. Clamped(base, w) = IF free = I THEN w
                         ELSE [i \in I |->
                                 IF i \notin free THEN bound(w[i])
                                 ELSE IF freeBase = 0 THEN remain \div Cardinality(free)
                                 ELSE (remain * base[i]) \div freeBase]
  BY <1>2 DEF Clamped
<1>4. ASSUME NEW i \in I PROVE bound(w[i]) \in Int
  <2> DEFINE m == Min({w[i], MaxWeight})
  <2>1. w[i] \in Int /\ MaxWeight \in Int /\ MinWeight \in Int
    BY AllocatorFacts
  <2>2. m \in Int
    BY <2>1, LesserOfTwo
  <2> HIDE DEF m
  <2>3. Max({MinWeight, m}) \in Int
    BY <2>1, <2>2, GreaterOfTwo
  <2> QED BY <2>3 DEF m
<1> HIDE DEF bound
<1>5. free \subseteq I /\ \A i \in I : base[i] \in Nat
  OBVIOUS
<1>6. remain \in Int
  <2>1. \A i \in I \ free : held[i] \in Int
    BY <1>4
  <2> HIDE DEF held, free, I
  <2>2. SumFunctionOnSet(held, I \ free) \in Int
    BY <1>1, <2>1, SumType
  <2> QED BY <2>2, AllocatorFacts
<1> HIDE DEF remain, free
<1>7. freeBase \in Nat
  <2> DEFINE zeros == [i \in free |-> 0]
  <2>1. \A i \in free : zeros[i] \in Int /\ zeros[i] = 0 /\ base[i] \in Int /\ zeros[i] <= base[i]
    BY <1>5
  <2> HIDE DEF zeros
  <2>2. SumFunctionOnSet(zeros, free) = 0
    BY <1>1, <2>1, SumZero
  <2>3. SumFunctionOnSet(zeros, free) <= SumFunctionOnSet(base, free)
    BY <1>1, <2>1, SumMonotone
  <2>4. SumFunctionOnSet(base, free) \in Int
    BY <1>1, <2>1, SumType
  <2> QED BY <2>2, <2>3, <2>4
<1> HIDE DEF freeBase
<1>8. ASSUME NEW i \in free PROVE remain \div Cardinality(free) \in Int
  <2>1. Cardinality(free) \in Nat /\ Cardinality(free) # 0
    BY <1>1, FS_CardinalityType, FS_EmptySet
  <2> DEFINE size == Cardinality(free)
  <2>2. size \in Nat \ {0}
    BY <2>1
  <2> HIDE DEF size
  <2>3. remain \div size \in Int
    BY <1>6, <2>2, QuotientBounds
  <2> QED BY <2>3 DEF size
<1>9. ASSUME NEW i \in I, freeBase # 0 PROVE (remain * base[i]) \div freeBase \in Int
  <2>1. remain * base[i] \in Int
    BY <1>5, <1>6
  <2>2. freeBase \in Nat \ {0}
    BY <1>7, <1>9
  <2> QED BY <2>1, <2>2, QuotientBounds
<1> DEFINE value(i) == IF i \notin free THEN bound(w[i])
                       ELSE IF freeBase = 0 THEN remain \div Cardinality(free)
                       ELSE (remain * base[i]) \div freeBase
<1>10. \A i \in I : value(i) \in Int
  BY <1>4, <1>8, <1>9
<1>11. Clamped(base, w) = IF free = I THEN w ELSE [i \in I |-> value(i)]
  BY <1>3
<1> HIDE DEF value
<1> QED BY <1>10, <1>11

\* One pass, and all of them.
OnePass(base, w) == LET next == Clamped(base, w) IN IF next = w THEN w ELSE next

AllPasses(base) ==
  LET pass(k, w) == LET next == Clamped(base, w) IN IF next = w THEN w ELSE next
  IN  FoldSet(pass, base, 1..Passes)

IsPassFold(h, base) ==
  h = [s \in SUBSET (1..Passes) |->
         IF s = {} THEN base ELSE OnePass(base, h[s \ {CHOOSE x \in s : TRUE}])]

LEMMA AllPassesType ==
  ASSUME NEW n \in Nat \ {0}, NEW base \in [1..n -> Nat]
  PROVE  AllPasses(base) \in [1..n -> Int]
<1> DEFINE Typ == [1..n -> Int]
           S == 1..Passes
           c == [s \in SUBSET S |-> CHOOSE x \in s : TRUE]
           H == [k \in S |-> [w \in Typ |-> OnePass(base, w)]]
<1>1. \A w \in Typ : OnePass(base, w) \in Typ
  BY ClampedType DEF OnePass
<1>2. IsFiniteSet(S)
  <2>1. 1 \in Int /\ Passes \in Int
    BY AllocatorFacts
  <2> QED BY <2>1, FS_Interval
<1>3. base \in Typ
  OBVIOUS
<1>4. H \in [S -> [Typ -> Typ]]
  <2> HIDE DEF Typ
  <2> QED BY <1>1
<1>5. Chooses(c, S)
  BY DEF Chooses
<1> HIDE DEF Typ
<1>6. PICK g \in [SUBSET S -> Typ] : IsFold(g, S, base, H, c)
  <2> HIDE DEF H, c, S
  <2> QED BY <1>2, <1>3, <1>4, <1>5, FoldExists
<1>7. \A s \in SUBSET S : s # {} =>
        H[c[s]][g[s \ {c[s]}]] = OnePass(base, g[s \ {CHOOSE x \in s : TRUE}])
  <2> SUFFICES ASSUME NEW s \in SUBSET S, s # {}
               PROVE  H[c[s]][g[s \ {c[s]}]] = OnePass(base, g[s \ {CHOOSE x \in s : TRUE}])
    OBVIOUS
  <2> DEFINE x == c[s]
  <2>1. x \in S /\ x = CHOOSE z \in s : TRUE
    OBVIOUS
  <2>2. g[s \ {x}] \in Typ
    BY <1>6
  <2>3. H[x][g[s \ {x}]] = OnePass(base, g[s \ {x}])
    <3> HIDE DEF x
    <3> QED BY <2>1, <2>2
  <2> QED BY <2>1, <2>3
<1>8. IsPassFold(g, base)
  <2>1. g = [s \in SUBSET S |->
               IF s = {} THEN base ELSE OnePass(base, g[s \ {CHOOSE x \in s : TRUE}])]
    BY <1>6, <1>7 DEF IsFold
  <2> QED BY <2>1 DEF IsPassFold
<1> DEFINE h == CHOOSE k : IsPassFold(k, base)
<1>9. IsPassFold(h, base)
  BY <1>8, Zenon
<1>10. AllPasses(base) = h[1..Passes]
  BY Zenon DEF AllPasses, FoldSet, MapThenFoldSet, IsPassFold, OnePass
<1> HIDE DEF h, S
<1> DEFINE Good == {s \in SUBSET S : h[s] \in Typ}
<1>11. {} \in Good
  BY <1>3, <1>9 DEF IsPassFold, S
<1>12. ASSUME NEW s \in SUBSET S, s # {} , s \notin Good,
              \A x \in s : s \ {x} \in Good
       PROVE  FALSE
  <2> DEFINE x == CHOOSE z \in s : TRUE
  <2>1. x \in s
    BY <1>12
  <2>2. h[s] = OnePass(base, h[s \ {x}])
    BY <1>9, <1>12 DEF IsPassFold, S
  <2>3. h[s \ {x}] \in Typ
    BY <1>12, <2>1
  <2> QED BY <1>1, <1>12, <2>2, <2>3
<1>13. S \in Good
  <2> DEFINE B == {s \in SUBSET S : s \notin Good}
  <2>1. SUFFICES ASSUME B # {} PROVE FALSE
    OBVIOUS
  <2>2. PICK s \in B : \A t \in B : t \subseteq s => t = s
    <3>1. B \subseteq SUBSET S OBVIOUS
    <3> HIDE DEF B
    <3> QED BY <1>2, <2>1, <3>1, MinimalSubset
  <2>3. s \in SUBSET S /\ s \notin Good
    OBVIOUS
  <2>4. s # {}
    BY <1>11, <2>3
  <2>5. ASSUME NEW x \in s PROVE s \ {x} \in Good
    <3>1. s \ {x} \in SUBSET S /\ s \ {x} # s /\ s \ {x} \subseteq s
      BY <2>3
    <3>2. s \ {x} \notin B
      <4> HIDE DEF B
      <4> QED BY <2>2, <3>1
    <3> QED BY <3>1, <3>2
  <2> HIDE DEF B, Good
  <2> QED BY <1>12, <2>3, <2>4, <2>5
<1> QED BY <1>10, <1>13 DEF S, Typ

\* All of the capital is given out, none of it twice, and none is taken: the
\* residual of the projection finds room because the bounds leave room for the
\* whole (capital_allocator.py:82-155, 185-263).
THEOREM AllocationAddsUp ==
  ASSUME NEW n \in Nat \ {0}, Feasible(n), NEW signals \in [1..n -> AllocationSignal],
         \A i \in 1..n : ValidSignal(signals[i]), NEW capital \in Int
  PROVE  LET a == AllocateCapital(signals, capital)
             given == a.reserve + SumFunction(a.capital)
         IN  /\ SumFunction(a.weights) = Whole
             /\ capital - n < given /\ given <= capital
<1> DEFINE scores == [i \in 1..n |-> Score(signals[i])]
           weights == ProjectWeights(scores)
           reserve == (capital * ReservePct) \div 100
           A == capital - reserve
           share == [i \in 1..n |-> (A * weights[i]) \div Whole]
           a == AllocateCapital(signals, capital)
<1>1. DOMAIN signals = 1..n
  OBVIOUS
<1>2. a.reserve = reserve /\ a.weights = weights /\ a.capital = share
  BY <1>1 DEF AllocateCapital
<1>3. scores \in [1..n -> Nat \ {0}]
  <2>1. \A i \in 1..n : signals[i] \in AllocationSignal /\ ValidSignal(signals[i])
    OBVIOUS
  <2>2. \A i \in 1..n : Score(signals[i]) \in Nat \ {0}
    BY <2>1, ScoreIsPositive
  <2> QED BY <2>2
<1> HIDE DEF scores, a
<1>4. weights = Settled(AllPasses(Base(scores)))
  BY Zenon DEF ProjectWeights, AllPasses
<1>5. Base(scores) \in [1..n -> Nat]
  BY <1>3, BaseType
<1>6. AllPasses(Base(scores)) \in [1..n -> Int]
  BY <1>5, AllPassesType
<1>7. weights \in [1..n -> Int] /\ SumFunctionOnSet(weights, 1..n) = Whole
  BY <1>4, <1>6, SettledIsWhole
<1> HIDE DEF weights
<1>8. SumFunction(weights) = Whole
  <2>1. DOMAIN weights = 1..n
    BY <1>7
  <2> QED BY <1>7, <2>1 DEF SumFunction
<1>9. reserve \in Int
  <2>1. capital * ReservePct \in Int
    BY AllocatorFacts
  <2> QED BY <2>1, QuotientBounds
<1> HIDE DEF reserve
<1>10. A \in Int
  BY <1>9
<1> HIDE DEF A
<1>11. \A i \in 1..n : weights[i] \in Int /\ share[i] = (A * weights[i]) \div Whole
  BY <1>7
<1>12. DOMAIN share = 1..n
  OBVIOUS
<1> HIDE DEF share
<1>13. LET s == SumFunctionOnSet(share, 1..n) IN s \in Int /\ A - n < s /\ s <= A
  <2>1. Whole \in Nat \ {0}
    BY AllocatorFacts
  <2> QED BY <1>7, <1>10, <1>11, <2>1, SharesAddUp
<1>14. SumFunction(share) = SumFunctionOnSet(share, 1..n)
  BY <1>12 DEF SumFunction
<1>15. capital - n < reserve + SumFunction(share) /\ reserve + SumFunction(share) <= capital
  BY <1>9, <1>13, <1>14 DEF A
<1> QED BY <1>2, <1>8, <1>15 DEF a

-----------------------------------------------------------------------------
(* Rows that become bars *)

LEMMA NormalizedNumbers ==
  ASSUME NEW row \in Rows, Normalizable(row), NEW f \in Numbers \cup {"ts"}
  PROVE  Normalize(row)[f] \in Int
<1> DEFINE raw == RemapAliases(row)
           named == {i \in DOMAIN row : row[i][1] \in Aliases[f]}
<1>1. f \in DOMAIN Aliases /\ "volume" \in DOMAIN Aliases
  BY RowsAssumption DEF Numbers, Required
<1>2. raw[f] = IF named = {} THEN Missing ELSE row[Max(named)][2]
  BY <1>1 DEF RemapAliases
<1>3. named # {} => Max(named) \in named
  <2>1. row \in Seq(Range(row))
    BY RowsAssumption
  <2>2. Len(row) \in Nat /\ DOMAIN row = 1..Len(row)
    BY <2>1
  <2>3. named \in SUBSET (1..Len(row))
    BY <2>2
  <2> HIDE DEF named
  <2> QED BY <2>2, <2>3, GreatestIsMember
<1>4. raw[f] \in {Missing, Unparsable} \/ raw[f] \in Int
  <2>1. CASE named = {}
    BY <1>2, <2>1
  <2>2. CASE named # {}
    <3>1. Max(named) \in DOMAIN row /\ row[Max(named)][1] \in Aliases[f]
      BY <1>3, <2>2
    <3> HIDE DEF named
    <3> QED BY <1>2, <2>2, <3>1, RowsAssumption
  <2> QED BY <2>1, <2>2
<1>5. raw[f] # Unparsable /\ (f \in Required => raw[f] # Missing)
  BY DEF Normalizable
<1>6. DOMAIN raw = DOMAIN Aliases
  BY DEF RemapAliases
<1>7. Normalize(row) = [raw EXCEPT !["volume"] = IF raw["volume"] = Missing THEN 0 ELSE raw["volume"]]
  BY DEF Normalize
<1> HIDE DEF raw
<1>8. CASE f = "volume"
  <2>1. Normalize(row)[f] = IF raw[f] = Missing THEN 0 ELSE raw[f]
    BY <1>1, <1>6, <1>7, <1>8
  <2> QED BY <1>4, <1>5, <2>1
<1>9. CASE f # "volume"
  <2>1. Normalize(row)[f] = raw[f]
    BY <1>1, <1>6, <1>7, <1>9
  <2>2. f \in Required
    BY <1>9 DEF Numbers, Required
  <2> QED BY <1>4, <1>5, <2>1, <2>2
<1> QED BY <1>8, <1>9

\* What a row without issues is.
Sound(b) ==
  b["volume"] >= 0 /\ \A f \in Prices : b["low"] <= b[f] /\ b[f] <= b["high"]

LEMMA PassedRow ==
  ASSUME NEW rows, NEW i, Issues(rows, i) = {}
  PROVE  /\ \A f \in Numbers \cup {"ts"} : rows[i][f] \in Int
         /\ Sound(rows[i])
         /\ \A j \in Timed(rows, i) : rows[j]["ts"] # rows[i]["ts"]
<1> DEFINE r == rows[i]
<1>1. r["ts"] \in Int
  BY DEF Issues
<1>2. /\ {c \in {"INVALID_NUMERIC"} : \E f \in Numbers : r[f] \notin Int} = {}
      /\ PriceIssues(r) = {}
      /\ {c \in {"NEGATIVE_VOLUME"} : r["volume"] \in Int /\ r["volume"] < 0} = {}
      /\ TimeIssues(rows, i) = {}
  BY <1>1 DEF Issues
<1>3. \A f \in Numbers : r[f] \in Int
  BY <1>2
<1>4. r["volume"] \in Int /\ \A f \in Prices : r[f] \in Int
  BY <1>3 DEF Numbers
<1>5. r["volume"] >= 0
  BY <1>2, <1>4
<1>6. r["low"] <= r["open"] /\ r["open"] <= r["high"]
  BY <1>2, <1>4 DEF PriceIssues
<1>7. r["low"] <= r["close"] /\ r["close"] <= r["high"]
  BY <1>2, <1>4 DEF PriceIssues
<1>8. r["open"] \in Int /\ r["close"] \in Int /\ r["high"] \in Int /\ r["low"] \in Int
  BY <1>4 DEF Prices
<1> HIDE DEF r
<1>9. Sound(r)
  BY <1>5, <1>6, <1>7, <1>8 DEF Sound, Prices
<1>10. \A j \in Timed(rows, i) : rows[j]["ts"] # rows[i]["ts"]
  BY <1>2 DEF TimeIssues
<1> QED BY <1>1, <1>3, <1>9, <1>10 DEF r

\* A fetch that succeeds returns every row that was asked for exactly once, in
\* time order and with possible prices, however many rows the file has, whatever
\* order they are in and whatever columns name their fields
\* (checklist.py:32-107, dictionary.py:33-56, sources.py:203-244).
THEOREM AdmittedRowsAreBars ==
  ASSUME NEW rows \in Seq(Rows), NEW symbol, NEW timeframe, NEW start \in Int,
         NEW end \in Int, Fetchable(rows, symbol, timeframe, start, end)
  PROVE  LET bars == RowsToBars(rows, symbol, timeframe, start, end)
             asked == {i \in DOMAIN rows :
                         LET r == Normalize(rows[i])
                         IN  r["symbol"] = symbol /\ r["timeframe"] = timeframe
                             /\ r["ts"] \in start..end}
         IN  /\ Len(bars) = Cardinality(asked)
             /\ \A i \in 1..(Len(bars) - 1) : bars[i]["ts"] < bars[i + 1]["ts"]
             /\ \A b \in Range(bars) : Sound(b)
<1> DEFINE all == [i \in DOMAIN rows |-> Normalize(rows[i])]
           Keep(i) == /\ all[i]["symbol"] = symbol /\ all[i]["timeframe"] = timeframe
                      /\ start <= all[i]["ts"] /\ all[i]["ts"] <= end
           I == {i \in DOMAIN all : Keep(i)}
           kept == Selected(rows, symbol, timeframe, start, end)
           n == Cardinality(I)
           key == [i \in DOMAIN kept |-> kept[i]["ts"]]
           bars == RowsToBars(rows, symbol, timeframe, start, end)
           asked == {i \in DOMAIN rows :
                       LET r == Normalize(rows[i])
                       IN  r["symbol"] = symbol /\ r["timeframe"] = timeframe
                           /\ r["ts"] \in start..end}
<1>1. Len(rows) \in Nat /\ DOMAIN rows = 1..Len(rows) /\ \A i \in DOMAIN rows : rows[i] \in Rows
  OBVIOUS
<1>2. \A i \in DOMAIN rows : Normalize(rows[i])["ts"] \in Int
  <2>1. "ts" \in Numbers \cup {"ts"}
    OBVIOUS
  <2>2. \A i \in DOMAIN rows : Normalizable(rows[i])
    BY DEF Fetchable
  <2> QED BY <1>1, <2>1, <2>2, NormalizedNumbers
<1>3. asked = I
  <2>1. \A i \in DOMAIN rows : all[i] = Normalize(rows[i])
    OBVIOUS
  <2>2. DOMAIN all = DOMAIN rows
    OBVIOUS
  <2>3. \A i \in DOMAIN rows : i \in asked <=> i \in I
    BY <1>2, <2>1, <2>2
  <2> QED BY <2>2, <2>3
<1>4. kept = Subsequence(all, I)
  BY DEF Selected
<1>5. I \subseteq Int /\ IsFiniteSet(I)
  <2>1. 1 \in Int /\ Len(rows) \in Int
    BY <1>1
  <2>2. IsFiniteSet(1..Len(rows))
    BY <2>1, FS_Interval
  <2>3. I \subseteq 1..Len(rows)
    BY <1>1
  <2>4. I \subseteq Int
    BY <2>3
  <2> DEFINE T == 1..Len(rows)
  <2> HIDE DEF I, T
  <2>5. IsFiniteSet(I)
    BY <2>2, <2>3, FS_Subset DEF T
  <2> QED BY <2>4, <2>5
<1> HIDE DEF asked, kept, bars, I
<1>6. n \in Nat /\ \E place : KeepsPlaces(place, all, I, n)
  <2> HIDE DEF all
  <2> QED BY <1>5, SubsequenceKeeps
<1>7. PICK place : KeepsPlaces(place, all, I, n)
  BY <1>6
<1> HIDE DEF n, all
<1>8. kept = [k \in 1..n |-> all[place[k]]]
  BY <1>4, <1>7 DEF KeepsPlaces
<1>9. DOMAIN kept = 1..n
  BY <1>8
<1>10. \A i \in 1..n : /\ \A f \in Numbers \cup {"ts"} : kept[i][f] \in Int
                       /\ Sound(kept[i])
                       /\ \A j \in Timed(kept, i) : kept[j]["ts"] # kept[i]["ts"]
  <2>1. Passed(kept)
    BY DEF Fetchable, kept
  <2>2. \A i \in 1..n : Issues(kept, i) = {}
    BY <1>9, <2>1 DEF Passed
  <2> QED BY <2>2, PassedRow
<1>11. key \in [1..n -> Int] /\ \A i \in 1..n : key[i] = kept[i]["ts"]
  <2>1. \A i \in 1..n : kept[i]["ts"] \in Int
    BY <1>10
  <2> QED BY <1>9, <2>1
<1>12. \A i, j \in 1..n : i < j => key[i] # key[j]
  <2> SUFFICES ASSUME NEW i \in 1..n, NEW j \in 1..n, i < j PROVE key[i] # key[j]
    OBVIOUS
  <2>1. i \in Timed(kept, j)
    BY <1>6, <1>10 DEF Timed
  <2> QED BY <1>10, <1>11, <2>1
<1> DEFINE e == SortedPlaces(key)
<1>13. bars = [k \in 1..n |-> kept[e[k]]]
  BY <1>9 DEF bars, RowsToBars, SortedBy, kept
<1> HIDE DEF key
<1>14. ListsPlaces(e, key, n)
  BY <1>6, <1>11, SortedPlacesList
<1> HIDE DEF e
<1>15. /\ \A i \in 1..n : e[i] \in 1..n
       /\ \A i, j \in 1..n : i < j => key[e[i]] <= key[e[j]] /\ e[i] # e[j]
  <2>1. \A i, j \in 1..n : i < j => i # j
    BY <1>6
  <2> QED BY <1>14, <2>1 DEF ListsPlaces
<1>16. Len(bars) = n /\ DOMAIN bars = 1..n
  BY <1>6, <1>13
<1>17. \A i \in 1..(n - 1) : bars[i]["ts"] < bars[i + 1]["ts"]
  <2> SUFFICES ASSUME NEW i \in 1..(n - 1) PROVE bars[i]["ts"] < bars[i + 1]["ts"]
    OBVIOUS
  <2>1. i \in 1..n /\ i + 1 \in 1..n /\ i < i + 1
    BY <1>6
  <2> DEFINE a == e[i]
             b == e[i + 1]
  <2>2. a \in 1..n /\ b \in 1..n /\ key[a] <= key[b] /\ a # b
    BY <1>15, <2>1
  <2>3. bars[i] = kept[a] /\ bars[i + 1] = kept[b]
    BY <1>13, <2>1
  <2> HIDE DEF a, b
  <2>4. key[a] \in Int /\ key[b] \in Int /\ key[a] # key[b]
    <3>1. a < b \/ b < a
      BY <1>6, <2>2
    <3> QED BY <1>11, <1>12, <2>2, <3>1
  <2> QED BY <1>11, <2>2, <2>3, <2>4
<1>18. \A b \in Range(bars) : Sound(b)
  <2> SUFFICES ASSUME NEW b \in Range(bars) PROVE Sound(b)
    OBVIOUS
  <2>1. PICK i \in 1..n : b = bars[i]
    BY <1>16 DEF Range
  <2>2. b = kept[e[i]] /\ e[i] \in 1..n
    BY <1>13, <1>15, <2>1
  <2> QED BY <1>10, <2>2
<1> QED BY <1>3, <1>16, <1>17, <1>18 DEF bars, asked, n

-----------------------------------------------------------------------------
(* Minutes that become bars *)

Bars == [ts : Int, open : Int, high : Int, low : Int, close : Int, volume : Int]

LEMMA BucketBounds ==
  ASSUME NEW a \in Int, NEW b \in Int, a <= b
  PROVE  /\ FloorToBucket(a) \in Int /\ FloorToBucket(a) <= a
         /\ a < FloorToBucket(a) + Bucket
         /\ FloorToBucket(a) <= FloorToBucket(b)
         /\ FloorToBucket(a) # FloorToBucket(b) => FloorToBucket(a) + Bucket <= FloorToBucket(b)
         /\ b < a + Bucket => FloorToBucket(b) <= FloorToBucket(a) + Bucket
<1> DEFINE p == a \div Bucket
           q == b \div Bucket
<1>1. Bucket \in Nat \ {0}
  BY BucketAssumption
<1>2. \A t \in Int : FloorToBucket(t) = Bucket * (t \div Bucket)
  BY <1>1 DEF FloorToBucket
<1>3. /\ p \in Int /\ Bucket * p <= a /\ a <= Bucket * p + (Bucket - 1)
      /\ q \in Int /\ Bucket * q <= b /\ b <= Bucket * q + (Bucket - 1)
  BY <1>1, QuotientBounds
<1>4. FloorToBucket(a) = Bucket * p /\ FloorToBucket(b) = Bucket * q
  BY <1>2
<1> HIDE DEF p, q
<1>5. Bucket * p \in Int /\ Bucket * q \in Int
  BY <1>1, <1>3
<1>6. ~ (p > q)
  <2> SUFFICES ASSUME p > q PROVE FALSE
    OBVIOUS
  <2>1. Bucket * p >= Bucket * q + Bucket
    BY <1>1, <1>3, ProductGrows
  <2> QED BY <1>1, <1>3, <1>5, <2>1
<1>7. p # q => Bucket * p + Bucket <= Bucket * q
  <2> SUFFICES ASSUME q > p PROVE Bucket * q >= Bucket * p + Bucket
    BY <1>1, <1>3, <1>5, <1>6
  <2> QED BY <1>1, <1>3, ProductGrows
<1>8. b < a + Bucket => Bucket * q <= Bucket * p + Bucket
  <2> SUFFICES ASSUME b < a + Bucket, Bucket * q > Bucket * p + Bucket PROVE FALSE
    BY <1>1, <1>5
  <2>1. Bucket * (p + 1) = Bucket * p + Bucket
    BY <1>1, <1>3
  <2>2. q > p + 1
    <3> SUFFICES ASSUME ~ (q > p + 1) PROVE FALSE
      OBVIOUS
    <3>1. p + 1 = q \/ p + 1 > q
      BY <1>3
    <3>2. p + 1 > q => Bucket * (p + 1) >= Bucket * q + Bucket
      BY <1>1, <1>3, ProductGrows
    <3> QED BY <1>1, <1>5, <2>1, <3>1, <3>2
  <2>3. Bucket * q >= Bucket * (p + 1) + Bucket
    BY <1>1, <1>3, <2>2, ProductGrows
  <2> QED BY <1>1, <1>3, <1>5, <2>1, <2>3
<1>9. p = q => Bucket * p = Bucket * q
  OBVIOUS
<1> QED BY <1>1, <1>3, <1>4, <1>5, <1>7, <1>8, <1>9

\* Between two bars at p and t there is one filler a minute, and no gap of a bucket.
LEMMA FillerTimes ==
  ASSUME NEW p \in Int, NEW t \in Int, p < t,
         NEW m, m = Max({0, (t - p) \div Minute - 1})
  PROVE  /\ m \in Nat /\ Minute \in Nat \ {0} /\ Minute < Bucket /\ Bucket \in Nat
         /\ \A i \in 0..m : i * Minute \in Int /\ p + i * Minute < t
         /\ \A i \in 0..(m - 1) : (i + 1) * Minute = i * Minute + Minute
         /\ t < p + m * Minute + Bucket
<1> DEFINE d == t - p
           q == d \div Minute
<1>1. Minute \in Nat \ {0} /\ Bucket \in Nat /\ Bucket >= 2 * Minute
  BY BucketAssumption
<1>2. d \in Nat /\ d > 0 /\ t = p + d
  OBVIOUS
<1>3. q \in Int /\ Minute * q <= d /\ d <= Minute * q + (Minute - 1)
  BY <1>1, <1>2, QuotientBounds
<1> HIDE DEF q
<1>4. m = IF 0 >= q - 1 THEN 0 ELSE q - 1
  <2>1. m = Max({0, q - 1})
    BY DEF q
  <2>2. q - 1 \in Int
    BY <1>3
  <2> QED BY <2>1, <2>2, GreaterOfTwo
<1> HIDE DEF d
<1>5. q >= 0
  <2> SUFFICES ASSUME 0 > q PROVE FALSE
    BY <1>3
  <2>1. Minute * 0 >= Minute * q + Minute
    BY <1>1, <1>3, ProductGrows
  <2>2. Minute * 0 = 0 /\ Minute * q \in Int
    BY <1>1, <1>3
  <2> QED BY <1>1, <1>2, <1>3, <2>1, <2>2
<1>6. m \in Nat
  BY <1>3, <1>4
<1>7. \A i \in 0..m : i * Minute \in Int /\ i * Minute = Minute * i
  BY <1>1, <1>6
<1>8. /\ Minute * m < d /\ d < Minute * m + Bucket /\ Minute * m \in Int
  <2>1. CASE q <= 1
    <3>1. m = 0 /\ Minute * m = 0
      BY <1>1, <1>3, <1>4, <2>1
    <3>2. q = 0 \/ q = 1
      BY <1>3, <1>5, <2>1
    <3>3. Minute * 0 = 0 /\ Minute * 1 = Minute
      BY <1>1
    <3> QED BY <1>1, <1>2, <1>3, <3>1, <3>2, <3>3
  <2>2. CASE q > 1
    <3>1. m = q - 1
      BY <1>3, <1>4, <2>2
    <3>2. Minute * m = Minute * q - Minute /\ Minute * q \in Int
      BY <1>1, <1>3, <3>1
    <3> QED BY <1>1, <1>2, <1>3, <3>2
  <2> QED BY <1>3, <2>1, <2>2
<1>9. ASSUME NEW i \in 0..m PROVE i * Minute \in Int /\ p + i * Minute < t
  <2>1. i * Minute = Minute * i /\ i * Minute \in Int
    BY <1>7
  <2>2. CASE i = m
    <3>1. i * Minute = Minute * m
      BY <2>1, <2>2
    <3> QED BY <1>2, <1>8, <3>1
  <2>3. CASE i # m
    <3>1. m > i
      BY <1>6, <2>3
    <3>2. Minute * m >= Minute * i + Minute
      BY <1>1, <1>6, <3>1, ProductGrows
    <3> QED BY <1>1, <1>2, <1>8, <2>1, <3>2
  <2> QED BY <2>2, <2>3
<1>10. \A i \in 0..(m - 1) : (i + 1) * Minute = i * Minute + Minute
  BY <1>1, <1>6
<1>11. t < p + m * Minute + Bucket
  <2>1. m * Minute = Minute * m
    <3>1. m \in 0..m
      BY <1>6
    <3> HIDE DEF q
    <3> QED BY <1>7, <3>1
  <2> QED BY <1>1, <1>2, <1>8, <2>1
<1>12. Minute < Bucket
  BY <1>1
<1> HIDE DEF q
<1> QED BY <1>1, <1>6, <1>9, <1>10, <1>11, <1>12

LEMMA StartedParts ==
  ASSUME NEW bar \in Bars
  PROVE  /\ Started(bar) \in Bars /\ Started(bar).ts = FloorToBucket(bar.ts)
         /\ Started(bar).volume = bar.volume /\ Started(bar).close = bar.close
         /\ Started(bar).low <= bar.low /\ bar.high <= Started(bar).high
         /\ Started(bar).low <= Started(bar).open /\ Started(bar).open <= Started(bar).high
<1>1. /\ bar.ts \in Int /\ bar.open \in Int /\ bar.high \in Int /\ bar.low \in Int
      /\ bar.close \in Int /\ bar.volume \in Int
  BY DEF Bars
<1>2. FloorToBucket(bar.ts) \in Int
  BY <1>1, BucketBounds
<1> DEFINE hi == Max({bar.high, bar.open})
           lo == Min({bar.low, bar.open})
<1>3. hi = IF bar.high >= bar.open THEN bar.high ELSE bar.open
  BY <1>1, GreaterOfTwo
<1>4. lo = IF bar.low <= bar.open THEN bar.low ELSE bar.open
  BY <1>1, LesserOfTwo
<1>5. Started(bar) = [bar EXCEPT !.ts = FloorToBucket(bar.ts), !.high = hi, !.low = lo]
  BY DEF Started
<1> HIDE DEF hi, lo
<1>6. hi \in Int /\ lo \in Int
  BY <1>1, <1>3, <1>4
<1>7. /\ Started(bar) \in Bars /\ Started(bar).ts = FloorToBucket(bar.ts)
      /\ Started(bar).volume = bar.volume /\ Started(bar).close = bar.close
      /\ Started(bar).high = hi /\ Started(bar).low = lo /\ Started(bar).open = bar.open
  BY <1>1, <1>2, <1>5, <1>6 DEF Bars
<1> QED BY <1>1, <1>3, <1>4, <1>6, <1>7

LEMMA AddedParts ==
  ASSUME NEW b \in Bars, NEW bar \in Bars
  PROVE  /\ Added(b, bar) \in Bars /\ Added(b, bar).ts = b.ts /\ Added(b, bar).open = b.open
         /\ Added(b, bar).volume = b.volume + bar.volume /\ Added(b, bar).close = bar.close
         /\ Added(b, bar).low <= b.low /\ b.high <= Added(b, bar).high
         /\ Added(b, bar).low <= bar.low /\ bar.high <= Added(b, bar).high
<1>1. /\ b.ts \in Int /\ b.open \in Int /\ b.high \in Int /\ b.low \in Int
      /\ b.close \in Int /\ b.volume \in Int
      /\ bar.high \in Int /\ bar.low \in Int /\ bar.close \in Int /\ bar.volume \in Int
  BY DEF Bars
<1> DEFINE hi == Max({b.high, bar.high})
           lo == Min({b.low, bar.low})
           sum == b.volume + bar.volume
<1>2. hi = IF b.high >= bar.high THEN b.high ELSE bar.high
  BY <1>1, GreaterOfTwo
<1>3. lo = IF b.low <= bar.low THEN b.low ELSE bar.low
  BY <1>1, LesserOfTwo
<1>4. Added(b, bar) = [b EXCEPT !.high = hi, !.low = lo, !.close = bar.close, !.volume = sum]
  BY DEF Added
<1>5. hi \in Int /\ lo \in Int /\ sum \in Int
  BY <1>1, <1>2, <1>3
<1> HIDE DEF hi, lo, sum
<1>6. /\ Added(b, bar) \in Bars /\ Added(b, bar).ts = b.ts /\ Added(b, bar).open = b.open
      /\ Added(b, bar).volume = sum /\ Added(b, bar).close = bar.close
      /\ Added(b, bar).high = hi /\ Added(b, bar).low = lo
  BY <1>1, <1>4, <1>5 DEF Bars
<1> QED BY <1>1, <1>2, <1>3, <1>5, <1>6 DEF sum

FillerCount(p, t) == Max({0, (t - p) \div Minute - 1})

\* new is out, n bars, with m fillers and a bar appended.
Extends(new, out, bar, n, m) ==
  /\ new \in Seq(Bars) /\ Len(new) = n + m + 1
  /\ \A i \in 1..n : new[i] = out[i]
  /\ \A i \in 1..m : /\ new[n + i].ts = out[n].ts + i * Minute
                     /\ new[n + i].close = out[n].close /\ new[n + i].volume = 0
  /\ new[n + m + 1] = bar

LEMMA FunctionIsSequence ==
  ASSUME NEW T, NEW m \in Nat, NEW F \in [1..m -> T]
  PROVE  F \in Seq(T) /\ Len(F) = m
OBVIOUS

LEMMA Concatenated ==
  ASSUME NEW T, NEW a \in Seq(T), NEW b \in Seq(T), NEW new, new = a \o b
  PROVE  /\ new \in Seq(T) /\ Len(new) = Len(a) + Len(b)
         /\ \A i \in 1..Len(a) : new[i] = a[i]
         /\ \A i \in 1..Len(b) : new[Len(a) + i] = b[i]
OBVIOUS

LEMMA Joined ==
  ASSUME NEW T, NEW a \in Seq(T), NEW f \in Seq(T), NEW x \in T,
         NEW n, n = Len(a), NEW m, m = Len(f), NEW new, new = (a \o f) \o <<x>>
  PROVE  /\ new \in Seq(T) /\ Len(new) = n + m + 1
         /\ \A i \in 1..n : new[i] = a[i]
         /\ \A i \in 1..m : new[n + i] = f[i]
         /\ new[n + m + 1] = x
<1> DEFINE g == a \o f
           b == <<x>>
<1>1. n \in Nat /\ m \in Nat
  OBVIOUS
<1>2. /\ g \in Seq(T) /\ Len(g) = n + m
      /\ \A i \in 1..n : g[i] = a[i]
      /\ \A i \in 1..m : g[n + i] = f[i]
  BY Concatenated
<1>3. b \in Seq(T) /\ Len(b) = 1 /\ b[1] = x /\ 1 \in 1..Len(b)
  OBVIOUS
<1>4. new = g \o b
  OBVIOUS
<1> HIDE DEF g, b
<1>5. /\ new \in Seq(T) /\ Len(new) = Len(g) + Len(b)
      /\ \A i \in 1..Len(g) : new[i] = g[i]
      /\ \A i \in 1..Len(b) : new[Len(g) + i] = b[i]
  BY <1>2, <1>3, <1>4, Concatenated
<1>6. Len(new) = n + m + 1 /\ new[n + m + 1] = x
  BY <1>1, <1>2, <1>3, <1>5
<1>7. /\ \A i \in 1..n : i \in 1..Len(g)
      /\ \A i \in 1..m : n + i \in 1..Len(g)
  BY <1>1, <1>2
<1> QED BY <1>2, <1>5, <1>6, <1>7

\* F has m bars, a minute from each other, flat at the close of prev.
Fills(F, prev, m) ==
  /\ F \in Seq(Bars) /\ Len(F) = m
  /\ \A i \in 1..m : /\ F[i].ts = prev.ts + i * Minute
                     /\ F[i].close = prev.close /\ F[i].volume = 0

LEMMA FillersAre ==
  ASSUME NEW prev \in Bars, NEW bar \in Bars, NEW m, m = FillerCount(prev.ts, bar.ts)
  PROVE  Fills(Fillers(prev, bar), prev, m)
<1> DEFINE F == Fillers(prev, bar)
           p == prev.ts
           t == bar.ts
           v(x) == [ts |-> x, open |-> prev.close, high |-> prev.close,
                    low |-> prev.close, close |-> prev.close, volume |-> 0]
<1>1. p \in Int /\ t \in Int /\ prev.close \in Int
  BY DEF Bars
<1>2. m = Max({0, (t - p) \div Minute - 1})
  BY DEF FillerCount
<1>3. F = [i \in 1..m |-> v(p + i * Minute)]
  BY DEF Fillers, FillerCount
<1>4. \A x \in Int : v(x) \in Bars /\ v(x).ts = x /\ v(x).close = prev.close /\ v(x).volume = 0
  BY <1>1 DEF Bars
<1> HIDE DEF p, t, v, F
<1>5. m \in Nat /\ \A i \in 0..m : i * Minute \in Int
  <2>1. Minute \in Nat \ {0}
    BY BucketAssumption
  <2>2. (t - p) \div Minute - 1 \in Int
    BY <1>1, <2>1
  <2>3. m \in Nat
    <3> DEFINE q == (t - p) \div Minute - 1
    <3>1. m = Max({0, q})
      BY <1>2
    <3>2. q \in Int
      BY <2>2
    <3> HIDE DEF q
    <3> QED BY <3>1, <3>2, GreaterOfTwo
  <2>4. \A x \in Nat : x * Minute \in Int
    BY <2>1
  <2> QED BY <2>3, <2>4
<1>6. \A i \in 1..m : p + i * Minute \in Int
  <2> TAKE i \in 1..m
  <2>1. i \in 0..m
    BY <1>5
  <2>2. i * Minute \in Int
    BY <1>5, <2>1
  <2> QED BY <1>1, <2>2
<1> DEFINE w(i) == p + i * Minute
<1>7. /\ \A i \in 1..m : w(i) \in Int
      /\ F = [i \in 1..m |-> v(w(i))]
  BY <1>3, <1>6
<1> HIDE DEF w
<1>8. F \in [1..m -> Bars]
  BY <1>4, <1>7
<1>9. F \in Seq(Bars) /\ Len(F) = m
  <2>1. m \in Nat
    BY <1>5
  <2> QED BY <1>8, <2>1, FunctionIsSequence
<1>10. \A i \in 1..m : F[i].ts = w(i) /\ F[i].close = prev.close /\ F[i].volume = 0
  BY <1>4, <1>7
<1> QED BY <1>9, <1>10 DEF Fills, F, w, p

\* new is a, then f, then x.
Joins(new, a, f, x) ==
  /\ new \in Seq(Bars) /\ Len(new) = Len(a) + Len(f) + 1
  /\ \A i \in 1..Len(a) : new[i] = a[i]
  /\ \A i \in 1..Len(f) : new[Len(a) + i] = f[i]
  /\ new[Len(a) + Len(f) + 1] = x

LEMMA ExtendedJoins ==
  ASSUME NEW out \in Seq(Bars), out # <<>>, NEW bar \in Bars,
         Fillers(out[Len(out)], bar) \in Seq(Bars)
  PROVE  Joins(Extended(out, bar), out, Fillers(out[Len(out)], bar), bar)
<1>1. PICK F \in Seq(Bars) : F = Fillers(out[Len(out)], bar)
  OBVIOUS
<1>2. PICK new : new = Extended(out, bar)
  OBVIOUS
<1>3. new = (out \o F) \o <<bar>>
  BY <1>1, <1>2 DEF Extended, Last
<1>4. Joins(new, out, F, bar)
  BY <1>3, Joined DEF Joins
<1> QED BY <1>1, <1>2, <1>4

LEMMA ExtendedParts ==
  ASSUME NEW out \in Seq(Bars), out # <<>>, NEW n, n = Len(out), NEW bar \in Bars,
         out[n].ts < bar.ts, NEW m, m = FillerCount(out[n].ts, bar.ts)
  PROVE  Extends(Extended(out, bar), out, bar, n, m)
<1>1. out[n] \in Bars
  OBVIOUS
<1>2. PICK F : F = Fillers(out[n], bar)
  OBVIOUS
<1>3. Fills(F, out[n], m)
  BY <1>1, <1>2, FillersAre
<1>4. /\ F \in Seq(Bars) /\ Len(F) = m
      /\ \A i \in 1..m : /\ F[i].ts = out[n].ts + i * Minute
                         /\ F[i].close = out[n].close /\ F[i].volume = 0
  BY <1>3 DEF Fills
<1>5. PICK new : new = Extended(out, bar)
  OBVIOUS
<1>6. Fillers(out[Len(out)], bar) \in Seq(Bars)
  BY <1>2, <1>4
<1>7. Joins(new, out, F, bar)
  BY <1>2, <1>5, <1>6, ExtendedJoins
<1>8. /\ new \in Seq(Bars) /\ Len(new) = n + m + 1
      /\ \A i \in 1..n : new[i] = out[i]
      /\ \A i \in 1..m : new[n + i] = F[i]
      /\ new[n + m + 1] = bar
  BY <1>4, <1>7 DEF Joins
<1>9. \A i \in 1..m : /\ new[n + i].ts = out[n].ts + i * Minute
                      /\ new[n + i].close = out[n].close /\ new[n + i].volume = 0
  BY <1>4, <1>8
<1> QED BY <1>5, <1>8, <1>9 DEF Extends

\* b is the last bar of S that is not after ts.
LatestAt(b, S, ts) == b.ts <= ts /\ \A c \in S : c.ts <= ts => c.ts <= b.ts

\* Where the stream ends, and that it is in time order.
EndsIn(stream, S) ==
  /\ stream # <<>> /\ Last(stream) \in S
  /\ \A b \in S : b.ts <= Last(stream).ts
  /\ \A i \in DOMAIN stream : stream[i].ts <= Last(stream).ts

InOrder(stream) == \A i \in 1..(Len(stream) - 1) : stream[i].ts < stream[i + 1].ts

Dense(stream) == \A i \in 1..(Len(stream) - 1) : stream[i + 1].ts < stream[i].ts + Bucket

\* A stream has the bars of S, and between them bars without volume at the last
\* close.
Carries(stream, S) ==
  /\ \A b \in S : \E i \in DOMAIN stream : stream[i] = b
  /\ \A i \in DOMAIN stream :
       /\ stream[i] \in S \/ stream[i].volume = 0
       /\ \E b \in S : LatestAt(b, S, stream[i].ts) /\ stream[i].close = b.close

Streams(stream, S) ==
  stream \in Seq(Bars) /\ EndsIn(stream, S) /\ InOrder(stream) /\ Carries(stream, S)

LEMMA ExtendedStreams ==
  ASSUME NEW S, S \subseteq Bars, NEW out, Streams(out, S), Dense(out),
         NEW bar \in Bars, Last(out).ts < bar.ts
  PROVE  /\ Streams(Extended(out, bar), S \cup {bar}) /\ Dense(Extended(out, bar))
         /\ Last(Extended(out, bar)) = bar
<1> DEFINE n == Len(out)
           prev == out[n]
           m == FillerCount(prev.ts, bar.ts)
           new == Extended(out, bar)
           R == S \cup {bar}
<1>1. /\ out \in Seq(Bars) /\ out # <<>> /\ n \in Nat \ {0} /\ DOMAIN out = 1..n
      /\ prev = Last(out) /\ prev \in S /\ prev \in Bars
  BY DEF Streams, EndsIn, Last
<1>2. prev.ts \in Int /\ bar.ts \in Int /\ prev.ts < bar.ts
      /\ \A i \in 1..n : out[i].ts \in Int
  <2>1. \A b \in Bars : b.ts \in Int
    BY DEF Bars
  <2>2. \A i \in 1..n : out[i] \in Bars
    BY <1>1
  <2> HIDE DEF prev, n
  <2> QED BY <1>1, <2>1, <2>2
<1>3. Extends(new, out, bar, n, m)
  BY <1>1, <1>2, ExtendedParts
<1>4. /\ m \in Nat /\ Minute \in Nat \ {0} /\ Minute < Bucket /\ Bucket \in Nat
      /\ \A i \in 0..m : i * Minute \in Int /\ prev.ts + i * Minute < bar.ts
      /\ \A i \in 0..(m - 1) : (i + 1) * Minute = i * Minute + Minute
      /\ bar.ts < prev.ts + m * Minute + Bucket
  BY <1>2, FillerTimes DEF FillerCount
<1> HIDE DEF m, n, new, prev
<1>5. /\ new \in Seq(Bars) /\ Len(new) = n + m + 1 /\ DOMAIN new = 1..(n + m + 1)
      /\ \A i \in 1..n : new[i] = out[i]
      /\ new[n + m + 1] = bar /\ Last(new) = bar /\ new # <<>>
  <2>1. new # <<>>
    BY <1>1, <1>3, <1>4 DEF Extends
  <2> QED BY <1>1, <1>3, <1>4, <2>1 DEF Extends, Last
<1>6. \A i \in 0..m : /\ new[n + i].ts = prev.ts + i * Minute
                      /\ new[n + i].close = prev.close
                      /\ i # 0 => new[n + i].volume = 0
  <2> SUFFICES ASSUME NEW i \in 0..m
               PROVE  /\ new[n + i].ts = prev.ts + i * Minute
                      /\ new[n + i].close = prev.close
                      /\ i # 0 => new[n + i].volume = 0
    OBVIOUS
  <2>1. CASE i = 0
    <3>1. n + i = n /\ n \in 1..n /\ i * Minute = 0
      BY <1>1, <1>4, <2>1
    <3>2. new[n + i] = prev
      BY <1>5, <3>1 DEF prev
    <3> QED BY <1>2, <2>1, <3>1, <3>2
  <2>2. CASE i # 0
    BY <1>3, <1>4, <2>2 DEF Extends, prev
  <2> QED BY <2>1, <2>2
<1>7. \A i \in 1..(n + m + 1) : \/ i \in 1..n \/ i = n + m + 1
                                \/ \E k \in 1..m : i = n + k
  <2> SUFFICES ASSUME NEW i \in 1..(n + m + 1), i \notin 1..n, i # n + m + 1
               PROVE  \E k \in 1..m : i = n + k
    OBVIOUS
  <2>1. i - n \in 1..m /\ i = n + (i - n)
    BY <1>1, <1>4
  <2> QED BY <2>1
<1>8. \A i \in 1..n : out[i].ts <= prev.ts /\ \E b \in S : LatestAt(b, S, out[i].ts)
                                                           /\ out[i].close = b.close
  BY <1>1 DEF Streams, EndsIn, Carries
<1>9. EndsIn(new, R)
  <2>1. \A b \in R : b.ts <= bar.ts
    <3>1. \A b \in S : b.ts <= prev.ts /\ b.ts \in Int
      BY <1>1 DEF Streams, EndsIn, Bars
    <3> QED BY <1>2, <3>1
  <2>2. ASSUME NEW i \in DOMAIN new PROVE new[i].ts <= bar.ts
    <3>1. CASE i \in 1..n
      BY <1>2, <1>5, <1>8, <3>1
    <3>2. CASE i = n + m + 1
      BY <1>2, <1>5, <3>2
    <3>3. CASE \E k \in 1..m : i = n + k
      BY <1>2, <1>4, <1>6, <3>3
    <3> QED BY <1>5, <1>7, <3>1, <3>2, <3>3
  <2> QED BY <1>5, <2>1, <2>2 DEF EndsIn
<1>10. ASSUME NEW i \in 1..(n + m)
       PROVE  /\ new[i].ts < new[i + 1].ts /\ new[i + 1].ts < new[i].ts + Bucket
  <2>1. CASE i \in 1..(n - 1)
    <3>1. i \in 1..n /\ i + 1 \in 1..n
      BY <1>1, <2>1
    <3>2. out[i].ts < out[i + 1].ts /\ out[i + 1].ts < out[i].ts + Bucket
      BY <1>1, <2>1 DEF Streams, InOrder, Dense, n
    <3> QED BY <1>5, <3>1, <3>2
  <2>2. CASE i \in n..(n + m - 1)
    <3> DEFINE k == i - n
    <3>1. /\ k \in 0..(m - 1) /\ k \in 0..m /\ k + 1 \in 0..m /\ n + k = i
          /\ n + (k + 1) = i + 1
      BY <1>1, <1>4, <2>2
    <3> HIDE DEF k
    <3>2. /\ new[i].ts = prev.ts + k * Minute
          /\ new[i + 1].ts = prev.ts + (k + 1) * Minute
          /\ (k + 1) * Minute = k * Minute + Minute /\ k * Minute \in Int
      BY <1>4, <1>6, <3>1
    <3> QED BY <1>2, <1>4, <3>2
  <2>3. CASE i = n + m
    <3>1. new[i].ts = prev.ts + m * Minute /\ m * Minute \in Int /\ m \in 0..m
      BY <1>4, <1>6, <2>3
    <3>2. new[i + 1] = bar
      BY <1>5, <2>3
    <3> QED BY <1>2, <1>4, <3>1, <3>2
  <2> QED BY <1>1, <1>4, <2>1, <2>2, <2>3
<1>11. InOrder(new) /\ Dense(new)
  <2>1. Len(new) - 1 = n + m
    BY <1>1, <1>4, <1>5
  <2> QED BY <1>10, <2>1 DEF InOrder, Dense
<1>12. Carries(new, R)
  <2>1. ASSUME NEW b \in R PROVE \E i \in DOMAIN new : new[i] = b
    <3>1. CASE b = bar
      <4>1. n + m + 1 \in DOMAIN new
        BY <1>1, <1>4, <1>5
      <4> QED BY <1>5, <3>1, <4>1
    <3>2. CASE b \in S
      <4>1. PICK i \in 1..n : out[i] = b
        BY <1>1, <3>2 DEF Streams, Carries
      <4>2. i \in 1..(n + m + 1)
        BY <1>1, <1>4
      <4> QED BY <1>5, <4>1, <4>2
    <3> QED BY <3>1, <3>2
  <2>2. ASSUME NEW i \in DOMAIN new PROVE new[i] \in R \/ new[i].volume = 0
    <3>1. i \in 1..n => out[i] \in S \/ out[i].volume = 0
      BY <1>1 DEF Streams, Carries
    <3>2. \A k \in 1..m : new[n + k].volume = 0
      BY <1>4, <1>6
    <3> QED BY <1>5, <1>7, <3>1, <3>2
  <2>3. \A b \in S, ts \in Int : LatestAt(b, S, ts) /\ ts < bar.ts => LatestAt(b, R, ts)
    BY <1>2 DEF LatestAt
  <2>4. ASSUME NEW i \in DOMAIN new
        PROVE  \E b \in R : LatestAt(b, R, new[i].ts) /\ new[i].close = b.close
    <3>1. CASE i \in 1..n
      <4>1. PICK b \in S : LatestAt(b, S, out[i].ts) /\ out[i].close = b.close
        BY <1>8, <3>1
      <4>2. out[i].ts \in Int /\ out[i].ts < bar.ts /\ new[i] = out[i]
        BY <1>2, <1>5, <1>8, <3>1
      <4> QED BY <2>3, <4>1, <4>2
    <3>2. CASE i = n + m + 1
      <4>1. \A c \in S : c.ts \in Int /\ c.ts <= prev.ts
        BY <1>1 DEF Streams, EndsIn, Bars
      <4>2. LatestAt(bar, R, bar.ts)
        BY <1>2, <4>1 DEF LatestAt
      <4> QED BY <1>5, <3>2, <4>2
    <3>3. CASE \E k \in 1..m : i = n + k
      <4>1. PICK k \in 1..m : i = n + k
        BY <3>3
      <4>2. k \in 0..m
        BY <1>4
      <4>3. /\ new[i].ts = prev.ts + k * Minute /\ k * Minute \in Int
            /\ prev.ts + k * Minute < bar.ts /\ new[i].close = prev.close
        BY <1>4, <1>6, <4>1, <4>2
      <4>4. prev.ts <= new[i].ts
        <5>1. n \in 1..n /\ new[n] = prev
          BY <1>1, <1>5 DEF prev
        <5>2. 0 <= k * Minute
          <6>1. \A x, y \in Nat : x * y \in Nat
            OBVIOUS
          <6> QED BY <1>4, <6>1
        <5> QED BY <1>2, <4>3, <5>2
      <4>5. \A c \in S : c.ts <= prev.ts
        BY <1>1 DEF Streams, EndsIn
      <4>6. LatestAt(prev, S, new[i].ts)
        BY <4>4, <4>5 DEF LatestAt
      <4>7. new[i].ts \in Int /\ new[i].ts < bar.ts
        BY <1>2, <4>3
      <4>8. LatestAt(prev, R, new[i].ts)
        BY <1>1, <2>3, <4>6, <4>7
      <4> QED BY <1>1, <4>3, <4>8
    <3> QED BY <1>5, <1>7, <3>1, <3>2, <3>3
  <2> QED BY <2>1, <2>2, <2>4 DEF Carries
<1> QED BY <1>5, <1>9, <1>11, <1>12 DEF Streams, new

LEMMA ExtendedType ==
  ASSUME NEW out \in Seq(Bars), NEW bar \in Bars
  PROVE  Extended(out, bar) \in Seq(Bars)
<1>1. CASE out = <<>>
  <2>1. <<bar>> \in Seq(Bars)
    OBVIOUS
  <2> QED BY <1>1, <2>1 DEF Extended
<1>2. CASE out # <<>>
  <2>1. out[Len(out)] \in Bars
    BY <1>2
  <2>2. Fillers(out[Len(out)], bar) \in Seq(Bars)
    BY <2>1, FillersAre DEF Fills
  <2> QED BY <1>2, <2>2, ExtendedJoins DEF Joins
<1> QED BY <1>1, <1>2

\* The equation of the fold that fills gaps.
IsFillFold(h, bars) ==
  h = [s \in SUBSET (DOMAIN bars) |->
         IF s = {} THEN <<>> ELSE Extended(h[s \ {Max(s)}], bars[Max(s)])]

LEMMA FillStates ==
  ASSUME NEW n \in Nat, NEW bars \in [1..n -> Bars]
  PROVE  \E X : /\ X[0] = <<>>
                /\ \A i \in 1..n : X[i] = Extended(X[i - 1], bars[i])
                /\ X[n] = FillGaps(bars)
<1> DEFINE States == Seq(Bars)
           H == [i \in 1..n |-> [s \in States |-> Extended(s, bars[i])]]
           base == <<>>
<1>1. DOMAIN bars = 1..n
  OBVIOUS
<1>2. \A i \in 1..n, s \in States : Extended(s, bars[i]) \in States
  BY ExtendedType
<1>3. base \in States
  OBVIOUS
<1> HIDE DEF States
<1>4. H \in [1..n -> [States -> States]]
  BY <1>2
<1>5. \A i \in 1..n, s \in States : H[i][s] = Extended(s, bars[i])
  OBVIOUS
<1> HIDE DEF H, base
<1>6. PICK g \in [SUBSET (1..n) -> States] : IsLeftFold(g, n, base, H)
  BY <1>3, <1>4, LeftFoldExists
<1>7. \A s \in SUBSET (1..n) : s # {} => Max(s) \in s
  BY GreatestIsMember
<1>8. \A s \in SUBSET (1..n) : s # {} =>
         H[Max(s)][g[s \ {Max(s)}]] = Extended(g[s \ {Max(s)}], bars[Max(s)])
  BY <1>5, <1>6, <1>7
<1>9. IsFillFold(g, bars)
  <2>1. g = [s \in SUBSET (1..n) |->
               IF s = {} THEN base ELSE Extended(g[s \ {Max(s)}], bars[Max(s)])]
    BY <1>6, <1>8 DEF IsLeftFold
  <2> QED BY <1>1, <2>1 DEF IsFillFold, base
<1> DEFINE h == CHOOSE k : IsFillFold(k, bars)
<1>10. IsFillFold(h, bars)
  BY <1>9, Zenon
<1>11. FillGaps(bars) = h[DOMAIN bars]
  BY Zenon DEF FillGaps, FoldLeft, MapThenFoldSet, IsFillFold
<1> HIDE DEF h
<1> DEFINE X == [i \in 0..n |-> h[1..i]]
<1>12. h[1..0] = <<>>
  BY <1>1, <1>10 DEF IsFillFold
<1>13. ASSUME NEW i \in 1..n PROVE h[1..i] = Extended(h[1..(i - 1)], bars[i])
  <2>1. /\ Max(1..i) = i /\ (1..i) \ {i} = 1..(i - 1)
        /\ 1..i \in SUBSET (1..n) /\ 1..i # {}
    BY PrefixMax
  <2>2. h[1..i] = Extended(h[(1..i) \ {Max(1..i)}], bars[Max(1..i)])
    BY <1>1, <1>10, <2>1, Zenon DEF IsFillFold
  <2> QED BY <2>1, <2>2
<1>14. X[0] = <<>> /\ X[n] = h[DOMAIN bars]
  BY <1>1, <1>12
<1>15. \A i \in 1..n : X[i] = Extended(X[i - 1], bars[i])
  <2> SUFFICES ASSUME NEW i \in 1..n PROVE X[i] = Extended(X[i - 1], bars[i])
    OBVIOUS
  <2>1. X[i] = h[1..i] /\ X[i - 1] = h[1..(i - 1)]
    OBVIOUS
  <2> HIDE DEF X
  <2> QED BY <1>13, <2>1
<1> HIDE DEF X
<1> QED BY <1>11, <1>14, <1>15

\* e lists the n bars of S in time order.
ListsInTime(e, S, n) ==
  /\ e \in [1..n -> S]
  /\ \A i, j \in 1..n : i < j => e[i].ts < e[j].ts
  /\ \A b \in S : \E i \in 1..n : e[i] = b

OnePerTime(S) == \A b, c \in S : b.ts = c.ts => b = c

LEMMA InTimeLists ==
  ASSUME NEW S, S \subseteq Bars, IsFiniteSet(S), OnePerTime(S), NEW n, n = Cardinality(S)
  PROVE  n \in Nat /\ ListsInTime(InTime(S), S, n)
<1> DEFINE before == {p \in S \X S : p[1].ts < p[2].ts}
           e == InTime(S)
<1>1. e = Enumerated(S, before)
  BY DEF InTime
<1>2. \A b \in S : b.ts \in Int
  BY DEF Bars
<1>3. \A b, c \in S : <<b, c>> \in before <=> b.ts < c.ts
  OBVIOUS
<1> HIDE DEF before, e
<1>4. StrictTotal(S, before)
  <2>1. \A b, c \in S : <<b, c>> \in before => <<c, b>> \notin before
    BY <1>2, <1>3
  <2>2. \A b, c, d \in S : <<b, c>> \in before /\ <<c, d>> \in before => <<b, d>> \in before
    BY <1>2, <1>3
  <2>3. \A b, c \in S : b # c => <<b, c>> \in before \/ <<c, b>> \in before
    BY <1>2, <1>3 DEF OnePerTime
  <2> QED BY <2>1, <2>2, <2>3 DEF StrictTotal
<1>5. /\ n \in Nat /\ e \in [1..n -> S]
      /\ \A i, j \in 1..n : i < j => <<e[i], e[j]>> \in before
      /\ \A b \in S : \E i \in 1..n : e[i] = b
  BY <1>1, <1>4, EnumeratedLists
<1>6. \A i, j \in 1..n : i < j => e[i].ts < e[j].ts
  BY <1>3, <1>5
<1> QED BY <1>5, <1>6 DEF ListsInTime, e

LEMMA OneBarStreams ==
  ASSUME NEW bar \in Bars
  PROVE  Streams(<<bar>>, {bar}) /\ Dense(<<bar>>) /\ Last(<<bar>>) = bar
<1> DEFINE s == <<bar>>
<1>1. s \in Seq(Bars) /\ Len(s) = 1 /\ DOMAIN s = {1} /\ s[1] = bar /\ s # <<>>
  OBVIOUS
<1>2. bar.ts \in Int
  BY DEF Bars
<1> HIDE DEF s
<1>3. Last(s) = bar
  BY <1>1 DEF Last
<1>4. InOrder(s) /\ Dense(s)
  BY <1>1 DEF InOrder, Dense
<1>5. EndsIn(s, {bar})
  BY <1>1, <1>2, <1>3 DEF EndsIn
<1>6. LatestAt(bar, {bar}, bar.ts)
  BY <1>2 DEF LatestAt
<1>7. Carries(s, {bar})
  BY <1>1, <1>6 DEF Carries
<1> QED BY <1>1, <1>3, <1>4, <1>5, <1>7 DEF Streams, s

\* The stream after i bars of e.
Filled(out, e, i) ==
  Streams(out, {e[k] : k \in 1..i}) /\ Dense(out) /\ Last(out) = e[i]

LEMMA FilledStreams ==
  ASSUME NEW S, S \subseteq Bars, NEW n \in Nat \ {0}, NEW e, ListsInTime(e, S, n)
  PROVE  Streams(FillGaps(e), S) /\ Dense(FillGaps(e))
<1>1. /\ e \in [1..n -> Bars] /\ \A i \in 1..n : e[i] \in S
      /\ \A i, j \in 1..n : i < j => e[i].ts < e[j].ts
      /\ \A b \in S : \E i \in 1..n : e[i] = b
  BY DEF ListsInTime
<1>2. PICK X : /\ X[0] = <<>>
               /\ \A i \in 1..n : X[i] = Extended(X[i - 1], e[i])
               /\ X[n] = FillGaps(e)
  BY <1>1, FillStates
<1> DEFINE Good == {i \in 0..n : i # 0 => Filled(X[i], e, i)}
<1>3. 0 \in Good
  OBVIOUS
<1>4. ASSUME NEW i \in 0..(n - 1), i \in Good PROVE i + 1 \in Good
  <2>1. i + 1 \in 1..n /\ (i + 1) - 1 = i /\ i + 1 \in 0..n
    OBVIOUS
  <2>2. X[i + 1] = Extended(X[i], e[i + 1])
    BY <1>2, <2>1
  <2>3. e[i + 1] \in Bars
    BY <1>1, <2>1
  <2>4. CASE i = 0
    <3>1. X[1] = <<e[1]>> /\ e[1] \in Bars
      BY <1>2, <2>2, <2>3, <2>4 DEF Extended
    <3>2. {e[k] : k \in 1..1} = {e[1]}
      OBVIOUS
    <3>3. Filled(X[1], e, 1)
      BY <3>1, <3>2, OneBarStreams DEF Filled
    <3> QED BY <2>1, <2>4, <3>3
  <2>5. CASE i # 0
    <3> DEFINE R == {e[k] : k \in 1..i}
    <3>1. Filled(X[i], e, i)
      BY <1>4, <2>5
    <3>2. i \in 1..n /\ i < i + 1
      BY <2>5
    <3>3. Last(X[i]).ts < e[i + 1].ts
      BY <1>1, <2>1, <3>1, <3>2 DEF Filled
    <3>4. R \subseteq Bars
      BY <1>1
    <3>5. R \cup {e[i + 1]} = {e[k] : k \in 1..(i + 1)}
      <4>1. 1..(i + 1) = 1..i \cup {i + 1}
        OBVIOUS
      <4> QED BY <4>1
    <3> HIDE DEF R
    <3>6. Streams(X[i], R) /\ Dense(X[i])
      BY <3>1 DEF Filled, R
    <3>7. /\ Streams(X[i + 1], R \cup {e[i + 1]}) /\ Dense(X[i + 1])
          /\ Last(X[i + 1]) = e[i + 1]
      BY <2>2, <2>3, <3>3, <3>4, <3>6, ExtendedStreams
    <3>8. Filled(X[i + 1], e, i + 1)
      BY <3>5, <3>7 DEF Filled
    <3> QED BY <2>1, <3>8
  <2> QED BY <2>4, <2>5
<1>5. n \in Good
  <2>1. 0..n \subseteq Good
    <3> HIDE DEF Good
    <3> QED BY <1>3, <1>4, UpwardInduction
  <2> QED BY <2>1
<1>6. Filled(X[n], e, n)
  BY <1>5
<1>7. {e[k] : k \in 1..n} = S
  BY <1>1
<1> QED BY <1>2, <1>6, <1>7 DEF Filled

\* Without filling the stream is the list itself.
LEMMA ListStreams ==
  ASSUME NEW S, S \subseteq Bars, NEW n \in Nat \ {0}, NEW e, ListsInTime(e, S, n)
  PROVE  Streams(e, S)
<1>1. /\ e \in [1..n -> Bars] /\ \A i \in 1..n : e[i] \in S /\ e[i].ts \in Int
      /\ \A i, j \in 1..n : i < j => e[i].ts < e[j].ts
      /\ \A b \in S : \E i \in 1..n : e[i] = b
  BY DEF ListsInTime, Bars
<1>2. e \in Seq(Bars) /\ Len(e) = n
  BY <1>1, FunctionIsSequence
<1>3. DOMAIN e = 1..n /\ n \in 1..n /\ e # <<>>
  BY <1>1, <1>2
<1>4. Last(e) = e[n]
  BY <1>2 DEF Last
<1>5. \A i \in 1..n : e[i].ts <= e[n].ts
  BY <1>1, <1>3
<1>6. EndsIn(e, S)
  BY <1>1, <1>3, <1>4, <1>5 DEF EndsIn
<1>7. InOrder(e)
  BY <1>1, <1>2 DEF InOrder
<1>8. \A b \in S : LatestAt(b, S, b.ts)
  BY DEF LatestAt, Bars
<1>9. Carries(e, S)
  BY <1>1, <1>3, <1>8 DEF Carries
<1> QED BY <1>2, <1>6, <1>7, <1>9 DEF Streams

\* new is out with its last bar replaced by x.
Replaces(new, out, x) ==
  /\ new \in Seq(Bars) /\ Len(new) = Len(out)
  /\ \A j \in 1..(Len(out) - 1) : new[j] = out[j]
  /\ new[Len(out)] = x

LEMMA LastReplaced ==
  ASSUME NEW out \in Seq(Bars), out # <<>>, NEW x \in Bars
  PROVE  Replaces(Append(Front(out), x), out, x)
<1> DEFINE n == Len(out)
           F == Front(out)
           new == Append(F, x)
<1>1. n \in Nat /\ n # 0 /\ n - 1 \in Nat /\ \A j \in 1..n : out[j] \in Bars
  OBVIOUS
<1>2. F = [j \in 1..(n - 1) |-> out[j]]
  BY DEF Front
<1> HIDE DEF n, F
<1>3. F \in [1..(n - 1) -> Bars] /\ \A j \in 1..(n - 1) : F[j] = out[j]
  BY <1>1, <1>2
<1>4. F \in Seq(Bars) /\ Len(F) = n - 1
  BY <1>1, <1>3, FunctionIsSequence
<1>5. /\ new \in Seq(Bars) /\ Len(new) = (n - 1) + 1 /\ new[(n - 1) + 1] = x
      /\ \A j \in 1..(n - 1) : new[j] = F[j]
  BY <1>1, <1>4
<1>6. (n - 1) + 1 = n
  BY <1>1
<1> HIDE DEF new
<1> QED BY <1>3, <1>5, <1>6 DEF Replaces, n, new, F

\* new is out with x after it.
Appends(new, out, x) ==
  /\ new \in Seq(Bars) /\ Len(new) = Len(out) + 1
  /\ \A j \in 1..Len(out) : new[j] = out[j]
  /\ new[Len(out) + 1] = x

LEMMA OneAppended ==
  ASSUME NEW out \in Seq(Bars), NEW x \in Bars PROVE Appends(Append(out, x), out, x)
BY DEF Appends

\* A bar that starts a bucket, and one that an open bucket takes in.
LEMMA StartedType == ASSUME NEW bar \in Bars PROVE Started(bar) \in Bars
BY StartedParts

LEMMA AddedType == ASSUME NEW b \in Bars, NEW bar \in Bars PROVE Added(b, bar) \in Bars
BY AddedParts

LEMMA CollectedType ==
  ASSUME NEW out \in Seq(Bars), NEW bar \in Bars
  PROVE  Collected(out, bar) \in Seq(Bars)
<1>1. CASE out # <<>> /\ Last(out).ts = FloorToBucket(bar.ts)
  <2>1. Last(out) \in Bars
    BY <1>1 DEF Last
  <2>2. Added(Last(out), bar) \in Bars
    BY <2>1, AddedType
  <2>3. Replaces(Append(Front(out), Added(Last(out), bar)), out, Added(Last(out), bar))
    BY <1>1, <2>2, LastReplaced
  <2> QED BY <1>1, <2>3 DEF Collected, Replaces
<1>2. CASE ~ (out # <<>> /\ Last(out).ts = FloorToBucket(bar.ts))
  BY <1>2, StartedType, OneAppended DEF Collected, Appends
<1> QED BY <1>1, <1>2

\* The equation of the fold that makes bars of a stream.
IsBarFold(h, stream) ==
  h = [s \in SUBSET (DOMAIN stream) |->
         IF s = {} THEN <<>> ELSE Collected(h[s \ {Max(s)}], stream[Max(s)])]

LEMMA BarStates ==
  ASSUME NEW n \in Nat, NEW stream \in [1..n -> Bars]
  PROVE  \E X : /\ X[0] = <<>>
                /\ \A i \in 1..n : X[i] = Collected(X[i - 1], stream[i])
                /\ X[n] = AggregateStream(stream)
<1> DEFINE States == Seq(Bars)
           H == [i \in 1..n |-> [s \in States |-> Collected(s, stream[i])]]
           base == <<>>
<1>1. DOMAIN stream = 1..n
  OBVIOUS
<1>2. \A i \in 1..n, s \in States : Collected(s, stream[i]) \in States
  BY CollectedType
<1>3. base \in States
  OBVIOUS
<1> HIDE DEF States
<1>4. H \in [1..n -> [States -> States]]
  BY <1>2
<1>5. \A i \in 1..n, s \in States : H[i][s] = Collected(s, stream[i])
  OBVIOUS
<1> HIDE DEF H, base
<1>6. PICK g \in [SUBSET (1..n) -> States] : IsLeftFold(g, n, base, H)
  BY <1>3, <1>4, LeftFoldExists
<1>7. \A s \in SUBSET (1..n) : s # {} => Max(s) \in s
  BY GreatestIsMember
<1>8. \A s \in SUBSET (1..n) : s # {} =>
         H[Max(s)][g[s \ {Max(s)}]] = Collected(g[s \ {Max(s)}], stream[Max(s)])
  BY <1>5, <1>6, <1>7
<1>9. IsBarFold(g, stream)
  <2>1. g = [s \in SUBSET (1..n) |->
               IF s = {} THEN base ELSE Collected(g[s \ {Max(s)}], stream[Max(s)])]
    BY <1>6, <1>8 DEF IsLeftFold
  <2> QED BY <1>1, <2>1 DEF IsBarFold, base
<1> DEFINE h == CHOOSE k : IsBarFold(k, stream)
<1>10. IsBarFold(h, stream)
  BY <1>9, Zenon
<1>11. AggregateStream(stream) = h[DOMAIN stream]
  BY Zenon DEF AggregateStream, FoldLeft, MapThenFoldSet, IsBarFold
<1> HIDE DEF h
<1> DEFINE X == [i \in 0..n |-> h[1..i]]
<1>12. h[1..0] = <<>>
  BY <1>1, <1>10 DEF IsBarFold
<1>13. ASSUME NEW i \in 1..n PROVE h[1..i] = Collected(h[1..(i - 1)], stream[i])
  <2>1. /\ Max(1..i) = i /\ (1..i) \ {i} = 1..(i - 1)
        /\ 1..i \in SUBSET (1..n) /\ 1..i # {}
    BY PrefixMax
  <2>2. h[1..i] = Collected(h[(1..i) \ {Max(1..i)}], stream[Max(1..i)])
    BY <1>1, <1>10, <2>1, Zenon DEF IsBarFold
  <2> QED BY <2>1, <2>2
<1>14. X[0] = <<>> /\ X[n] = h[DOMAIN stream]
  BY <1>1, <1>12
<1>15. \A i \in 1..n : X[i] = Collected(X[i - 1], stream[i])
  <2> SUFFICES ASSUME NEW i \in 1..n PROVE X[i] = Collected(X[i - 1], stream[i])
    OBVIOUS
  <2>1. X[i] = h[1..i] /\ X[i - 1] = h[1..(i - 1)]
    OBVIOUS
  <2> HIDE DEF X
  <2> QED BY <1>13, <2>1
<1> HIDE DEF X
<1> QED BY <1>11, <1>14, <1>15

\* What each bar of the stream adds to the bucket at ts.
VolumeAt(stream, ts) ==
  [k \in DOMAIN stream |-> IF FloorToBucket(stream[k].ts) = ts THEN stream[k].volume ELSE 0]

InBucket(stream, k, bar) == FloorToBucket(stream[k].ts) = bar.ts

\* bar is what the first i bars of the stream make of its bucket.
Covers(bar, stream, i) ==
  /\ bar.volume = SumFunctionOnSet(VolumeAt(stream, bar.ts), 1..i)
  /\ \A k \in 1..i : InBucket(stream, k, bar) => /\ bar.low <= stream[k].low
                                                 /\ stream[k].high <= bar.high
  /\ bar.low <= bar.open /\ bar.open <= bar.high
  /\ \E k \in 1..i :
       /\ InBucket(stream, k, bar) /\ bar.close = stream[k].close
       /\ \A l \in 1..i : InBucket(stream, l, bar) => stream[l].ts <= stream[k].ts

\* out is made of the first i bars of the stream: one bar a bucket, and if the
\* stream is dense no bucket between them is missing.
Bucketed(out, stream, i, dense) ==
  /\ out \in Seq(Bars) /\ out # <<>>
  /\ out[Len(out)].ts = FloorToBucket(stream[i].ts)
  /\ \A j \in 1..(Len(out) - 1) : /\ out[j].ts < out[j + 1].ts /\ out[j].ts < out[Len(out)].ts
                                  /\ dense => out[j + 1].ts = out[j].ts + Bucket
  /\ \A k \in 1..i : \E j \in 1..Len(out) : InBucket(stream, k, out[j])
  /\ \A j \in 1..Len(out) : Covers(out[j], stream, i)

\* A stream of n bars in time order.
Rises(stream, n, dense) ==
  /\ stream \in [1..n -> Bars]
  /\ \A k, l \in 1..n : k < l => stream[k].ts < stream[l].ts
  /\ dense => \A k \in 1..(n - 1) : stream[k + 1].ts < stream[k].ts + Bucket

LEMMA VolumeParts ==
  ASSUME NEW n \in Nat, NEW stream \in [1..n -> Bars], NEW ts, NEW v, v = VolumeAt(stream, ts)
  PROVE  /\ \A k \in 1..n : v[k] \in Int
         /\ \A k \in 1..n : FloorToBucket(stream[k].ts) = ts => v[k] = stream[k].volume
         /\ \A k \in 1..n : FloorToBucket(stream[k].ts) # ts => v[k] = 0
<1>1. \A k \in 1..n : stream[k].volume \in Int
  BY DEF Bars
<1>2. v = [k \in 1..n |-> IF FloorToBucket(stream[k].ts) = ts THEN stream[k].volume ELSE 0]
  BY DEF VolumeAt
<1> QED BY <1>1, <1>2

\* The next bar of the stream adds its volume to its bucket, and to no other.
LEMMA VolumeGrows ==
  ASSUME NEW n \in Nat, NEW stream \in [1..n -> Bars], NEW ts, NEW v, v = VolumeAt(stream, ts),
         NEW i \in 0..(n - 1)
  PROVE  /\ SumFunctionOnSet(v, 1..i) \in Int
         /\ FloorToBucket(stream[i + 1].ts) = ts =>
              SumFunctionOnSet(v, 1..(i + 1)) = SumFunctionOnSet(v, 1..i) + stream[i + 1].volume
         /\ FloorToBucket(stream[i + 1].ts) # ts =>
              SumFunctionOnSet(v, 1..(i + 1)) = SumFunctionOnSet(v, 1..i)
         /\ (\A k \in 1..i : FloorToBucket(stream[k].ts) # ts) => SumFunctionOnSet(v, 1..i) = 0
<1>1. /\ \A k \in 1..n : v[k] \in Int
      /\ \A k \in 1..n : FloorToBucket(stream[k].ts) = ts => v[k] = stream[k].volume
      /\ \A k \in 1..n : FloorToBucket(stream[k].ts) # ts => v[k] = 0
  BY VolumeParts
<1>2. i \in Nat /\ i + 1 \in 1..n /\ \A k \in 1..i : k \in 1..n
  OBVIOUS
<1>3. \A k \in 1..i : v[k] \in Int
  BY <1>1, <1>2
<1>4. IsFiniteSet(1..i)
  BY <1>2, FS_Interval
<1>5. SumFunctionOnSet(v, 1..i) \in Int
  BY <1>3, <1>4, SumType
<1>6. SumFunctionOnSet(v, 1..(i + 1)) = SumFunctionOnSet(v, 1..i) + v[i + 1]
  BY <1>1, <1>2, <1>3, SumLast
<1>7. (\A k \in 1..i : FloorToBucket(stream[k].ts) # ts) => SumFunctionOnSet(v, 1..i) = 0
  BY <1>1, <1>2, <1>4, SumZero
<1> QED BY <1>1, <1>2, <1>5, <1>6, <1>7

LEMMA VolumeTaken ==
  ASSUME NEW n \in Nat, NEW stream \in [1..n -> Bars], NEW i \in 0..(n - 1), NEW ts,
         FloorToBucket(stream[i + 1].ts) = ts
  PROVE  SumFunctionOnSet(VolumeAt(stream, ts), 1..(i + 1))
           = SumFunctionOnSet(VolumeAt(stream, ts), 1..i) + stream[i + 1].volume
BY VolumeGrows

LEMMA CoversStill ==
  ASSUME NEW n \in Nat, NEW stream \in [1..n -> Bars], NEW i \in 0..(n - 1), NEW bar,
         Covers(bar, stream, i), ~ InBucket(stream, i + 1, bar)
  PROVE  Covers(bar, stream, i + 1)
<1>1. \A k \in 1..(i + 1) : k \in 1..i \/ k = i + 1
  OBVIOUS
<1>2. \A k \in 1..i : k \in 1..(i + 1)
  OBVIOUS
<1>3. bar.volume = SumFunctionOnSet(VolumeAt(stream, bar.ts), 1..(i + 1))
  BY VolumeGrows DEF Covers, InBucket
<1>4. \A k \in 1..(i + 1) : InBucket(stream, k, bar) => /\ bar.low <= stream[k].low
                                                        /\ stream[k].high <= bar.high
  BY <1>1 DEF Covers
<1>5. PICK k \in 1..i :
         /\ InBucket(stream, k, bar) /\ bar.close = stream[k].close
         /\ \A l \in 1..i : InBucket(stream, l, bar) => stream[l].ts <= stream[k].ts
  BY DEF Covers
<1>6. \A l \in 1..(i + 1) : InBucket(stream, l, bar) => stream[l].ts <= stream[k].ts
  BY <1>1, <1>5
<1>7. bar.low <= bar.open /\ bar.open <= bar.high
  BY DEF Covers
<1> QED BY <1>2, <1>3, <1>4, <1>5, <1>6, <1>7 DEF Covers

LEMMA CoversStarted ==
  ASSUME NEW n \in Nat, NEW stream \in [1..n -> Bars], NEW i \in 0..(n - 1), NEW new,
         new = Started(stream[i + 1]), \A k \in 1..i : ~ InBucket(stream, k, new)
  PROVE  Covers(new, stream, i + 1)
<1> DEFINE bar == stream[i + 1]
<1>1. i + 1 \in 1..n /\ i + 1 \in 1..(i + 1) /\ bar \in Bars
  OBVIOUS
<1>2. /\ new \in Bars /\ new.ts = FloorToBucket(bar.ts)
      /\ new.volume = bar.volume /\ new.close = bar.close
      /\ new.low <= bar.low /\ bar.high <= new.high
      /\ new.low <= new.open /\ new.open <= new.high
  BY <1>1, StartedParts
<1>3. \A k \in 1..(i + 1) : InBucket(stream, k, new) => k = i + 1
  OBVIOUS
<1>4. bar.ts \in Int /\ bar.volume \in Int
  BY <1>1 DEF Bars
<1>5. new.volume = SumFunctionOnSet(VolumeAt(stream, new.ts), 1..(i + 1))
  <2> DEFINE ts == new.ts
  <2>1. FloorToBucket(stream[i + 1].ts) = ts
    BY <1>2
  <2>2. \A k \in 1..i : FloorToBucket(stream[k].ts) # ts
    BY DEF InBucket
  <2> HIDE DEF ts
  <2>3. PICK v : v = VolumeAt(stream, ts)
    OBVIOUS
  <2>4. /\ SumFunctionOnSet(v, 1..i) = 0
        /\ SumFunctionOnSet(v, 1..(i + 1)) = SumFunctionOnSet(v, 1..i) + stream[i + 1].volume
    BY <2>1, <2>2, <2>3, VolumeGrows
  <2> QED BY <1>2, <1>4, <2>3, <2>4 DEF ts
<1>6. InBucket(stream, i + 1, new)
  BY <1>2 DEF InBucket
<1>7. \A k \in 1..(i + 1) : InBucket(stream, k, new) => stream[k].ts <= stream[i + 1].ts
  BY <1>3, <1>4
<1> HIDE DEF bar
<1>8. \A k \in 1..(i + 1) : InBucket(stream, k, new) => /\ new.low <= stream[k].low
                                                        /\ stream[k].high <= new.high
  BY <1>2, <1>3 DEF bar
<1>9. new.close = stream[i + 1].close
  BY <1>2 DEF bar
<1> QED BY <1>1, <1>2, <1>5, <1>6, <1>7, <1>8, <1>9 DEF Covers

LEMMA CoversAdded ==
  ASSUME NEW n \in Nat, NEW stream \in [1..n -> Bars], NEW i \in 0..(n - 1), NEW b \in Bars,
         Covers(b, stream, i), InBucket(stream, i + 1, b), NEW new,
         new = Added(b, stream[i + 1]), \A k \in 1..i : stream[k].ts < stream[i + 1].ts
  PROVE  Covers(new, stream, i + 1)
<1> DEFINE bar == stream[i + 1]
<1>1. /\ i + 1 \in 1..n /\ i + 1 \in 1..(i + 1) /\ bar \in Bars
      /\ \A k \in 1..(i + 1) : k \in 1..i \/ k = i + 1
      /\ \A k \in 1..i : k \in 1..n
  OBVIOUS
<1>2. /\ new \in Bars /\ new.ts = b.ts /\ new.open = b.open
      /\ new.volume = b.volume + bar.volume /\ new.close = bar.close
      /\ new.low <= b.low /\ b.high <= new.high
      /\ new.low <= bar.low /\ bar.high <= new.high
  BY <1>1, AddedParts
<1>3. /\ bar.ts \in Int /\ new.low \in Int /\ new.high \in Int /\ new.open \in Int
      /\ b.low \in Int /\ b.high \in Int
      /\ \A k \in 1..n : stream[k].low \in Int /\ stream[k].high \in Int /\ stream[k].ts \in Int
  BY <1>1, <1>2 DEF Bars
<1>4. \A k \in 1..n : InBucket(stream, k, new) <=> InBucket(stream, k, b)
  BY <1>2 DEF InBucket
<1>5. new.volume = SumFunctionOnSet(VolumeAt(stream, new.ts), 1..(i + 1))
  <2>1. b.volume = SumFunctionOnSet(VolumeAt(stream, b.ts), 1..i)
    BY DEF Covers
  <2>2. FloorToBucket(stream[i + 1].ts) = b.ts
    BY DEF InBucket
  <2>3. SumFunctionOnSet(VolumeAt(stream, b.ts), 1..(i + 1)) = b.volume + stream[i + 1].volume
    BY <2>1, <2>2, VolumeTaken
  <2> QED BY <1>2, <2>3
<1>6. \A k \in 1..i : InBucket(stream, k, b) => b.low <= stream[k].low /\ stream[k].high <= b.high
  BY DEF Covers
<1>7. b.low <= b.open /\ b.open <= b.high
  BY DEF Covers
<1> HIDE DEF bar
<1>8. \A k \in 1..(i + 1) : InBucket(stream, k, new) => /\ new.low <= stream[k].low
                                                        /\ stream[k].high <= new.high
  <2> SUFFICES ASSUME NEW k \in 1..(i + 1), InBucket(stream, k, new)
               PROVE  new.low <= stream[k].low /\ stream[k].high <= new.high
    OBVIOUS
  <2>1. CASE k = i + 1
    BY <1>2, <2>1 DEF bar
  <2>2. CASE k \in 1..i
    <3>1. b.low <= stream[k].low /\ stream[k].high <= b.high
      BY <1>1, <1>4, <1>6, <2>2
    <3> QED BY <1>1, <1>2, <1>3, <2>2, <3>1
  <2> QED BY <1>1, <2>1, <2>2
<1>9. new.low <= new.open /\ new.open <= new.high
  BY <1>2, <1>3, <1>7
<1>10. InBucket(stream, i + 1, new) /\ new.close = stream[i + 1].close
  BY <1>1, <1>2, <1>4 DEF bar
<1>11. \A k \in 1..(i + 1) : stream[k].ts <= stream[i + 1].ts
  BY <1>1, <1>3 DEF bar
<1> QED BY <1>1, <1>5, <1>8, <1>9, <1>10, <1>11 DEF Covers

LEMMA FirstCollected ==
  ASSUME NEW n \in Nat \ {0}, NEW stream \in [1..n -> Bars], NEW dense
  PROVE  Bucketed(Collected(<<>>, stream[1]), stream, 1, dense)
<1> DEFINE x == Started(stream[1])
           out == Append(<<>>, x)
<1>1. stream[1] \in Bars /\ 1 \in 1..n /\ 0 \in 0..(n - 1) /\ 1..0 = {} /\ 0 + 1 = 1
  OBVIOUS
<1>2. x \in Bars /\ x.ts = FloorToBucket(stream[1].ts)
  BY <1>1, StartedParts
<1>3. Covers(x, stream, 1)
  <2>1. PICK i \in 0..(n - 1) : i = 0
    BY <1>1
  <2>2. \A k \in 1..i : ~ InBucket(stream, k, x)
    BY <1>1, <2>1
  <2>3. x = Started(stream[i + 1])
    BY <1>1, <2>1
  <2> HIDE DEF x
  <2>4. Covers(x, stream, i + 1)
    BY <2>2, <2>3, CoversStarted
  <2> QED BY <1>1, <2>1, <2>4
<1>4. Collected(<<>>, stream[1]) = out
  BY DEF Collected
<1> HIDE DEF x
<1>5. out \in Seq(Bars) /\ Len(out) = 1 /\ out[1] = x /\ out # <<>>
  BY <1>2
<1> HIDE DEF out
<1>6. \A k \in 1..1 : InBucket(stream, k, x)
  BY <1>2 DEF InBucket
<1>7. /\ 1 \in 1..1 /\ \A j \in 1..1 : j = 1
      /\ 1..(1 - 1) = {}
  OBVIOUS
<1>8. Bucketed(out, stream, 1, dense)
  BY <1>2, <1>3, <1>5, <1>6, <1>7 DEF Bucketed
<1> QED BY <1>4, <1>8

\* What is known of the bars so far and the next of the stream.
LEMMA NextBucket ==
  ASSUME NEW n \in Nat \ {0}, NEW dense, NEW stream, Rises(stream, n, dense),
         NEW i \in 1..(n - 1), NEW out, Bucketed(out, stream, i, dense)
  PROVE  LET m == Len(out)
             t == FloorToBucket(stream[i + 1].ts)
         IN  /\ m \in Nat \ {0} /\ t \in Int /\ \A j \in 1..m : out[j] \in Bars /\ out[j].ts \in Int
             /\ \A j \in 1..(m - 1) : out[j].ts < out[m].ts
             /\ out[m].ts <= t
             /\ out[m].ts # t => /\ \A k \in 1..i : FloorToBucket(stream[k].ts) # t
                                 /\ dense => t = out[m].ts + Bucket
             /\ \A k \in 1..i : stream[k].ts < stream[i + 1].ts
<1> DEFINE m == Len(out)
           s == stream[i].ts
           r == stream[i + 1].ts
           t == FloorToBucket(r)
<1>1. /\ i \in 1..n /\ i + 1 \in 1..n /\ i < i + 1 /\ i \in 1..(n - 1)
      /\ \A k \in 1..i : k \in 1..n /\ k < i + 1
  OBVIOUS
<1>2. /\ stream \in [1..n -> Bars] /\ s < r
      /\ \A k \in 1..i : stream[k].ts < r
      /\ dense => r < s + Bucket
  BY <1>1 DEF Rises
<1>3. s \in Int /\ r \in Int
  <2>1. stream[i] \in Bars /\ stream[i + 1] \in Bars
    BY <1>1, <1>2
  <2> QED BY <2>1 DEF Bars
<1>4. out \in Seq(Bars) /\ out # <<>>
  BY DEF Bucketed
<1>5. m \in Nat \ {0} /\ m \in 1..m /\ \A j \in 1..m : out[j] \in Bars
  BY <1>4
<1> HIDE DEF m
<1>6. \A j \in 1..m : out[j].ts \in Int
  BY <1>5 DEF Bars
<1>7. /\ out[m].ts = FloorToBucket(s)
      /\ \A j \in 1..(m - 1) : out[j].ts < out[m].ts
      /\ \A k \in 1..i : \E j \in 1..m : InBucket(stream, k, out[j])
  BY DEF Bucketed, m
<1> HIDE DEF s, r
<1>8. /\ t \in Int /\ FloorToBucket(s) <= t /\ FloorToBucket(s) \in Int
      /\ FloorToBucket(s) # t => FloorToBucket(s) + Bucket <= t
      /\ r < s + Bucket => t <= FloorToBucket(s) + Bucket
  <2>1. s <= r
    BY <1>2, <1>3
  <2>2. FloorToBucket(s) \in Int /\ t \in Int
    BY <1>3, <2>1, BucketBounds
  <2> QED BY <1>3, <2>1, <2>2, BucketBounds
<1>9. Bucket \in Nat
  BY BucketAssumption
<1> HIDE DEF t
<1>10. ASSUME out[m].ts # t
       PROVE  /\ \A k \in 1..i : FloorToBucket(stream[k].ts) # t
              /\ dense => t = out[m].ts + Bucket
  <2>1. out[m].ts < t
    BY <1>5, <1>6, <1>7, <1>8, <1>10
  <2>2. \A j \in 1..m : out[j].ts < t
    <3> SUFFICES ASSUME NEW j \in 1..m PROVE out[j].ts < t
      OBVIOUS
    <3>1. CASE j = m
      BY <2>1, <3>1
    <3>2. CASE j # m
      <4>1. j \in 1..(m - 1)
        BY <1>5, <3>2
      <4>2. out[j].ts < out[m].ts
        BY <1>7, <4>1
      <4> QED BY <1>5, <1>6, <1>8, <2>1, <4>2
    <3> QED BY <3>1, <3>2
  <2>3. \A k \in 1..i : FloorToBucket(stream[k].ts) # t
    <3> SUFFICES ASSUME NEW k \in 1..i, FloorToBucket(stream[k].ts) = t PROVE FALSE
      OBVIOUS
    <3>1. PICK j \in 1..m : InBucket(stream, k, out[j])
      BY <1>7
    <3>2. out[j].ts = t
      BY <3>1 DEF InBucket
    <3> QED BY <1>6, <1>8, <2>2, <3>2
  <2>4. dense => t = out[m].ts + Bucket
    BY <1>2, <1>7, <1>8, <1>9, <1>10
  <2> QED BY <2>3, <2>4
<1>11. out[m].ts <= t
  BY <1>7, <1>8
<1>12. \A k \in 1..i : stream[k].ts < stream[i + 1].ts
  BY <1>2 DEF r
<1> QED BY <1>5, <1>6, <1>7, <1>8, <1>10, <1>11, <1>12 DEF m, t, r

\* The next bar of the stream is added to the open bucket...
LEMMA AddedIsBucketed ==
  ASSUME NEW n \in Nat \ {0}, NEW dense, NEW stream, Rises(stream, n, dense),
         NEW i \in 1..(n - 1), NEW out, Bucketed(out, stream, i, dense),
         out[Len(out)].ts = FloorToBucket(stream[i + 1].ts)
  PROVE  Bucketed(Append(Front(out), Added(out[Len(out)], stream[i + 1])), stream, i + 1, dense)
<1> DEFINE m == Len(out)
           b == out[m]
           x == Added(b, stream[i + 1])
           new == Append(Front(out), x)
           t == FloorToBucket(stream[i + 1].ts)
<1>1. /\ i \in 0..(n - 1) /\ i + 1 \in 1..n /\ i + 1 \in 1..(i + 1)
      /\ \A k \in 1..(i + 1) : k \in 1..i \/ k = i + 1
  OBVIOUS
<1>2. stream \in [1..n -> Bars] /\ stream[i + 1] \in Bars
  BY <1>1 DEF Rises
<1>3. /\ m \in Nat \ {0} /\ t \in Int /\ \A j \in 1..m : out[j] \in Bars /\ out[j].ts \in Int
      /\ \A j \in 1..(m - 1) : out[j].ts < out[m].ts
      /\ \A k \in 1..i : stream[k].ts < stream[i + 1].ts
  BY NextBucket
<1>4. /\ out \in Seq(Bars) /\ out # <<>>
      /\ \A j \in 1..(m - 1) : out[j].ts < out[j + 1].ts
                               /\ (dense => out[j + 1].ts = out[j].ts + Bucket)
      /\ \A k \in 1..i : \E j \in 1..m : InBucket(stream, k, out[j])
      /\ \A j \in 1..m : Covers(out[j], stream, i)
  BY DEF Bucketed
<1>5. b.ts = t /\ b \in Bars /\ m \in 1..m
  BY <1>3
<1>6. x \in Bars /\ x.ts = b.ts
  BY <1>2, <1>5, AddedParts
<1>7. InBucket(stream, i + 1, b)
  BY <1>5 DEF InBucket
<1>8. Covers(x, stream, i + 1)
  <2>1. Covers(b, stream, i)
    BY <1>4, <1>5
  <2>2. PICK y : y = x
    OBVIOUS
  <2> HIDE DEF b
  <2>3. Covers(y, stream, i + 1)
    BY <1>1, <1>2, <1>3, <1>5, <1>7, <2>1, <2>2, CoversAdded
  <2> QED BY <2>2, <2>3
<1>9. Replaces(new, out, x)
  <2> HIDE DEF x
  <2> QED BY <1>4, <1>6, LastReplaced
<1> HIDE DEF x, new
<1>10. /\ new \in Seq(Bars) /\ Len(new) = m /\ new[m] = x
       /\ \A j \in 1..(m - 1) : new[j] = out[j]
  BY <1>9 DEF Replaces
<1>11. \A j \in 1..m : new[j].ts = out[j].ts
  <2> SUFFICES ASSUME NEW j \in 1..m PROVE new[j].ts = out[j].ts
    OBVIOUS
  <2>1. j = m \/ j \in 1..(m - 1)
    BY <1>3
  <2> QED BY <1>6, <1>10, <2>1
<1> HIDE DEF m, t
<1>12. new # <<>>
  BY <1>3, <1>10
<1>13. ASSUME NEW j \in 1..(m - 1)
       PROVE  /\ new[j].ts < new[j + 1].ts /\ new[j].ts < new[m].ts
              /\ dense => new[j + 1].ts = new[j].ts + Bucket
  <2>1. j \in 1..m /\ j + 1 \in 1..m
    BY <1>3
  <2>2. /\ new[j].ts = out[j].ts /\ new[j + 1].ts = out[j + 1].ts /\ new[m].ts = out[m].ts
    BY <1>5, <1>11, <2>1
  <2> QED BY <1>3, <1>4, <2>2
<1>14. ASSUME NEW k \in 1..(i + 1) PROVE \E j \in 1..m : InBucket(stream, k, new[j])
  <2>1. \A j \in 1..m : InBucket(stream, k, out[j]) => InBucket(stream, k, new[j])
    BY <1>11 DEF InBucket
  <2>2. \E j \in 1..m : InBucket(stream, k, out[j])
    <3>1. CASE k \in 1..i
      BY <1>4, <3>1
    <3>2. CASE k = i + 1
      BY <1>5, <1>7, <3>2
    <3> QED BY <1>1, <3>1, <3>2
  <2> QED BY <2>1, <2>2
<1>15. ASSUME NEW j \in 1..m PROVE Covers(new[j], stream, i + 1)
  <2>1. CASE j = m
    BY <1>8, <1>10, <2>1
  <2>2. CASE j # m
    <3>1. j \in 1..(m - 1)
      BY <1>3, <2>2
    <3>2. out[j].ts # t /\ new[j] = out[j]
      BY <1>3, <1>5, <1>10, <3>1
    <3>3. ~ InBucket(stream, i + 1, out[j])
      BY <3>2 DEF InBucket, t
    <3>4. Covers(out[j], stream, i + 1)
      BY <1>1, <1>2, <1>4, <3>3, CoversStill
    <3> QED BY <3>2, <3>4
  <2> QED BY <2>1, <2>2
<1>16. new[m].ts = t
  BY <1>5, <1>6, <1>10
<1>17. Bucketed(new, stream, i + 1, dense)
  BY <1>10, <1>12, <1>13, <1>14, <1>15, <1>16 DEF Bucketed, t
<1> QED BY <1>17 DEF new, x, m

\* ... or starts the next one.
LEMMA StartedIsBucketed ==
  ASSUME NEW n \in Nat \ {0}, NEW dense, NEW stream, Rises(stream, n, dense),
         NEW i \in 1..(n - 1), NEW out, Bucketed(out, stream, i, dense),
         out[Len(out)].ts # FloorToBucket(stream[i + 1].ts)
  PROVE  Bucketed(Append(out, Started(stream[i + 1])), stream, i + 1, dense)
<1> DEFINE m == Len(out)
           x == Started(stream[i + 1])
           new == Append(out, x)
           t == FloorToBucket(stream[i + 1].ts)
<1>1. /\ i \in 0..(n - 1) /\ i + 1 \in 1..n /\ i + 1 \in 1..(i + 1)
      /\ \A k \in 1..(i + 1) : k \in 1..i \/ k = i + 1
  OBVIOUS
<1>2. stream \in [1..n -> Bars] /\ stream[i + 1] \in Bars
  BY <1>1 DEF Rises
<1>3. /\ m \in Nat \ {0} /\ t \in Int /\ \A j \in 1..m : out[j] \in Bars /\ out[j].ts \in Int
      /\ \A j \in 1..(m - 1) : out[j].ts < out[m].ts
      /\ out[m].ts <= t
      /\ \A k \in 1..i : FloorToBucket(stream[k].ts) # t
      /\ dense => t = out[m].ts + Bucket
  BY NextBucket
<1>4. /\ out \in Seq(Bars) /\ out # <<>>
      /\ \A j \in 1..(m - 1) : out[j].ts < out[j + 1].ts
                               /\ (dense => out[j + 1].ts = out[j].ts + Bucket)
      /\ \A k \in 1..i : \E j \in 1..m : InBucket(stream, k, out[j])
      /\ \A j \in 1..m : Covers(out[j], stream, i)
  BY DEF Bucketed
<1>5. out[m].ts # t /\ m \in 1..m
  BY <1>3
<1>6. x \in Bars /\ x.ts = t
  BY <1>2, StartedParts
<1>7. InBucket(stream, i + 1, x)
  BY <1>6 DEF InBucket
<1>8. Covers(x, stream, i + 1)
  <2>1. \A k \in 1..i : ~ InBucket(stream, k, x)
    BY <1>3, <1>6 DEF InBucket
  <2>2. PICK y : y = x
    OBVIOUS
  <2>3. Covers(y, stream, i + 1)
    BY <1>1, <1>2, <2>1, <2>2, CoversStarted
  <2> QED BY <2>2, <2>3
<1>9. Appends(new, out, x)
  <2> HIDE DEF x
  <2> QED BY <1>4, <1>6, OneAppended
<1> HIDE DEF x, new, t
<1>10. /\ new \in Seq(Bars) /\ Len(new) = m + 1 /\ new[m + 1] = x
       /\ \A j \in 1..m : new[j] = out[j]
  BY <1>9 DEF Appends
<1> HIDE DEF m
<1>11. /\ m + 1 \in 1..(m + 1) /\ \A j \in 1..m : j \in 1..(m + 1)
       /\ \A j \in 1..(m + 1) : j \in 1..m \/ j = m + 1
       /\ (m + 1) - 1 = m /\ new # <<>>
  BY <1>3, <1>10
<1>12. \A j \in 1..m : out[j].ts < t
  <2> SUFFICES ASSUME NEW j \in 1..m PROVE out[j].ts < t
    OBVIOUS
  <2>1. out[m].ts < t
    BY <1>3, <1>5
  <2>2. j = m \/ j \in 1..(m - 1)
    BY <1>3
  <2> QED BY <1>3, <1>5, <2>1, <2>2
<1>13. ASSUME NEW j \in 1..m
       PROVE  /\ new[j].ts < new[j + 1].ts /\ new[j].ts < new[m + 1].ts
              /\ dense => new[j + 1].ts = new[j].ts + Bucket
  <2>1. CASE j = m
    BY <1>3, <1>6, <1>10, <1>12, <2>1
  <2>2. CASE j # m
    <3>1. j \in 1..(m - 1) /\ j + 1 \in 1..m
      BY <1>3, <2>2
    <3> QED BY <1>4, <1>6, <1>10, <1>12, <3>1
  <2> QED BY <2>1, <2>2
<1>14. ASSUME NEW k \in 1..(i + 1) PROVE \E j \in 1..(m + 1) : InBucket(stream, k, new[j])
  <2>1. CASE k \in 1..i
    <3>1. PICK j \in 1..m : InBucket(stream, k, out[j])
      BY <1>4, <2>1
    <3> QED BY <1>10, <1>11, <3>1
  <2>2. CASE k = i + 1
    BY <1>7, <1>10, <1>11, <2>2
  <2> QED BY <1>1, <2>1, <2>2
<1>15. ASSUME NEW j \in 1..(m + 1) PROVE Covers(new[j], stream, i + 1)
  <2>1. CASE j = m + 1
    BY <1>8, <1>10, <2>1
  <2>2. CASE j \in 1..m
    <3>1. out[j].ts # t /\ new[j] = out[j]
      BY <1>3, <1>10, <1>12, <2>2
    <3>2. ~ InBucket(stream, i + 1, out[j])
      BY <3>1 DEF InBucket, t
    <3>3. Covers(out[j], stream, i + 1)
      BY <1>1, <1>2, <1>4, <2>2, <3>2, CoversStill
    <3> QED BY <3>1, <3>3
  <2> QED BY <1>11, <2>1, <2>2
<1>16. new[m + 1].ts = t
  BY <1>6, <1>10
<1>17. Bucketed(new, stream, i + 1, dense)
  BY <1>10, <1>11, <1>13, <1>14, <1>15, <1>16 DEF Bucketed, t
<1> QED BY <1>17 DEF new, x

LEMMA StreamIsBucketed ==
  ASSUME NEW n \in Nat \ {0}, NEW dense, NEW stream, Rises(stream, n, dense)
  PROVE  Bucketed(AggregateStream(stream), stream, n, dense)
<1>1. stream \in [1..n -> Bars]
  BY DEF Rises
<1>2. PICK X : /\ X[0] = <<>>
               /\ \A i \in 1..n : X[i] = Collected(X[i - 1], stream[i])
               /\ X[n] = AggregateStream(stream)
  BY <1>1, BarStates
<1> DEFINE Good == {i \in 0..n : i # 0 => Bucketed(X[i], stream, i, dense)}
<1>3. 0 \in Good
  OBVIOUS
<1>4. ASSUME NEW i \in 0..(n - 1), i \in Good PROVE i + 1 \in Good
  <2>1. i + 1 \in 1..n /\ (i + 1) - 1 = i /\ i + 1 \in 0..n
    OBVIOUS
  <2>2. X[i + 1] = Collected(X[i], stream[i + 1])
    BY <1>2, <2>1
  <2>3. CASE i = 0
    <3>1. X[1] = Collected(<<>>, stream[1])
      BY <1>2, <2>2, <2>3
    <3>2. Bucketed(X[1], stream, 1, dense)
      BY <1>1, <3>1, FirstCollected
    <3> QED BY <2>1, <2>3, <3>2
  <2>4. CASE i # 0
    <3>1. i \in 1..(n - 1) /\ Bucketed(X[i], stream, i, dense)
      BY <1>4, <2>4
    <3>2. X[i] # <<>> /\ Last(X[i]) = X[i][Len(X[i])]
      BY <3>1 DEF Bucketed, Last
    <3>3. CASE X[i][Len(X[i])].ts = FloorToBucket(stream[i + 1].ts)
      <4>1. X[i + 1] = Append(Front(X[i]), Added(X[i][Len(X[i])], stream[i + 1]))
        BY <2>2, <3>2, <3>3, Zenon DEF Collected
      <4>2. Bucketed(X[i + 1], stream, i + 1, dense)
        BY <3>1, <3>3, <4>1, AddedIsBucketed
      <4> QED BY <2>1, <4>2
    <3>4. CASE X[i][Len(X[i])].ts # FloorToBucket(stream[i + 1].ts)
      <4>1. X[i + 1] = Append(X[i], Started(stream[i + 1]))
        BY <2>2, <3>2, <3>4, Zenon DEF Collected
      <4>2. Bucketed(X[i + 1], stream, i + 1, dense)
        BY <3>1, <3>4, <4>1, StartedIsBucketed
      <4> QED BY <2>1, <4>2
    <3> QED BY <3>3, <3>4
  <2> QED BY <2>3, <2>4
<1>5. n \in Good
  <2>1. 0..n \subseteq Good
    <3> HIDE DEF Good
    <3> QED BY <1>3, <1>4, UpwardInduction
  <2> QED BY <2>1
<1> QED BY <1>2, <1>5

LEMMA StreamRises ==
  ASSUME NEW stream \in Seq(Bars), InOrder(stream), NEW dense, dense => Dense(stream),
         NEW n, n = Len(stream)
  PROVE  n \in Nat /\ Rises(stream, n, dense)
<1>1. n \in Nat /\ stream \in [1..n -> Bars]
  OBVIOUS
<1>2. \A k \in 1..n : stream[k].ts \in Int
  BY <1>1 DEF Bars
<1> DEFINE Good == {l \in 0..n : \A k \in 1..l : k < l => stream[k].ts < stream[l].ts}
<1>3. 0 \in Good
  BY <1>1
<1>4. ASSUME NEW l \in 0..(n - 1), l \in Good PROVE l + 1 \in Good
  <2>1. l + 1 \in 0..n /\ l + 1 \in 1..n
    BY <1>1
  <2>2. ASSUME NEW k \in 1..(l + 1), k < l + 1 PROVE stream[k].ts < stream[l + 1].ts
    <3>1. k \in 1..n /\ l \in 1..n /\ l \in 1..(n - 1)
      BY <1>1, <2>1, <2>2
    <3>2. stream[l].ts < stream[l + 1].ts
      BY <3>1 DEF InOrder
    <3>3. CASE k = l
      BY <3>2, <3>3
    <3>4. CASE k # l
      <4>1. k \in 1..l /\ k < l
        BY <1>1, <2>1, <2>2, <3>4
      <4>2. stream[k].ts < stream[l].ts
        BY <1>4, <4>1
      <4> QED BY <1>2, <2>1, <3>1, <3>2, <4>2
    <3> QED BY <3>3, <3>4
  <2> QED BY <2>1, <2>2
<1>5. 0..n \subseteq Good
  <2> HIDE DEF Good
  <2> QED BY <1>1, <1>3, <1>4, UpwardInduction
<1>6. \A k, l \in 1..n : k < l => stream[k].ts < stream[l].ts
  <2> SUFFICES ASSUME NEW k \in 1..n, NEW l \in 1..n, k < l
               PROVE  stream[k].ts < stream[l].ts
    OBVIOUS
  <2>1. l \in 0..n /\ k \in 1..l
    BY <1>1
  <2>2. l \in Good
    BY <1>5, <2>1
  <2> QED BY <2>1, <2>2
<1>7. dense => \A k \in 1..(n - 1) : stream[k + 1].ts < stream[k].ts + Bucket
  BY DEF Dense
<1> QED BY <1>1, <1>6, <1>7 DEF Rises

MinutesOf(bar, S) == {b \in S : FloorToBucket(b.ts) = bar.ts}
MinutesUntil(bar, S) == {b \in S : b.ts < bar.ts + Bucket}

\* What a bar that covers its stream is made of.
LEMMA CoveredVolume ==
  ASSUME NEW S, S \subseteq Bars, NEW stream, Streams(stream, S), NEW n, n = Len(stream),
         NEW dense, Rises(stream, n, dense), NEW bar, Covers(bar, stream, n)
  PROVE  bar.volume = SumFunction([b \in MinutesOf(bar, S) |-> b.volume])
<1> DEFINE ts == bar.ts
           M == MinutesOf(bar, S)
           g == [b \in M |-> b.volume]
           V == VolumeAt(stream, ts)
           I == 1..n
           K == {k \in I : stream[k] \in S /\ FloorToBucket(stream[k].ts) = ts}
<1>1. /\ stream \in Seq(Bars) /\ n \in Nat /\ stream \in [1..n -> Bars] /\ DOMAIN stream = 1..n
      /\ \A b \in S : \E k \in 1..n : stream[k] = b
      /\ \A k \in 1..n : stream[k] \in S \/ stream[k].volume = 0
      /\ \A k, l \in 1..n : k < l => stream[k].ts < stream[l].ts
  <2>1. stream \in Seq(Bars)
    BY DEF Streams
  <2>2. n \in Nat /\ DOMAIN stream = 1..n
    BY <2>1
  <2> QED BY <2>1, <2>2 DEF Streams, Carries, Rises
<1>2. IsFiniteSet(I)
  <2>1. 1 \in Int /\ n \in Int
    BY <1>1
  <2> QED BY <2>1, FS_Interval
<1>3. /\ \A k \in I : V[k] \in Int
      /\ \A k \in I : FloorToBucket(stream[k].ts) = ts => V[k] = stream[k].volume
      /\ \A k \in I : FloorToBucket(stream[k].ts) # ts => V[k] = 0
  BY <1>1, VolumeParts
<1>4. bar.volume = SumFunctionOnSet(V, I)
  BY DEF Covers
<1> HIDE DEF V
<1>5. K \in SUBSET I /\ IsFiniteSet(K) /\ IsFiniteSet(I \ K)
  BY <1>2, FS_Subset
<1>6. SumFunctionOnSet(V, I) = SumFunctionOnSet(V, K) + SumFunctionOnSet(V, I \ K)
  BY <1>2, <1>3, <1>5, SumSplit
<1>7. SumFunctionOnSet(V, I \ K) = 0
  <2>1. \A k \in I \ K : V[k] = 0
    BY <1>1, <1>3
  <2> QED BY <1>5, <2>1, SumZero
<1>8. SumFunctionOnSet(V, K) = SumFunctionOnSet(g, M)
  <2>1. \A k, l \in K : stream[k] = stream[l] => k = l
    <3> SUFFICES ASSUME NEW k \in K, NEW l \in K, stream[k] = stream[l], k # l PROVE FALSE
      OBVIOUS
    <3>1. stream[k].ts \in Int
      BY <1>1 DEF Bars
    <3>2. k \in 1..n /\ l \in 1..n /\ (k < l \/ l < k)
      BY <1>1
    <3> QED BY <1>1, <3>1, <3>2
  <2>2. \A k \in K : stream[k] \in M /\ V[k] \in Int /\ g[stream[k]] = V[k]
    <3>1. \A k \in K : stream[k] \in M
      BY DEF MinutesOf
    <3> QED BY <1>3, <3>1
  <2>3. \A b \in M : \E k \in K : stream[k] = b
    BY <1>1 DEF MinutesOf
  <2>4. Reindexes(stream, K, V, M, g)
    BY <2>1, <2>2, <2>3 DEF Reindexes
  <2> HIDE DEF K, M, g
  <2> QED BY <1>5, <2>4, SumReindexed
<1>9. SumFunctionOnSet(V, K) \in Int
  <2>1. \A k \in K : V[k] \in Int
    BY <1>3
  <2> QED BY <1>5, <2>1, SumType
<1>10. DOMAIN g = M
  OBVIOUS
<1> HIDE DEF g, K, I, M
<1>11. SumFunction(g) = SumFunctionOnSet(g, M)
  BY <1>10 DEF SumFunction
<1>12. bar.volume = SumFunction(g)
  BY <1>4, <1>6, <1>7, <1>8, <1>9, <1>11
<1> QED BY <1>12 DEF g, M

LEMMA CoveredClose ==
  ASSUME NEW S, S \subseteq Bars, NEW stream, Streams(stream, S), NEW n, n = Len(stream),
         NEW bar \in Bars, Covers(bar, stream, n)
  PROVE  \E b \in MinutesUntil(bar, S) : /\ bar.close = b.close
                                         /\ \A c \in MinutesUntil(bar, S) : c.ts <= b.ts
<1>1. /\ stream \in Seq(Bars) /\ DOMAIN stream = 1..n
      /\ \A b \in S : \E k \in 1..n : stream[k] = b
      /\ \A k \in 1..n : \E b \in S : LatestAt(b, S, stream[k].ts) /\ stream[k].close = b.close
  <2>1. stream \in Seq(Bars)
    BY DEF Streams
  <2>2. DOMAIN stream = 1..n
    BY <2>1
  <2> QED BY <2>1, <2>2 DEF Streams, Carries
<1>2. PICK k \in 1..n :
         /\ InBucket(stream, k, bar) /\ bar.close = stream[k].close
         /\ \A l \in 1..n : InBucket(stream, l, bar) => stream[l].ts <= stream[k].ts
  BY DEF Covers
<1>3. PICK b \in S : LatestAt(b, S, stream[k].ts) /\ stream[k].close = b.close
  BY <1>1
<1> DEFINE t == stream[k].ts
<1>4. t \in Int /\ bar.ts \in Int /\ Bucket \in Nat /\ \A c \in S : c.ts \in Int
  <2>1. stream[k] \in Bars
    BY <1>1
  <2> QED BY <2>1, BucketAssumption DEF Bars
<1>5. FloorToBucket(t) = bar.ts
  BY <1>2 DEF InBucket
<1>6. b.ts <= t /\ \A c \in S : c.ts <= t => c.ts <= b.ts
  BY <1>3 DEF LatestAt
<1> HIDE DEF t
<1>7. t < bar.ts + Bucket
  <2>1. t <= t
    BY <1>4
  <2>2. t < FloorToBucket(t) + Bucket
    BY <1>4, <2>1, BucketBounds
  <2> QED BY <1>5, <2>2
<1>8. b \in MinutesUntil(bar, S)
  BY <1>4, <1>6, <1>7 DEF MinutesUntil
<1>9. ASSUME NEW c \in MinutesUntil(bar, S) PROVE c.ts <= b.ts
  <2>1. c \in S /\ c.ts \in Int /\ c.ts < bar.ts + Bucket
    BY <1>4 DEF MinutesUntil
  <2>2. c.ts <= t
    <3> SUFFICES ASSUME t < c.ts PROVE FALSE
      BY <1>4, <2>1
    <3>1. PICK l \in 1..n : stream[l] = c
      BY <1>1, <2>1
    <3>2. t <= c.ts
      BY <1>4, <2>1
    <3>3. /\ FloorToBucket(c.ts) \in Int /\ FloorToBucket(c.ts) <= c.ts
      <4>1. c.ts <= c.ts
        BY <2>1
      <4> QED BY <2>1, <4>1, BucketBounds
    <3>4. FloorToBucket(t) # FloorToBucket(c.ts) =>
             FloorToBucket(t) + Bucket <= FloorToBucket(c.ts)
      BY <1>4, <2>1, <3>2, BucketBounds
    <3>5. FloorToBucket(c.ts) = bar.ts
      BY <1>4, <1>5, <2>1, <3>3, <3>4
    <3>6. stream[l].ts <= stream[k].ts
      BY <1>2, <3>1, <3>5 DEF InBucket
    <3> QED BY <1>4, <2>1, <3>1, <3>6 DEF t
  <2> QED BY <1>6, <2>1, <2>2
<1> QED BY <1>2, <1>3, <1>8, <1>9

\* Of two sources the second wins.
LEMMA MergedSources ==
  ASSUME NEW F, NEW G
  PROVE  Composite(<<F, G>>) = InTime(G \cup {b \in F : \A c \in G : c.ts # b.ts})
<1> DEFINE src == <<F, G>>
           Having(t) == {k \in DOMAIN src : \E b \in src[k] : b.ts = t}
           kept == {b \in UNION Range(src) : b \in src[Max(Having(b.ts))]}
           M == G \cup {b \in F : \A c \in G : c.ts # b.ts}
<1>1. DOMAIN src = {1, 2} /\ src[1] = F /\ src[2] = G
  OBVIOUS
<1>2. UNION Range(src) = F \cup G
  BY <1>1 DEF Range
<1> HIDE DEF src
<1>3. Max({1}) = 1 /\ Max({2}) = 2 /\ Max({1, 2}) = 2
  <2>1. Max({1, 1}) = 1 /\ Max({2, 2}) = 2 /\ Max({1, 2}) = 2
    <3>1. 1 \in Int /\ 2 \in Int /\ ~ (1 >= 2) /\ 1 >= 1 /\ 2 >= 2
      OBVIOUS
    <3> QED BY <3>1, GreaterOfTwo
  <2>2. {1, 1} = {1} /\ {2, 2} = {2}
    OBVIOUS
  <2> QED BY <2>1, <2>2
<1>4. ASSUME NEW b \in G PROVE Max(Having(b.ts)) = 2
  <2>1. 2 \in Having(b.ts) /\ Having(b.ts) \subseteq {1, 2}
    BY <1>1
  <2>2. Having(b.ts) = {2} \/ Having(b.ts) = {1, 2}
    BY <2>1
  <2> QED BY <1>3, <2>2
<1>5. ASSUME NEW b \in F, \A c \in G : c.ts # b.ts PROVE Max(Having(b.ts)) = 1
  <2>1. Having(b.ts) = {1}
    BY <1>1, <1>5
  <2> QED BY <1>3, <2>1
<1>6. ASSUME NEW b \in F, NEW c \in G, c.ts = b.ts PROVE Max(Having(b.ts)) = 2
  <2>1. Max(Having(c.ts)) = 2
    BY <1>4
  <2> QED BY <1>6, <2>1
<1> HIDE DEF Having
<1>7. kept = M
  <2>1. ASSUME NEW b \in kept PROVE b \in M
    <3>1. b \in F \cup G /\ b \in src[Max(Having(b.ts))]
      BY <1>2
    <3>2. CASE b \in G
      BY <3>2
    <3>3. CASE b \notin G
      <4>1. ASSUME NEW c \in G PROVE c.ts # b.ts
        <5> SUFFICES ASSUME c.ts = b.ts PROVE FALSE
          OBVIOUS
        <5>1. Max(Having(b.ts)) = 2
          BY <1>6, <3>1, <3>3
        <5> QED BY <1>1, <3>1, <3>3, <5>1
      <4> QED BY <3>1, <3>3, <4>1
    <3> QED BY <3>2, <3>3
  <2>2. ASSUME NEW b \in M PROVE b \in kept
    <3>1. CASE b \in G
      BY <1>1, <1>2, <1>4, <3>1
    <3>2. CASE b \notin G
      <4>1. b \in F /\ \A c \in G : c.ts # b.ts
        BY <3>2
      <4>2. Max(Having(b.ts)) = 1
        BY <1>5, <4>1
      <4> QED BY <1>1, <1>2, <4>1, <4>2
    <3> QED BY <3>1, <3>2
  <2> QED BY <2>1, <2>2
<1>8. Composite(src) = InTime(kept)
  BY Zenon DEF Composite, Having
<1> QED BY <1>7, <1>8 DEF src

\* No minutes make no bars.
LEMMA NoMinutes ==
  ASSUME NEW gapFill PROVE Aggregate(InTime({}), gapFill) = <<>>
<1>1. IsFiniteSet({}) /\ Cardinality({}) = 0 /\ {} \subseteq Bars /\ OnePerTime({})
  BY FS_EmptySet DEF OnePerTime
<1>2. ListsInTime(InTime({}), {}, 0)
  BY <1>1, InTimeLists
<1>3. InTime({}) \in [1..0 -> Bars]
  BY <1>2 DEF ListsInTime
<1>4. <<>> \in [1..0 -> Bars] /\ 0 \in Nat
  OBVIOUS
<1>5. FillGaps(InTime({})) = <<>>
  BY <1>3, <1>4, FillStates
<1>6. AggregateStream(<<>>) = <<>> /\ AggregateStream(InTime({})) = <<>>
  BY <1>3, <1>4, BarStates
<1> QED BY <1>5, <1>6 DEF Aggregate

\* Bars are what the minutes of their buckets sum up to, whatever minutes there
\* are, with their gaps filled or not (bar_aggregator.py:30-138).
THEOREM MinutesMakeBars ==
  ASSUME NEW S, S \subseteq Bars, IsFiniteSet(S), OnePerTime(S), NEW gapFill \in BOOLEAN
  PROVE  SumUp(Aggregate(InTime(S), gapFill), S, gapFill)
<1> DEFINE e == InTime(S)
           n == Cardinality(S)
           stream == IF gapFill THEN FillGaps(e) ELSE e
           bars == Aggregate(e, gapFill)
<1>1. bars = AggregateStream(stream)
  BY DEF Aggregate
<1>2. n \in Nat /\ ListsInTime(e, S, n)
  BY InTimeLists
<1>3. CASE S = {}
  <2>1. bars = <<>>
    BY <1>3, NoMinutes
  <2> HIDE DEF bars
  <2>2. Range(bars) = {} /\ Len(bars) - 1 = -1
    BY <2>1 DEF Range
  <2>3. 1..(Len(bars) - 1) = {}
    BY <2>2
  <2>4. SumUp(bars, S, gapFill)
    BY <1>3, <2>2, <2>3 DEF SumUp
  <2> QED BY <2>4 DEF bars
<1>4. CASE S # {}
  <2>1. n # 0
    BY <1>4, FS_EmptySet
  <2> HIDE DEF e, n
  <2>2. Streams(stream, S) /\ (gapFill => Dense(stream))
    BY <1>2, <2>1, FilledStreams, ListStreams
  <2> DEFINE N == Len(stream)
  <2> HIDE DEF stream, bars
  <2>3. /\ stream \in Seq(Bars) /\ stream # <<>> /\ InOrder(stream)
        /\ \A b \in S : \E i \in DOMAIN stream : stream[i] = b
    BY <2>2 DEF Streams, EndsIn, Carries
  <2>4. N \in Nat \ {0} /\ DOMAIN stream = 1..N
    BY <2>3
  <2>5. Rises(stream, N, gapFill)
    BY <2>2, <2>3, StreamRises
  <2>6. Bucketed(bars, stream, N, gapFill)
    BY <1>1, <2>4, <2>5, StreamIsBucketed
  <2>7. bars \in Seq(Bars) /\ DOMAIN bars = 1..Len(bars) /\ Range(bars) = {bars[j] : j \in 1..Len(bars)}
    <3>1. bars \in Seq(Bars)
      BY <2>6 DEF Bucketed
    <3>2. DOMAIN bars = 1..Len(bars)
      BY <3>1
    <3> QED BY <3>1, <3>2 DEF Range
  <2>8. ASSUME NEW bar \in Range(bars)
        PROVE  /\ bar.volume = SumFunction([b \in MinutesOf(bar, S) |-> b.volume])
               /\ \A b \in MinutesOf(bar, S) : bar.low <= b.low /\ b.high <= bar.high
               /\ bar.low <= bar.open /\ bar.open <= bar.high
               /\ \E b \in MinutesUntil(bar, S) :
                    bar.close = b.close /\ \A c \in MinutesUntil(bar, S) : c.ts <= b.ts
    <3>1. bar \in Bars /\ Covers(bar, stream, N)
      BY <2>6, <2>7 DEF Bucketed
    <3>2. bar.volume = SumFunction([b \in MinutesOf(bar, S) |-> b.volume])
      BY <2>2, <2>5, <3>1, CoveredVolume
    <3>3. \A b \in MinutesOf(bar, S) : bar.low <= b.low /\ b.high <= bar.high
      <4> SUFFICES ASSUME NEW b \in MinutesOf(bar, S)
                   PROVE  bar.low <= b.low /\ b.high <= bar.high
        OBVIOUS
      <4>1. b \in S /\ FloorToBucket(b.ts) = bar.ts
        BY DEF MinutesOf
      <4>2. PICK k \in 1..N : stream[k] = b
        BY <2>3, <2>4, <4>1
      <4>3. InBucket(stream, k, bar)
        BY <4>1, <4>2 DEF InBucket
      <4> QED BY <3>1, <4>2, <4>3 DEF Covers
    <3>4. bar.low <= bar.open /\ bar.open <= bar.high
      BY <3>1 DEF Covers
    <3>5. \E b \in MinutesUntil(bar, S) :
            bar.close = b.close /\ \A c \in MinutesUntil(bar, S) : c.ts <= b.ts
      BY <2>2, <3>1, CoveredClose
    <3> QED BY <3>2, <3>3, <3>4, <3>5
  <2>9. {FloorToBucket(b.ts) : b \in S} \subseteq {bar.ts : bar \in Range(bars)}
    <3> SUFFICES ASSUME NEW b \in S PROVE \E bar \in Range(bars) : FloorToBucket(b.ts) = bar.ts
      OBVIOUS
    <3>1. PICK k \in 1..N : stream[k] = b
      BY <2>3, <2>4
    <3>2. PICK j \in 1..Len(bars) : InBucket(stream, k, bars[j])
      BY <2>6 DEF Bucketed
    <3> QED BY <2>7, <3>1, <3>2 DEF InBucket
  <2>10. \A j \in 1..(Len(bars) - 1) :
           IF gapFill THEN bars[j + 1].ts = bars[j].ts + Bucket
           ELSE bars[j + 1].ts > bars[j].ts
    <3> SUFFICES ASSUME NEW j \in 1..(Len(bars) - 1)
                 PROVE  IF gapFill THEN bars[j + 1].ts = bars[j].ts + Bucket
                        ELSE bars[j + 1].ts > bars[j].ts
      OBVIOUS
    <3>1. bars[j].ts < bars[j + 1].ts /\ (gapFill => bars[j + 1].ts = bars[j].ts + Bucket)
      BY <2>6 DEF Bucketed
    <3>2. bars[j].ts \in Int /\ bars[j + 1].ts \in Int
      <4>1. bars[j] \in Bars /\ bars[j + 1] \in Bars
        BY <2>7
      <4> QED BY <4>1 DEF Bars
    <3> QED BY <3>1, <3>2
  <2>11. SumUp(bars, S, gapFill)
    BY <2>8, <2>9, <2>10 DEF SumUp, MinutesOf, MinutesUntil
  <2> QED BY <2>11 DEF bars, e
<1> QED BY <1>3, <1>4

-----------------------------------------------------------------------------
(* What the actions pick, and the invariants of the specification *)

BarsInput(s) ==
  /\ s.gapFill \in BOOLEAN
  /\ s.sources[1] \subseteq Reports[1] /\ s.sources[2] \subseteq Reports[2]

RowsInput(s) == s.rows \in Seq(Rows)

RecoveryInput(s) ==
  /\ s.events \in Seq(StreamEvents) /\ \A i \in DOMAIN s.events : Supported(s.events[i])
  /\ s.taken \in 0..Len(s.events) /\ s.listened \in 0..s.taken

AuditInput(s) == Ledger(s.log) /\ VerifyChain(s.log) /\ Ledger(s.other)

\* order lists each place of seq.
Onto(order, seq) ==
  /\ order \in [DOMAIN seq -> DOMAIN seq]
  /\ \A i \in DOMAIN seq : \E k \in DOMAIN seq : order[k] = i

FailoverInput(s) == s.standbys \in Seq(Health) /\ Onto(s.order, s.standbys)

DisasterInput(s) ==
  s.snapshots \in Seq(Snapshots) /\ s.snapshots # <<>> /\ Onto(s.order, s.snapshots)

AllocationInput(s) ==
  /\ s.signals \in [1..4 -> AllocationSignal] /\ Feasible(4)
  /\ \A n \in 1..4 : ValidSignal(s.signals[n])

CorrelationInput(s) ==
  \E x \in Seq(Int), y \in Seq(Int), k \in Int \ {0} :
    s.returns = <<x, y, [i \in DOMAIN x |-> k * x[i]]>>

TailInput(s) ==
  s.returns \in Seq(Int) /\ s.returns # <<>> /\ s.tailPct \in 1..99 /\ s.up \in BOOLEAN

ExposureInput(s) == s.positions \in Seq(Positions)

\* What has been picked is an input of its computation.
Input(s) ==
  \/ s.of = "bars" /\ BarsInput(s)
  \/ s.of = "rows" /\ RowsInput(s)
  \/ s.of = "recovery" /\ RecoveryInput(s)
  \/ s.of = "audit" /\ AuditInput(s)
  \/ s.of = "failover" /\ FailoverInput(s)
  \/ s.of = "disaster" /\ DisasterInput(s)
  \/ s.of = "allocation" /\ AllocationInput(s)
  \/ s.of = "correlation" /\ CorrelationInput(s)
  \/ s.of = "tail" /\ TailInput(s)
  \/ s.of = "exposure" /\ ExposureInput(s)

PickedIsInput == sample = None \/ Input(sample)

LEMMA UpToIsSequence ==
  ASSUME NEW n \in Nat, NEW S, NEW x \in UpTo(n, S)
  PROVE  x \in Seq(S)
<1>1. PICK k \in 0..n : x \in [1..k -> S]
  BY DEF UpTo
<1> QED BY <1>1

LEMMA OrdersAreOnto ==
  ASSUME NEW p \in Orders
  PROVE  p \in [1..3 -> 1..3] /\ \A i \in 1..3 : \E k \in 1..3 : p[k] = i
<1>1. p \in [1..3 -> 1..3] /\ \A a, b \in 1..3 : p[a] = p[b] => a = b
  BY DEF Orders, Instances, IsInjective
<1>2. 1 \in 1..3 /\ 2 \in 1..3 /\ 3 \in 1..3
  OBVIOUS
<1>3. /\ p[1] \in 1..3 /\ p[2] \in 1..3 /\ p[3] \in 1..3
      /\ p[1] # p[2] /\ p[1] # p[3] /\ p[2] # p[3]
  BY <1>1, <1>2
<1>4. ASSUME NEW i \in 1..3 PROVE p[1] = i \/ p[2] = i \/ p[3] = i
  BY <1>3
<1> QED BY <1>1, <1>2, <1>4

LEMMA BarsPickInput == ASSUME AggregateBars PROVE Input(sample')
<1>1. PICK first \in SUBSET Reports[1], second \in SUBSET Reports[2],
           start \in Starts, gapFill \in BOOLEAN :
        sample' = [of |-> "bars", start |-> start, gapFill |-> gapFill,
                   sources |-> <<first, second>>]
  BY DEF AggregateBars, Pick
<1>2. /\ sample'.of = "bars" /\ sample'.gapFill = gapFill
      /\ sample'.sources = <<first, second>>
  BY <1>1
<1> QED BY <1>2 DEF Input, BarsInput

LEMMA FetchPicksInput == ASSUME FetchRows PROVE Input(sample')
<1>1. PICK rows \in UpTo(3, Rows) : sample' = [of |-> "rows", rows |-> rows]
  BY DEF FetchRows, Pick
<1>2. rows \in Seq(Rows)
  BY UpToIsSequence
<1>3. sample'.of = "rows" /\ sample'.rows = rows
  BY <1>1
<1> QED BY <1>2, <1>3 DEF Input, RowsInput

LEMMA RecoverPicksInput == ASSUME Recover PROVE Input(sample')
<1>1. PICK events \in UpTo(MaxEvents, StreamEvents) :
        /\ \A i \in DOMAIN events : Supported(events[i])
        /\ \E taken \in 0..Len(events) : \E listened \in 0..taken :
             sample' = [of |-> "recovery", events |-> events, taken |-> taken,
                        listened |-> listened]
  BY DEF Recover, Pick
<1>2. events \in Seq(StreamEvents)
  BY UpToIsSequence, SamplesAssumption
<1>3. PICK taken \in 0..Len(events) : \E listened \in 0..taken :
        sample' = [of |-> "recovery", events |-> events, taken |-> taken,
                   listened |-> listened]
  BY <1>1
<1>4. PICK listened \in 0..taken :
        sample' = [of |-> "recovery", events |-> events, taken |-> taken,
                   listened |-> listened]
  BY <1>3
<1>5. /\ sample'.of = "recovery" /\ sample'.events = events
      /\ sample'.taken = taken /\ sample'.listened = listened
  BY <1>4
<1>6. RecoveryInput(sample')
  BY <1>1, <1>2, <1>5 DEF RecoveryInput
<1> QED BY <1>5, <1>6 DEF Input

LEMMA ForgedIsLedger ==
  ASSUME NEW log, Ledger(log), NEW other \in Forged(log)
  PROVE  Ledger(other)
<1> DEFINE twice == {Edits(once) : once \in Edits(log)}
           anew == {Built(c) : c \in UpTo(3, Contents)}
<1>1. Forged(log) = (UNION twice) \cup anew
  BY Zenon DEF Forged
<1>2. \A x \in anew : \E c \in UpTo(3, Contents) : x = Built(c)
  OBVIOUS
<1>3. \A X \in twice : \E once \in Edits(log) : X = Edits(once)
  OBVIOUS
<1> HIDE DEF twice, anew
<1>4. CASE other \in anew
  BY <1>2, <1>4, UpToIsSequence, BuiltVerifies
<1>5. CASE other \in UNION twice
  <2>1. PICK X \in twice : other \in X
    BY <1>5
  <2>2. PICK once \in Edits(log) : X = Edits(once)
    BY <1>3
  <2>3. Ledger(once)
    BY EditedIsLedger
  <2> QED BY <2>1, <2>2, <2>3, EditedIsLedger
<1> QED BY <1>1, <1>4, <1>5

LEMMA AuditPicksInput == ASSUME Audit PROVE Input(sample')
<1>1. PICK contents \in UpTo(3, Contents) :
        \E other \in Forged(Built(contents)) :
          sample' = [of |-> "audit", log |-> Built(contents), other |-> other]
  BY DEF Audit, Pick
<1>2. PICK other \in Forged(Built(contents)) :
        sample' = [of |-> "audit", log |-> Built(contents), other |-> other]
  BY <1>1
<1>3. Ledger(Built(contents)) /\ VerifyChain(Built(contents))
  BY UpToIsSequence, BuiltVerifies
<1>4. Ledger(other)
  BY <1>3, ForgedIsLedger
<1>5. sample'.of = "audit" /\ sample'.log = Built(contents) /\ sample'.other = other
  BY <1>2
<1> QED BY <1>3, <1>4, <1>5 DEF Input, AuditInput

LEMMA FailoverPicksInput == ASSUME Failover PROVE Input(sample')
<1>1. PICK primary \in Primaries, standby \in [Instances -> Signals], p \in Orders :
        sample' = [of |-> "failover", primary |-> primary,
                   standbys |-> [i \in Instances |-> standby[i]], order |-> p]
  BY DEF Failover, Pick
<1> DEFINE standbys == [i \in Instances |-> standby[i]]
<1>2. standbys \in [1..3 -> Health]
  BY SamplesAssumption DEF Instances, Health
<1>3. standbys \in Seq(Health) /\ DOMAIN standbys = 1..3
  BY <1>2
<1>4. sample'.of = "failover" /\ sample'.standbys = standbys /\ sample'.order = p
  BY <1>1
<1> HIDE DEF standbys
<1>5. Onto(p, standbys)
  BY <1>3, OrdersAreOnto DEF Onto
<1> QED BY <1>3, <1>4, <1>5 DEF Input, FailoverInput

LEMMA DisasterPicksInput == ASSUME DisasterRecovery PROVE Input(sample')
<1>1. PICK checkpoint \in [Instances -> Checkpoints], target \in Instances, p \in Orders :
        sample' = [of |-> "disaster", target |-> target, order |-> p,
                   snapshots |-> [i \in Instances |->
                       [id |-> i, generation |-> checkpoint[i].generation,
                        checkpoint |-> checkpoint[i].checkpoint]]]
  BY DEF DisasterRecovery, Pick
<1> DEFINE snapshots == [i \in Instances |->
                           [id |-> i, generation |-> checkpoint[i].generation,
                            checkpoint |-> checkpoint[i].checkpoint]]
<1>2. \A i \in 1..3 : checkpoint[i].generation \in Int /\ checkpoint[i].checkpoint \in Int
  <2>1. \A i \in 1..3 : checkpoint[i] \in Checkpoints
    BY DEF Instances
  <2>2. \A c \in Checkpoints : c.generation \in Int /\ c.checkpoint \in Int
    BY SamplesAssumption
  <2> QED BY <2>1, <2>2
<1>3. snapshots \in [1..3 -> Snapshots]
  BY <1>2 DEF Instances, Snapshots
<1>4. sample'.of = "disaster" /\ sample'.snapshots = snapshots /\ sample'.order = p
  BY <1>1
<1> HIDE DEF snapshots
<1>5. snapshots \in Seq(Snapshots) /\ DOMAIN snapshots = 1..3 /\ snapshots # <<>>
  <2>1. snapshots \in Seq(Snapshots) /\ DOMAIN snapshots = 1..3
    <3>1. DOMAIN snapshots = 1..3
      BY <1>3
    <3>2. snapshots \in UpTo(3, Snapshots)
      BY <1>3 DEF UpTo
    <3> QED BY <3>1, <3>2, UpToIsSequence
  <2>2. DOMAIN <<>> = {} /\ 1 \in 1..3
    OBVIOUS
  <2> QED BY <2>1, <2>2
<1>6. Onto(p, snapshots)
  BY <1>5, OrdersAreOnto DEF Onto
<1> QED BY <1>4, <1>5, <1>6 DEF Input, DisasterInput

LEMMA AllocatePicksInput == ASSUME Allocate PROVE Input(sample')
<1>1. PICK signals \in [1..4 -> AllocationSignals] :
        /\ Feasible(4) /\ \A n \in 1..4 : ValidSignal(signals[n])
        /\ sample' = [of |-> "allocation", signals |-> signals]
  BY DEF Allocate, Pick
<1>2. signals \in [1..4 -> AllocationSignal]
  BY SamplesAssumption DEF AllocationSignal
<1>3. sample'.of = "allocation" /\ sample'.signals = signals
  BY <1>1
<1> QED BY <1>1, <1>2, <1>3 DEF Input, AllocationInput

LEMMA CorrelatePicksInput == ASSUME Correlate PROVE Input(sample')
<1>1. PICK x \in Returns, y \in Returns, k \in Multiples :
        sample' = [of |-> "correlation",
                   returns |-> <<x, y, [i \in DOMAIN x |-> k * x[i]]>>]
  BY DEF Correlate, Pick
<1>2. x \in Seq(Int) /\ y \in Seq(Int) /\ k \in Int \ {0}
  BY SamplesAssumption
<1> DEFINE returns == <<x, y, [i \in DOMAIN x |-> k * x[i]]>>
<1>3. CorrelationInput([of |-> "correlation", returns |-> returns])
  BY <1>2 DEF CorrelationInput
<1> HIDE DEF returns
<1>4. sample'.of = "correlation" /\ CorrelationInput(sample')
  BY <1>1, <1>3 DEF returns
<1> QED BY <1>4 DEF Input

LEMMA TailPicksInput == ASSUME MeasureTail PROVE Input(sample')
<1>1. PICK x \in Returns, tailPct \in Tails, up \in BOOLEAN :
        sample' = [of |-> "tail", returns |-> x, tailPct |-> tailPct, up |-> up]
  BY DEF MeasureTail, Pick
<1>2. x \in Seq(Int) /\ x # <<>> /\ tailPct \in 1..99
  BY SamplesAssumption
<1>3. /\ sample'.of = "tail" /\ sample'.returns = x /\ sample'.tailPct = tailPct
      /\ sample'.up = up
  BY <1>1
<1> QED BY <1>2, <1>3 DEF Input, TailInput

LEMMA ExposurePicksInput == ASSUME MeasureExposure PROVE Input(sample')
<1>1. PICK positions \in UpTo(3, Positions) :
        sample' = [of |-> "exposure", positions |-> positions]
  BY DEF MeasureExposure, Pick
<1>2. positions \in Seq(Positions)
  BY UpToIsSequence
<1>3. sample'.of = "exposure" /\ sample'.positions = positions
  BY <1>1
<1> QED BY <1>2, <1>3 DEF Input, ExposureInput

\* In every state what has been picked is an input of its computation.
THEOREM InputsArePicked == Spec => []PickedIsInput
<1>1. Init => PickedIsInput
  BY DEF Init, PickedIsInput
<1>2. PickedIsInput /\ [Next]_vars => PickedIsInput'
  <2> SUFFICES ASSUME PickedIsInput, [Next]_vars PROVE PickedIsInput'
    OBVIOUS
  <2>1. CASE AggregateBars
    BY <2>1, BarsPickInput DEF PickedIsInput
  <2>2. CASE FetchRows
    BY <2>2, FetchPicksInput DEF PickedIsInput
  <2>3. CASE Recover
    BY <2>3, RecoverPicksInput DEF PickedIsInput
  <2>4. CASE Audit
    BY <2>4, AuditPicksInput DEF PickedIsInput
  <2>5. CASE Failover
    BY <2>5, FailoverPicksInput DEF PickedIsInput
  <2>6. CASE DisasterRecovery
    BY <2>6, DisasterPicksInput DEF PickedIsInput
  <2>7. CASE Allocate
    BY <2>7, AllocatePicksInput DEF PickedIsInput
  <2>8. CASE Correlate
    BY <2>8, CorrelatePicksInput DEF PickedIsInput
  <2>9. CASE MeasureTail
    BY <2>9, TailPicksInput DEF PickedIsInput
  <2>10. CASE MeasureExposure
    BY <2>10, ExposurePicksInput DEF PickedIsInput
  <2>11. CASE Manage
    BY <2>11 DEF Manage, PickedIsInput
  <2>12. CASE Adapt
    BY <2>12 DEF Adapt, PickedIsInput
  <2>13. CASE UNCHANGED vars
    BY <2>13 DEF vars, PickedIsInput
  <2> QED BY <2>1, <2>2, <2>3, <2>4, <2>5, <2>6, <2>7, <2>8, <2>9, <2>10, <2>11, <2>12,
             <2>13 DEF Next
<1> QED BY <1>1, <1>2, PTL DEF Spec

\* Bars are what their minutes sum up to, in every state (bar_aggregator.py:30-138,
\* sources.py:179-194).
THEOREM BarsAreMinutes == Spec => []BarsAreTheirMinutes
<1>1. PickedIsInput => BarsAreTheirMinutes
  <2> SUFFICES ASSUME PickedIsInput, Picked("bars") PROVE BarsAreTheirMinutes
    BY DEF BarsAreTheirMinutes
  <2>1. BarsInput(sample)
    BY DEF PickedIsInput, Picked, Input
  <2> DEFINE F == Fetched(1)
             G == Fetched(2)
  <2>2. F \subseteq Reports[1] /\ G \subseteq Reports[2]
    BY <2>1 DEF BarsInput, Fetched, FetchBars
  <2>3. /\ IsFiniteSet(Reports[1]) /\ IsFiniteSet(Reports[2])
        /\ Reports[1] \subseteq Bars /\ Reports[2] \subseteq Bars
        /\ \A b, c \in Reports[1] : b.ts = c.ts => b = c
        /\ \A b, c \in Reports[2] : b.ts = c.ts => b = c
    <3>1. 1 \in 1..2 /\ 2 \in 1..2
      OBVIOUS
    <3> QED BY <3>1, ReportsAssumption DEF Bars
  <2>4. Minutes = G \cup {b \in F : \A c \in G : c.ts # b.ts}
    BY DEF Minutes
  <2>5. Composite(<<F, G>>) = InTime(Minutes)
    BY <2>4, MergedSources
  <2> HIDE DEF F, G
  <2>6. Minutes \subseteq Bars
    BY <2>2, <2>3, <2>4
  <2>7. IsFiniteSet(Minutes)
    <3>1. Minutes \subseteq Reports[1] \cup Reports[2]
      BY <2>2, <2>4
    <3>2. IsFiniteSet(Reports[1] \cup Reports[2])
      BY <2>3, FS_Union
    <3> QED BY <3>1, <3>2, FS_Subset
  <2>8. OnePerTime(Minutes)
    BY <2>2, <2>3, <2>4 DEF OnePerTime
  <2>9. sample.gapFill \in BOOLEAN
    BY <2>1 DEF BarsInput
  <2>10. SumUp(Aggregate(InTime(Minutes), sample.gapFill), Minutes, sample.gapFill)
    BY <2>6, <2>7, <2>8, <2>9, MinutesMakeBars
  <2> QED BY <2>5, <2>10 DEF BarsAreTheirMinutes, F, G
<1> QED BY <1>1, InputsArePicked, PTL

\* A fetch that succeeds returns sound bars in time order, in every state
\* (checklist.py:32-107, dictionary.py:33-56, sources.py:203-244).
THEOREM FetchedBarsAreSound == Spec => []AdmittedBarsAreSound
<1>1. PickedIsInput => AdmittedBarsAreSound
  <2> DEFINE bars == RowsToBars(sample.rows, Symbol, Timeframe, 0, End)
             asked == {i \in DOMAIN sample.rows :
                         LET r == Normalize(sample.rows[i])
                         IN  r["symbol"] = Symbol /\ r["timeframe"] = Timeframe
                             /\ r["ts"] \in 0..End}
  <2> SUFFICES ASSUME PickedIsInput, Picked("rows"),
                      Fetchable(sample.rows, Symbol, Timeframe, 0, End)
               PROVE  /\ Len(bars) = Cardinality(asked)
                      /\ \A i \in 1..(Len(bars) - 1) : bars[i]["ts"] < bars[i + 1]["ts"]
                      /\ \A b \in Range(bars) : /\ b["volume"] >= 0
                                                /\ \A f \in Prices : /\ b["low"] <= b[f]
                                                                     /\ b[f] <= b["high"]
    BY DEF AdmittedBarsAreSound
  <2>1. RowsInput(sample)
    BY DEF PickedIsInput, Picked, Input
  <2>2. sample.rows \in Seq(Rows) /\ 0 \in Int /\ End \in Int
    BY <2>1, RowsAssumption DEF RowsInput
  <2>3. /\ Len(bars) = Cardinality(asked)
        /\ \A i \in 1..(Len(bars) - 1) : bars[i]["ts"] < bars[i + 1]["ts"]
        /\ \A b \in Range(bars) : Sound(b)
    BY <2>2, AdmittedRowsAreBars
  <2> HIDE DEF bars, asked
  <2> QED BY <2>3 DEF Sound
<1> QED BY <1>1, InputsArePicked, PTL

\* After a restart positions and orders are the exchange's, in every state
\* (recovery.py:31-53).
THEOREM RecoveryIsCurrent == Spec => []RecoveredIsCurrent
<1>1. PickedIsInput => RecoveredIsCurrent
  <2> SUFFICES ASSUME PickedIsInput, Picked("recovery") PROVE RecoveredIsCurrent
    BY DEF RecoveredIsCurrent
  <2>1. RecoveryInput(sample)
    BY DEF PickedIsInput, Picked, Input
  <2>2. RecoverState(ExchangeAfter(sample.events, sample.taken),
                     SubSeq(sample.events, sample.listened + 1, Len(sample.events)))
          = ExchangeAfter(sample.events, Len(sample.events))
    BY <2>1, RecoveryCatchesUp DEF RecoveryInput
  <2> QED BY <2>2 DEF RecoveredIsCurrent
<1> QED BY <1>1, InputsArePicked, PTL

\* A ledger that verifies and ends in the known last hash is the one that was
\* written, in every state (audit.py:65-83).
THEOREM LedgersAreOriginal == Spec => []VerifiedIsOriginal
<1>1. PickedIsInput => VerifiedIsOriginal
  <2> SUFFICES ASSUME PickedIsInput, Picked("audit") PROVE VerifiedIsOriginal
    BY DEF VerifiedIsOriginal
  <2>1. AuditInput(sample)
    BY DEF PickedIsInput, Picked, Input
  <2> QED BY <2>1, VerifiedLedgers DEF AuditInput, VerifiedIsOriginal
<1> QED BY <1>1, InputsArePicked, PTL

\* Supervisors that list the same instances in another order decide alike, in
\* every state (high_availability.py:46-122).
THEOREM SupervisorsDecideAlike == Spec => []SupervisorsAgree
<1>1. PickedIsInput => SupervisorsAgree
  <2> SUFFICES ASSUME PickedIsInput PROVE SupervisorsAgree
    OBVIOUS
  <2>1. ASSUME Picked("disaster")
        PROVE  PlanDisasterRecovery(sample.snapshots, sample.target)
                 = PlanDisasterRecovery(Permuted(sample.snapshots, sample.order), sample.target)
    <3>1. DisasterInput(sample)
      BY <2>1 DEF PickedIsInput, Picked, Input
    <3> QED BY <3>1, RecoveryIsDeterministic DEF DisasterInput, Onto, Permuted
  <2>2. ASSUME Picked("failover")
        PROVE  EvaluateFailover(sample.primary, sample.standbys)
                 = EvaluateFailover(sample.primary, Permuted(sample.standbys, sample.order))
    <3>1. FailoverInput(sample)
      BY <2>2 DEF PickedIsInput, Picked, Input
    <3> QED BY <3>1, FailoverIsDeterministic DEF FailoverInput, Onto, Permuted
  <2> QED BY <2>1, <2>2 DEF SupervisorsAgree
<1> QED BY <1>1, InputsArePicked, PTL

\* All of the capital is given out and none of it twice, in every state
\* (capital_allocator.py:82-155, 185-263).
THEOREM CapitalIsGivenOut == Spec => []AllocationIsWhole
<1>1. PickedIsInput => AllocationIsWhole
  <2> SUFFICES ASSUME PickedIsInput, Picked("allocation") PROVE AllocationIsWhole
    BY DEF AllocationIsWhole
  <2>1. AllocationInput(sample)
    BY DEF PickedIsInput, Picked, Input
  <2>2. Capital \in Int /\ 4 \in Nat \ {0}
    BY SamplesAssumption
  <2>3. LET a == AllocateCapital(sample.signals, Capital)
            given == a.reserve + SumFunction(a.capital)
        IN  /\ SumFunction(a.weights) = Whole
            /\ Capital - 4 < given /\ given <= Capital
    BY <2>1, <2>2, AllocationAddsUp DEF AllocationInput
  <2> QED BY <2>3 DEF AllocationIsWhole
<1> QED BY <1>1, InputsArePicked, PTL

\* Losses in the tail are not understated, copies are not approved and exposures
\* add up, in every state, if the limit refuses full correlation
\* (portfolio_engine.py:58-221).
THEOREM RiskIsStated ==
  ASSUME MaxPairCorr < 100
  PROVE  Spec => []RiskIsNotUnderstated
<1>1. PickedIsInput => RiskIsNotUnderstated
  <2> SUFFICES ASSUME PickedIsInput PROVE RiskIsNotUnderstated
    OBVIOUS
  <2>1. ASSUME Picked("tail")
        PROVE  LET m == HistoricalVarCvar(sample.returns, sample.tailPct, sample.up, 1)
                   worse == {i \in DOMAIN sample.returns : -sample.returns[i] > m.var}
               IN  /\ 100 * Cardinality(worse) <= sample.tailPct * Len(sample.returns)
                   /\ m.cvarSum >= m.tail * m.var
    <3>1. TailInput(sample)
      BY <2>1 DEF PickedIsInput, Picked, Input
    <3> QED BY <3>1, TailIsCovered DEF TailInput
  <2>2. ASSUME Picked("correlation"), Covariance(sample.returns[1], sample.returns[1]) # 0
        PROVE  ~EvaluateCorrelationRisk(sample.returns).approved
    <3>1. CorrelationInput(sample)
      BY <2>2 DEF PickedIsInput, Picked, Input
    <3>2. PICK x \in Seq(Int), y \in Seq(Int), k \in Int \ {0} :
            sample.returns = <<x, y, [i \in DOMAIN x |-> k * x[i]]>>
      BY <3>1 DEF CorrelationInput
    <3>3. sample.returns[1] = x
      BY <3>2
    <3> QED BY <2>2, <3>2, <3>3, CopiesAreRefused
  <2>3. ASSUME Picked("exposure")
        PROVE  LET e == CalculateNetExposure(sample.positions)
               IN  /\ e.net = e.long - e.short /\ e.gross = e.long + e.short
                   /\ e.net = SumFunction(e.perStrategy)
    <3>1. ExposureInput(sample)
      BY <2>3 DEF PickedIsInput, Picked, Input
    <3>2. \A p \in Positions : p.qty \in Int /\ p.price \in Int
      BY SamplesAssumption
    <3> QED BY <3>1, <3>2, ExposuresAddUp DEF ExposureInput
  <2> QED BY <2>1, <2>2, <2>3 DEF RiskIsNotUnderstated
<1> QED BY <1>1, InputsArePicked, PTL

=============================================================================
