-------------------------- MODULE HighAvailability --------------------------
(***************************************************************************)
(* ops/high_availability.py: when to fail over and to which standby, and   *)
(* which checkpoint a disaster is recovered from.  Both are computed from  *)
(* lists, whose order is that of the caller.                               *)
(***************************************************************************)
EXTENDS Integers, Sequences, FiniteSetsExt

CONSTANTS MaxHeartbeatAge, MaxReplicationLag

\* The first of those no other is better than: sorted(...)[0] is stable.
FirstBest(seq, among, better(_, _)) ==
    LET best == {i \in among : \A j \in among : ~better(seq[j], seq[i])}
    IN  seq[Min(best)]

Unhealthy(s) == ~s.reachable \/ s.age > MaxHeartbeatAge

Fit(s) == ~Unhealthy(s) /\ s.lag <= MaxReplicationLag

FreshBefore(s, t) == s.lag < t.lag \/ (s.lag = t.lag /\ s.age < t.age)

\* The standby to promote, or none.
EvaluateFailover(primary, standbys) ==
    LET candidates == {i \in DOMAIN standbys : Fit(standbys[i])}
    IN  IF ~Unhealthy(primary) \/ candidates = {} THEN {}
        ELSE {FirstBest(standbys, candidates, FreshBefore)}

NewerThan(s, t) ==
    \/ s.generation > t.generation
    \/ s.generation = t.generation /\ s.checkpoint > t.checkpoint

MutBefore(s, t) == NewerThan(s, t)

\* Instances are numbered in the order of their ids.
Before(s, t) == NewerThan(s, t) \/ (~NewerThan(t, s) /\ s.id < t.id)

PlanDisasterRecovery(snapshots, target) ==
    LET source == FirstBest(snapshots, DOMAIN snapshots, Before)
    IN  [source |-> source.id, checkpoint |-> source.checkpoint,
         replayRequired |-> source.id # target]

=============================================================================
