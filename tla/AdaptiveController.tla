------------------------- MODULE AdaptiveController -------------------------
(***************************************************************************)
(* strategy/adaptive.py: a controller that optimises the parameters every  *)
(* few events and picks among the candidates by an epsilon-greedy bandit   *)
(* in between.  The optimizer scores only candidates it can run, the       *)
(* bandit knows them all.  Prediction and sentiment are what they do to a  *)
(* reward: they lower it.                                                  *)
(***************************************************************************)
EXTENDS Integers

CONSTANTS Candidates,
          Scorable,         \* those whose fast window is below their slow one
          First,            \* candidates[0]
          RetuneInterval,
          Explores,         \* whether epsilon may be positive
          Scores,           \* what an optimisation may give a candidate
          Penalties,        \* of prediction and sentiment together
          MaxSteps,         \* bound on the events
          NoDecision

ASSUME ControllerAssumption ==
    /\ First \in Candidates /\ Scorable \subseteq Candidates
    /\ RetuneInterval \in Nat \ {0} /\ MaxSteps \in Nat
    /\ Explores \in BOOLEAN
    /\ Scores \subseteq Int /\ Penalties \subseteq Nat

VARIABLES seen,       \* _events_seen
          tuned,      \* the event of _last_optimization, 0: none
          leaderboard,
          selected,   \* _last_selected
          rewardSum, rewardCount,
          decision,   \* what the last step returned, or NoDecision
          failedAt    \* history: the last event at which the optimizer raised

adaptiveVars == <<seen, tuned, leaderboard, selected, rewardSum, rewardCount,
                  decision, failedAt>>

AdaptiveInit ==
    /\ seen = 0
    /\ tuned = 0 /\ leaderboard = [c \in Scorable |-> 0]
    /\ selected = First
    /\ rewardSum = [c \in Candidates |-> 0]
    /\ rewardCount = [c \in Candidates |-> 0]
    /\ decision = NoDecision
    /\ failedAt = 0

-----------------------------------------------------------------------------
Due(n) == n = 1 \/ (n % RetuneInterval) = 0

\* Means are compared as fractions; without a reward the mean is 0.
Plays(c) == IF rewardCount[c] = 0 THEN 1 ELSE rewardCount[c]

NoWorse(c, d) == rewardSum[c] * Plays(d) >= rewardSum[d] * Plays(c)

\* What the bandit may select: a draw decides to explore, and among equals.
Best == {c \in Candidates : \A d \in Candidates : NoWorse(c, d)}

Selectable(explored) == IF explored THEN Candidates ELSE Best

MutScoreOf(board, c) == IF c \in Scorable THEN board[c] ELSE 1

\* A candidate that is not on the leaderboard scores 0.
ScoreOf(board, c) == IF c \in Scorable THEN board[c] ELSE 0

\* The optimizer skips the candidates it cannot run.
Leaderboards == [Scorable -> Scores]

NeedsOptimization(n) == Due(n) \/ tuned = 0

\* The leaderboard of this event: the cached one, or a new one.
Optimize(n) ==
    IF NeedsOptimization(n)
    THEN tuned' = n /\ leaderboard' \in Leaderboards
    ELSE UNCHANGED <<tuned, leaderboard>>

\* No event of the symbol in the window, or no candidate that runs.
StepFailsToOptimize ==
    /\ seen < MaxSteps
    /\ seen' = seen + 1
    /\ NeedsOptimization(seen')
    /\ failedAt' = seen'
    /\ decision' = NoDecision
    /\ UNCHANGED <<tuned, leaderboard, selected, rewardSum, rewardCount>>

\* Sentiment raises, or the reward is not finite: the bandit's choice is lost,
\* the new leaderboard is kept.
StepFailsToReward ==
    /\ seen < MaxSteps
    /\ seen' = seen + 1
    /\ Scorable # {}
    /\ Optimize(seen')
    /\ decision' = NoDecision
    /\ UNCHANGED <<selected, rewardSum, rewardCount, failedAt>>

StepDecides ==
    /\ seen < MaxSteps
    /\ seen' = seen + 1
    /\ Scorable # {}
    /\ Optimize(seen')
    /\ \E explored \in {e \in {FALSE, Explores} : e => Due(seen')} :
       \E c \in IF Due(seen') THEN Selectable(explored) ELSE {selected} :
       \E penalty \in Penalties :
          /\ selected' = c
          /\ rewardSum' = [rewardSum EXCEPT ![c] = @ + ScoreOf(leaderboard', c) - penalty]
          /\ rewardCount' = [rewardCount EXCEPT ![c] = @ + 1]
          /\ decision' = [mode |-> IF Due(seen') THEN "retune" ELSE "hold",
                          explored |-> explored, params |-> c, tuned |-> tuned']
    /\ UNCHANGED failedAt

AdaptiveNext == StepFailsToOptimize \/ StepFailsToReward \/ StepDecides

AdaptiveSpec == AdaptiveInit /\ [][AdaptiveNext]_adaptiveVars

-----------------------------------------------------------------------------
LastDue(n) == IF n < RetuneInterval THEN 1 ELSE n - (n % RetuneInterval)

\* A decision rests on an optimisation of the last event that was due for one,
\* unless the optimizer raised there; and parameters no strategy can be built
\* from, which the optimizer skips but the bandit keeps among its candidates, are
\* exploited only while no candidate has gained on average (adaptive.py:59-76,
\* 178-224).
DecisionsAreTuned ==
    decision # NoDecision =>
        /\ decision.tuned >= LastDue(seen) \/ failedAt >= LastDue(seen)
        /\ decision.mode = "retune" /\ ~decision.explored
             /\ decision.params \notin Scorable
           => \A c \in Candidates : rewardSum[c] <= 0

=============================================================================
