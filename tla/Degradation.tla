---------------------------- MODULE Degradation ----------------------------
(***************************************************************************)
(* AutoDegradationController (risk/degradation.py) driving the global      *)
(* scope of the KillSwitch (risk/kill_switch.py) that an operator also     *)
(* engages and releases.                                                   *)
(*                                                                         *)
(* record_sample reads the kill switch and only then engages or releases   *)
(* it; neither class has a lock, so the operator, on another thread, may   *)
(* act in between.  A metric is a sum over the window compared with a      *)
(* threshold; rejections count 0 or 1.                                     *)
(***************************************************************************)
EXTENDS Naturals, Sequences, Functions

CONSTANTS
    Metrics,         \* latency, reject_rate, slippage
    Values,          \* the values a sample can have in each metric
    Warn, Critical,  \* the thresholds of each metric
    WindowSize,      \* window_size
    RecoverSamples   \* recover_healthy_samples

ASSUME DegradationAssumption ==
    /\ Values \in [Metrics -> SUBSET Nat]
    /\ Warn \in [Metrics -> Nat] /\ Critical \in [Metrics -> Nat]
    /\ \A m \in Metrics : Warn[m] < Critical[m]
    /\ WindowSize \in Nat \ {0}
    /\ RecoverSamples \in Nat \ {0}

VARIABLES
    window,     \* _window: the latest samples
    mode,       \* _mode
    healthy,    \* _healthy_count, which nothing tells apart beyond RecoverSamples
    anomalies,  \* _active_anomalies
    raised,     \* the anomaly alerts of the latest sample
    autoHalt,   \* _auto_halt_reason
    global,     \* KillSwitch._global_reason: who engaged it and why
    seen,       \* the block record_sample has just read, and what it will do
    released    \* history: the operator has released the switch since the last
                \* critical evaluation

controllerVars == <<window, mode, healthy, anomalies, raised, autoHalt, seen>>
degradationVars == <<controllerVars, global, released>>

Sample == {s \in [Metrics -> UNION {Values[m] : m \in Metrics}] :
              \A m \in Metrics : s[m] \in Values[m]}
Modes == {"NORMAL", "DEGRADED", "HALTED"}
NoReason == [by |-> "none", reasons |-> {}]
Manual == [by |-> "manual", reasons |-> {}]
AutoHalt(reasons) == [by |-> "auto", reasons |-> reasons]
Reason == {NoReason, Manual} \cup {AutoHalt(r) : r \in SUBSET Metrics}
Idle == [todo |-> "nothing", block |-> NoReason, reason |-> NoReason]

DegradationTypeOK ==
    /\ window \in Seq(Sample) /\ Len(window) <= WindowSize
    /\ mode \in Modes
    /\ healthy \in 0..RecoverSamples
    /\ anomalies \subseteq Metrics \X {"warn", "critical"}
    /\ raised \subseteq Metrics \X {"warn", "critical"}
    /\ autoHalt \in Reason
    /\ global \in Reason
    /\ seen \in [todo : {"nothing", "halt", "recover"}, block : Reason, reason : Reason]
    /\ released \in BOOLEAN

DegradationInit ==
    /\ window = <<>>
    /\ mode = "NORMAL"
    /\ healthy = 0
    /\ anomalies = {}
    /\ raised = {}
    /\ autoHalt = NoReason
    /\ global = NoReason
    /\ seen = Idle
    /\ released = FALSE

-----------------------------------------------------------------------------
(* record_sample *)

\* The window after a sample, its oldest sample gone when it was full.
Slide(sample) ==
    LET longer == Append(window, sample)
    IN  IF Len(longer) > WindowSize THEN Tail(longer) ELSE longer

\* The metrics whose average over w reaches the threshold.
Breached(w, threshold) ==
    {m \in Metrics : FoldFunction(+, 0, [i \in DOMAIN w |-> w[i][m]]) >= threshold[m] * Len(w)}

MutHealthyAfter == healthy
HealthyAfter == IF healthy < RecoverSamples THEN healthy + 1 ELSE RecoverSamples

\* One evaluation, up to and including the read of the kill switch.
RecordSample(sample) ==
    LET w        == Slide(sample)
        critical == Breached(w, Critical)
        warn     == Breached(w, Warn)
        active   == (critical \X {"critical"}) \cup (warn \X {"warn"})
    IN  /\ seen.todo = "nothing"
        /\ window' = w
        /\ anomalies' = active
        /\ raised' = active \ anomalies
        /\ \/ /\ critical # {}
              /\ mode' = "HALTED"
              /\ healthy' = 0
              /\ released' = FALSE
              /\ seen' = [todo |-> "halt", block |-> global, reason |-> AutoHalt(critical)]
           \/ /\ critical = {} /\ warn # {}
              /\ mode' = "DEGRADED"
              /\ healthy' = 0
              /\ UNCHANGED <<seen, released>>
           \/ /\ critical = {} /\ warn = {}
              /\ healthy' = HealthyAfter
              /\ IF HealthyAfter < RecoverSamples
                 THEN UNCHANGED <<mode, seen>>
                 ELSE /\ mode' = "NORMAL"
                      /\ seen' = IF autoHalt = NoReason THEN seen
                                 ELSE [todo |-> "recover", block |-> global, reason |-> autoHalt]
              /\ UNCHANGED released
        /\ UNCHANGED <<autoHalt, global>>

MayEngage == seen.block = NoReason

MutAdopted == IF seen.block.by = "auto" THEN seen.reason ELSE autoHalt
Adopted == IF seen.block = seen.reason THEN seen.reason ELSE autoHalt

\* The critical branch acts on the block it has read: engage an open switch, or
\* take over a halt of the same reason.
ActHalt ==
    /\ seen.todo = "halt"
    /\ IF MayEngage
       THEN global' = seen.reason /\ autoHalt' = seen.reason
       ELSE autoHalt' = Adopted /\ UNCHANGED global
    /\ seen' = Idle
    /\ UNCHANGED <<window, mode, healthy, anomalies, raised, released>>

MutMayRelease == TRUE
MayRelease == seen.block = autoHalt

\* The recovery releases the switch if the block it has read is its own.
ActRecover ==
    /\ seen.todo = "recover"
    /\ global' = IF MayRelease THEN NoReason ELSE global
    /\ autoHalt' = NoReason
    /\ seen' = Idle
    /\ UNCHANGED <<window, mode, healthy, anomalies, raised, released>>

-----------------------------------------------------------------------------
(* KillSwitch.engage and release, called by the operator *)

OperatorEngages ==
    /\ global' = Manual
    /\ UNCHANGED <<controllerVars, released>>

OperatorReleases ==
    /\ global' = NoReason
    /\ released' = TRUE
    /\ UNCHANGED controllerVars

-----------------------------------------------------------------------------
Act == ActHalt \/ ActRecover

\* A sample below every warning threshold.
IsCalm(sample) == \A m \in Metrics : sample[m] < Warn[m]

Record == \E sample \in Sample : RecordSample(sample)

DegradationNext == Record \/ Act \/ OperatorEngages \/ OperatorReleases

DegradationSpec == DegradationInit /\ [][DegradationNext]_degradationVars

\* Samples keep coming and record_sample returns.  The first is asked of calm
\* samples alone: a calm sample on a window of calm ones changes nothing, and
\* fairness of Record would then call for another kind of sample.
FairDegradationSpec ==
    /\ DegradationSpec
    /\ WF_degradationVars(\E sample \in Sample : IsCalm(sample) /\ RecordSample(sample))
    /\ WF_degradationVars(Act)

-----------------------------------------------------------------------------
(* Properties *)

\* Between samples: an automatic halt in force is the one the controller will
\* recognise as its own and release.
AutoHaltIsOwned == seen.todo = "nothing" /\ global.by = "auto" => autoHalt = global

\* Back to NORMAL, no automatic halt is left behind.
NormalIsReleased == seen.todo = "nothing" /\ mode = "NORMAL" => global.by # "auto"

\* While HALTED, execution is blocked unless the operator released the switch
\* after the last critical evaluation.
HaltedIsBlocked ==
    seen.todo = "nothing" /\ mode = "HALTED" /\ ~released => global # NoReason

\* The controller neither lifts nor replaces a manual halt that it has read.
ManualHaltSurvives ==
    [][Act /\ seen.block = Manual /\ global = Manual => global' = Manual]_degradationVars

\* If from some time on every sample is below the warning thresholds, the
\* controller returns to NORMAL and lifts its halt, for good.
Calm == window # <<>> /\ IsCalm(window[Len(window)])
CalmRecovers == <>[]Calm => <>[](mode = "NORMAL" /\ global.by # "auto")

=============================================================================
