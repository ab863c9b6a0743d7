------------------------------ MODULE Outcomes ------------------------------
(***************************************************************************)
(* How a trial is judged: the classifier of terminal outcomes              *)
(* (control/outcomes.py).  No state: TrialWorld collects the samples.      *)
(*                                                                         *)
(* A sample is what one observation found:                                 *)
(*   t      the time, in control updates of 1/60 s                         *)
(*   grip   "none", "contact" or "firm" (Contacts)                         *)
(*   high   the object is at least 2 cm above its initial place            *)
(*   place  the bin that contains its centre, or "outside"                 *)
(*   still  its speeds are below the limits of rest                        *)
(* Positions, speeds and forces enter as these comparisons only.           *)
(***************************************************************************)
EXTENDS Contacts

GraspContactDuration == 3      \* 0.05 s
SettleWindow         == 6      \* 0.10 s

Never == -1                    \* the None of the code, where a time is expected

Places == {"target", "other", "outside"}

-----------------------------------------------------------------------------
(* The classifier.  Its comparisons of time have a tolerance of 1e-9 s, so *)
(* that they are exact in updates.                                         *)

IsStableGraspSample(s) == s.high /\ s.grip = "firm"

\* Mutant of GraspStep: one sample that is not stable does not end the run.
GraspStepLenient(run, s) ==
  IF run.at # Never \/ ~IsStableGraspSample(s) THEN run
  ELSE LET start == IF run.start = Never THEN s.t ELSE run.start
       IN  [start |-> start,
            at    |-> IF s.t - start >= GraspContactDuration THEN s.t ELSE Never]

GraspStep(run, s) ==
  IF run.at # Never THEN run
  ELSE IF ~IsStableGraspSample(s) THEN [run EXCEPT !.start = Never]
  ELSE LET start == IF run.start = Never THEN s.t ELSE run.start
       IN  [start |-> start,
            at    |-> IF s.t - start >= GraspContactDuration THEN s.t ELSE Never]

\* The loop over the samples, after each of them.
GraspRun(samples) ==
  LET run[n \in 0..Len(samples)] ==
        IF n = 0 THEN [start |-> Never, at |-> Never] ELSE GraspStep(run[n - 1], samples[n])
  IN  run

FirstVerifiedGraspTime(samples) == GraspRun(samples)[Len(samples)].at

GraspVerified(samples) == FirstVerifiedGraspTime(samples) # Never

GraspLostOutsideTarget(samples, released) ==
  /\ ~released
  /\ GraspVerified(samples)
  /\ \E s \in ToSet(samples) :
       /\ s.t >= FirstVerifiedGraspTime(samples)
       /\ ~IsStableGraspSample(s)
       /\ s.place # "target"

\* Mutant of SettleSamples: the sample before the window is taken in.
SettleSamplesWide(samples) ==
  {i \in DOMAIN samples : Last(samples).t - samples[i].t <= SettleWindow + 1}

\* By their indices.
SettleSamples(samples) ==
  {i \in DOMAIN samples : Last(samples).t - samples[i].t <= SettleWindow}

\* _placement_settlement; no bin is "unsettled".
SettledBin(samples) ==
  LET window == SettleSamples(samples)
  IN  IF /\ samples[Max(window)].t - samples[Min(window)].t >= SettleWindow
         /\ \A i \in window : samples[i].still
         /\ Cardinality({samples[i].place : i \in window}) = 1
        THEN samples[Min(window)].place ELSE "unsettled"

OutcomePrecedence ==
  <<"system_error", "collision", "missed_grasp", "dropped_object", "wrong_bin", "success">>

\* Mutant of SelectTaskOutcome: the last of the precedence wins.
SelectLastOutcome(found) ==
  LET hits == {i \in DOMAIN OutcomePrecedence : OutcomePrecedence[i] \in found}
  IN  IF hits = {} THEN "system_error" ELSE OutcomePrecedence[Max(hits)]

\* _select_task_outcome; none is a system error.
SelectTaskOutcome(found) ==
  LET hits == {i \in DOMAIN OutcomePrecedence : OutcomePrecedence[i] \in found}
  IN  IF hits = {} THEN "system_error" ELSE OutcomePrecedence[Min(hits)]

\* Nothing records a TIMEOUT event, so that no classification is timeout_unevaluable.
TimeoutObserved(events) == \E e \in ToSet(events) : e.type = "timeout"

GripperClosedFromEvents(events) ==
  \E e \in ToSet(events) : e.type = "state_end" /\ e.in = "grasp"

ReleasedFromEvents(events) ==
  \E e \in ToSet(events) : e.type = "state_start" /\ e.in = "release"

Classification(outcome, code) == [outcome |-> outcome, code |-> code]

\* classify_outcome without an infrastructure failure, which is all that the
\* executor asks for.
ClassifyOutcome(samples, events, collided, closed, released) ==
  LET bin      == SettledBin(samples)
      gone     == released \/ ReleasedFromEvents(events)
      shut     == closed \/ GripperClosedFromEvents(events)
      selected == SelectTaskOutcome(
        {o \in {"collision"}      : collided} \cup
        {o \in {"missed_grasp"}   : shut /\ ~GraspVerified(samples)} \cup
        {o \in {"dropped_object"} : GraspLostOutsideTarget(samples, gone)} \cup
        {o \in {"wrong_bin"}      : bin \notin {"unsettled", "target"}} \cup
        {o \in {"success"}        : bin = "target"})
  IN  Classification(selected,
        IF selected # "system_error" THEN "none"
        ELSE IF TimeoutObserved(events) THEN "timeout_unevaluable" ELSE "evaluation_unavailable")
=============================================================================
