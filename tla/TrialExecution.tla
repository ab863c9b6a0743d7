--------------------------- MODULE TrialExecution ---------------------------
(***************************************************************************)
(* One trial, executed by one attempt after another: the row in `trials`   *)
(* and its rows in `artifacts` (worker.py), the simulated world that an    *)
(* attempt drives through the controller's states (trial_execution.py),    *)
(* the recorder (recording/) and the files it leaves in the artifact store *)
(* under keys that do not depend on the attempt.                           *)
(*                                                                         *)
(* At most one attempt executes at a time: it holds the run's lease, which *)
(* is what RunQueue shows as Exclusive.  What an attempt holds in memory   *)
(* is `world`; it is gone when the attempt ends.  Physics is free: each    *)
(* observation may find any contact, height and place of the object.       *)
(***************************************************************************)
EXTENDS Controller

CONSTANTS MaxFaults,     \* bound: crashes, and failures of simulation, disk or database
          MaxStops,      \* bound: interruptions by a shutdown
          MayCancel      \* the run may be cancelled

ASSUME ExecutionAssumption ==
  /\ MaxFaults \in Nat
  /\ MaxStops \in Nat
  /\ MayCancel \in BOOLEAN

VARIABLES trial,         \* the row: its status and terminal_outcome
          rows,          \* for each kind the attempt whose file the artifact row describes
          files,         \* for each kind the attempt that wrote the file at its key
          quarantined,   \* <<kind, attempt>> of the files moved aside
          attempt,       \* attempts so far
          at,            \* where the worker is
          world,         \* what the attempt holds in memory
          cancelling,    \* the run is to be cancelled
          faults, stops  \* so far

vars == <<trial, rows, files, quarantined, attempt, at, world, cancelling, faults, stops>>

None == 0                \* no file, no row: attempts count from 1

Active == {"opening", "executing", "sealing", "sealed", "committing", "failing"}
TaskOutcomes == {"collision", "missed_grasp", "dropped_object", "wrong_bin", "success"}
Outcomes == TaskOutcomes \cup {"system_error"}
TerminalTrialStatuses == {"completed", "failed", "cancelled"}

\* _PhysicsTrialWorld.__init__
NewWorld ==
  [state |-> "reset", started |-> {"reset"}, ended |-> {}, written |-> {},
   closed |-> FALSE, released |-> FALSE, verified |-> FALSE, regrasps |-> 0,
   collided |-> FALSE, last |-> "none", touch |-> 0,
   stable |-> 0, held |-> FALSE, lost |-> FALSE, inTarget |-> FALSE,
   elapsed |-> 0, outcome |-> "none"]

Init ==
  /\ trial = [status |-> "pending", outcome |-> "none"]
  /\ rows = [k \in Kinds |-> None]
  /\ files = [k \in Kinds |-> None]
  /\ quarantined = {}
  /\ attempt = 0
  /\ at = "idle"
  /\ world = NewWorld
  /\ cancelling = FALSE
  /\ faults = 0
  /\ stops = 0

-----------------------------------------------------------------------------
(* The attempt begins, is asked to stop or to cancel, or fails.            *)

TrialIs(status, outcome) == trial' = [status |-> status, outcome |-> outcome]

\* Mutant of Begin: only a pending trial is executed.
BeginPending ==
  /\ at = "idle" /\ ~cancelling
  /\ trial.status = "pending"
  /\ TrialIs("running", "none")
  /\ attempt' = attempt + 1
  /\ at' = "opening"
  /\ UNCHANGED <<rows, files, quarantined, world, cancelling, faults, stops>>

\* _execute_slots comes to the trial, and _mark_trial_running.
Begin ==
  /\ at = "idle" /\ ~cancelling
  /\ trial.status \notin TerminalTrialStatuses
  /\ TrialIs("running", "none")
  /\ attempt' = attempt + 1
  /\ at' = "opening"
  /\ UNCHANGED <<rows, files, quarantined, world, cancelling, faults, stops>>

Open ==
  /\ at = "opening"
  /\ world' = NewWorld
  /\ at' = "executing"
  /\ UNCHANGED <<trial, rows, files, quarantined, attempt, cancelling, faults, stops>>

Running == at = "executing" /\ world.state # "terminal"

\* TrialInterrupted: nothing is cleaned up and the trial stays running.
Interrupt ==
  /\ Running /\ ~cancelling
  /\ stops < MaxStops /\ stops' = stops + 1
  /\ at' = "idle" /\ world' = NewWorld
  /\ UNCHANGED <<trial, rows, files, quarantined, attempt, cancelling, faults>>

\* TrialCancelled, and _cancel_trial in the worker.
CancelRunning ==
  /\ Running /\ cancelling
  /\ TrialIs("cancelled", "none")
  /\ at' = "idle" /\ world' = NewWorld
  /\ UNCHANGED <<rows, files, quarantined, attempt, cancelling, faults, stops>>

\* The client cancels the run.  Without an attempt the run is queued, and
\* cancelled at once, or its worker is dead: no worker will come to the trial.
RequestCancel ==
  /\ MayCancel /\ ~cancelling /\ trial.status \notin TerminalTrialStatuses
  /\ cancelling' = TRUE
  /\ at' = IF at = "idle" THEN "abandoned" ELSE at
  /\ UNCHANGED <<trial, rows, files, quarantined, attempt, world, faults, stops>>

Fault == faults < MaxFaults /\ faults' = faults + 1

\* SimulationError, or an OSError of the artifact store: TrialExecutionFailure.
Fails ==
  /\ at \in {"opening", "executing", "sealing"} /\ Fault
  /\ at' = "failing"
  /\ UNCHANGED <<trial, rows, files, quarantined, attempt, world, cancelling, stops>>

\* The process dies.  A run that was to be cancelled is never claimed again.
Crash ==
  /\ at \in Active /\ Fault
  /\ at' = IF cancelling THEN "abandoned" ELSE "idle"
  /\ world' = NewWorld
  /\ UNCHANGED <<trial, rows, files, quarantined, attempt, cancelling, stops>>

-----------------------------------------------------------------------------
(* One controller state: execute_current_state.  Time is counted in        *)
(* control updates of 1/60 s, as far as the thresholds of 0.05 s need.     *)

SustainedUpdates == 3    \* 0.05 s

\* Length, plus one, of the run of samples in which something holds.
RunOn(run, holds, elapsed) ==
  CASE ~holds           -> 0
    [] holds /\ run = 0 -> 1
    [] OTHER            -> IF run + elapsed > SustainedUpdates THEN SustainedUpdates + 1
                           ELSE run + elapsed
Sustained(run) == run > SustainedUpdates

\* What an observation can find: whether the gripper has contact with the object,
\* or holds it (at least 1 N, and 2 cm above its initial place); whether the object
\* is in the target bin; and whether the robot touches a body that it must not
\* touch, with at least 5 N.
Sightings == [grip : {"none", "contact", "hold"}, inTarget : BOOLEAN, touch : BOOLEAN]

\* _observe: the collision monitor, the contact flag and the grasp samples,
\* which classify_outcome evaluates only at the end.
Observed(w, see) ==
  LET touch  == RunOn(w.touch, see.touch, w.elapsed)
      stable == RunOn(w.stable, see.grip = "hold", w.elapsed)
      held   == w.held \/ Sustained(stable)
  IN  [w EXCEPT !.touch = touch,
                !.collided = @ \/ Sustained(touch),
                !.verified = @ \/ see.grip # "none",
                !.stable = stable,
                !.held = held,
                !.lost = @ \/ (held /\ see.grip # "hold" /\ ~see.inTarget),
                !.inTarget = see.inTarget,
                !.elapsed = 0]

Observation(w, reachable) ==
  [state |-> w.state, collision |-> w.collided, last |-> w.last, verified |-> w.verified,
   regrasps |-> w.regrasps, reachable |-> reachable]

\* The commands of the state that w is in.
Executed(w, took, rejected) ==
  [w EXCEPT !.closed = IF w.state \in Closing THEN TRUE
                       ELSE IF w.state \in Opening THEN FALSE ELSE @,
            !.released = @ \/ w.state \in Opening,
            !.last = IF w.state \notin Timed THEN @
                     ELSE IF rejected THEN "ik_rejected" ELSE "done",
            !.elapsed = took]

Moved(w, plan) ==
  [w EXCEPT !.state = plan.next,
            !.started = @ \cup {plan.next},
            !.ended = IF plan.abort THEN @ ELSE @ \cup {w.state},
            !.regrasps = IF plan.regrasp THEN @ + 1 ELSE @]

\* What the recorder may not write: a kind that this attempt has captured
\* (ValueError), or whose file is there already (ArtifactConflictError).
Clash(w, kinds) == \E k \in kinds : k \in w.written \/ files[k] # None

Stored(kinds) == files' = [k \in Kinds |-> IF k \in kinds THEN attempt ELSE files[k]]

\* The part of a state after its observation, plan and commands: machine and
\* recorder.  Without a frame to take, or with a clash, the files stay.
Cross(w, plan) ==
  LET kinds == Milestones(w.state, plan.next)
  IN  IF Clash(w, kinds)
        THEN /\ world' = Moved(w, plan)
             /\ at' = "failing"
             /\ UNCHANGED files
        ELSE /\ world' = [Moved(w, plan) EXCEPT !.written = @ \cup kinds]
             /\ Stored(kinds)
             /\ UNCHANGED at

\* A hold of 0.40 s ends the commands of the state grasp.
Durations(state) == IF state \in Closing THEN {SustainedUpdates} ELSE {1, SustainedUpdates}

Advances(w, plan) == ~plan.abort /\ w.state \in Timed

\* The inverse kinematics can reject a last command that is a move.
Execute ==
  /\ Running /\ ~cancelling
  /\ \E see \in Sightings, reachable \in IF world.state = "plan" THEN BOOLEAN ELSE {TRUE} :
       LET w    == Observed(world, see)
           plan == Plan(Observation(w, reachable))
       IN  \/ ~Advances(w, plan) /\ Cross(w, plan)
           \/ /\ Advances(w, plan)
              /\ \E took \in Durations(w.state),
                    rejected \in IF w.state \in Moving THEN BOOLEAN ELSE {FALSE} :
                   Cross(Executed(w, took, rejected), plan)
  /\ UNCHANGED <<trial, rows, quarantined, attempt, cancelling, faults, stops>>

-----------------------------------------------------------------------------
(* finalize: trajectory, then manifest, then the classification.  The      *)
(* probe is not asked any more.                                            *)

\* Mutant of MissingFrames: the frames of an aborted trial are not missed.
MissingFirstFrame(w) == {"initial_rgb"} \ w.written

\* Mutant of MissingFrames: what finalize is about to write is missed as well.
MissingFiles(w) == Kinds \ w.written

MissingFrames(w) == MilestoneKinds \ w.written

WriteTrajectory ==
  /\ at = "executing" /\ world.state = "terminal"
  /\ IF MissingFrames(world) # {} \/ Clash(world, {"trajectory"})
       THEN at' = "failing" /\ UNCHANGED <<files, world>>
       ELSE /\ Stored({"trajectory"})
            /\ world' = [world EXCEPT !.written = @ \cup {"trajectory"}]
            /\ at' = "sealing"
  /\ UNCHANGED <<trial, rows, quarantined, attempt, cancelling, faults, stops>>

WriteManifest ==
  /\ at = "sealing"
  /\ IF Clash(world, {"trial_manifest"})
       THEN at' = "failing" /\ UNCHANGED <<files, world>>
       ELSE /\ Stored({"trial_manifest"})
            /\ world' = [world EXCEPT !.written = @ \cup {"trial_manifest"}]
            /\ at' = "sealed"
  /\ UNCHANGED <<trial, rows, quarantined, attempt, cancelling, faults, stops>>

\* classify_outcome, where `settled` is what _placement_settlement finds.
Classified(w, settled) ==
  LET closed   == w.closed \/ "grasp" \in w.ended
      released == w.released \/ "release" \in w.started
  IN  IF w.collided                      THEN "collision"
      ELSE IF closed /\ ~w.held          THEN "missed_grasp"
      ELSE IF ~released /\ w.lost        THEN "dropped_object"
      ELSE IF settled /\ ~w.inTarget     THEN "wrong_bin"
      ELSE IF settled /\ w.inTarget      THEN "success"
      ELSE "system_error"

Classify ==
  /\ at = "sealed"
  /\ \E settled \in BOOLEAN : world' = [world EXCEPT !.outcome = Classified(world, settled)]
  /\ at' = "committing"
  /\ UNCHANGED <<trial, rows, files, quarantined, attempt, cancelling, faults, stops>>

-----------------------------------------------------------------------------
(* The worker commits what came of the trial, in one transaction.          *)

Done == at' = "idle" /\ world' = NewWorld

\* create_artifact_if_absent for every file of the attempt.
RowsInserted(kinds) ==
  rows' = [k \in Kinds |-> IF k \in kinds /\ rows[k] = None THEN attempt ELSE rows[k]]

\* _commit_success, or _fail_trial with the artifacts when the outcome is
\* no task outcome.
Recorded ==
  /\ RowsInserted(world.written)
  /\ IF world.outcome \in TaskOutcomes THEN TrialIs("completed", world.outcome)
     ELSE TrialIs("failed", "system_error")

\* Mutant of Commit: the files of a trial without a task outcome are removed.
CommitRemoving ==
  /\ at = "committing"
  /\ Recorded /\ Done
  /\ files' = [k \in Kinds |-> IF world.outcome \in TaskOutcomes THEN files[k] ELSE None]
  /\ UNCHANGED <<quarantined, attempt, cancelling, faults, stops>>

Commit ==
  /\ at = "committing"
  /\ Recorded /\ Done
  /\ UNCHANGED <<files, quarantined, attempt, cancelling, faults, stops>>

\* storage_keys: the frames and the trajectory that this attempt has written.
Quarantinable == world.written \ {"trial_manifest"}

\* _quarantine moves one file, or logs that it could not.
Quarantine(k) ==
  /\ at = "failing" /\ k \in Quarantinable
  /\ \/ /\ files' = [files EXCEPT ![k] = None]
        /\ quarantined' = quarantined \cup {<<k, files[k]>>}
        /\ UNCHANGED faults
     \/ Fault /\ UNCHANGED <<files, quarantined>>
  /\ world' = [world EXCEPT !.written = @ \ {k}]
  /\ UNCHANGED <<trial, rows, attempt, at, cancelling, stops>>

\* _fail_trial after a TrialExecutionFailure
CommitFailure ==
  /\ at = "failing" /\ Quarantinable = {}
  /\ TrialIs("failed", "system_error")
  /\ Done
  /\ UNCHANGED <<rows, files, quarantined, attempt, cancelling, faults, stops>>

\* DatabaseUnavailable during the commit, which may have been applied all the
\* same; the lease is given back, or expires.
CommitLost ==
  /\ at = "committing" \/ (at = "failing" /\ Quarantinable = {})
  /\ Fault
  /\ \/ UNCHANGED <<trial, rows>>
     \/ at = "committing" /\ Recorded
     \/ at = "failing" /\ TrialIs("failed", "system_error") /\ UNCHANGED rows
  /\ at' = IF cancelling THEN "abandoned" ELSE "idle"
  /\ world' = NewWorld
  /\ UNCHANGED <<files, quarantined, attempt, cancelling, stops>>

-----------------------------------------------------------------------------

Progress ==
  \/ Begin \/ Open \/ CancelRunning \/ Execute
  \/ WriteTrajectory \/ WriteManifest \/ Classify \/ Commit
  \/ \E k \in Kinds : Quarantine(k)
  \/ CommitFailure

Next == Progress \/ Interrupt \/ RequestCancel \/ Fails \/ Crash \/ CommitLost

Spec == Init /\ [][Next]_vars

\* A worker that has the trial goes on, and one comes back to it after a fault
\* or a stop (RunQueue: EveryRunEnds) while the run's attempts last.
FairSpec == Spec /\ WF_vars(Progress)

-----------------------------------------------------------------------------
(* Properties.                                                             *)

WorldType ==
  [state : ControllerStates, started : SUBSET ControllerStates,
   ended : SUBSET ControllerStates, written : SUBSET Kinds, closed : BOOLEAN,
   released : BOOLEAN, verified : BOOLEAN, regrasps : 0..1, collided : BOOLEAN,
   last : {"none", "done", "ik_rejected"}, touch : 0..4, stable : 0..4, held : BOOLEAN,
   lost : BOOLEAN, inTarget : BOOLEAN, elapsed : 0..3, outcome : Outcomes \cup {"none"}]

\* Every variable holds a value of its type: the statuses and outcomes of the trial,
\* the files and rows, and what an attempt keeps (trial_execution.py).
TypeOK ==
  /\ trial \in [status : {"pending", "running"} \cup TerminalTrialStatuses,
                outcome : Outcomes \cup {"none"}]
  /\ rows \in [Kinds -> Nat]
  /\ files \in [Kinds -> Nat]
  /\ quarantined \in SUBSET (Kinds \X Nat)
  /\ attempt \in Nat
  /\ at \in Active \cup {"idle", "abandoned"}
  /\ world \in WorldType
  /\ cancelling \in BOOLEAN
  /\ faults \in 0..MaxFaults
  /\ stops \in 0..MaxStops

\* trial_manifest.json is the last file of a trial (manifests.py): where there is
\* one, all that it lists is there and comes from the same attempt.
ManifestLast ==
  files["trial_manifest"] # None =>
    \A k \in Kinds : files[k] = files["trial_manifest"]

\* A row in `artifacts` describes the file that is at its key: no failure path
\* moves a file away under its row, or commits rows for files that are missing.
RowsBacked == \A k \in Kinds : rows[k] # None => files[k] = rows[k]

\* A completed trial has a task outcome and its seven artifacts, all of the attempt
\* that completed it, whatever stops, crashes, half-finished quarantines and lost
\* commits came before (worker.py _commit_success, manifests.py finalize).
CompletedEvidence ==
  trial.status = "completed" =>
    /\ trial.outcome \in TaskOutcomes
    /\ \E a \in 1..attempt : \A k \in Kinds : rows[k] = a

\* A file once written keeps its bytes: it is moved to quarantine or left alone,
\* never replaced by another attempt's (filesystem.py: ArtifactConflictError).
WriteOnce ==
  [][\A k \in Kinds : files[k] # None =>
       \/ files'[k] = files[k]
       \/ files'[k] = None /\ <<k, files[k]>> \in quarantined']_vars

\* Whatever is observed, the policy plans a transition that the controller allows:
\* the two tables, in base.py and state_machine.py, agree on every reachable state.
PlansLegal ==
  Running => \A see \in Sightings, reachable \in BOOLEAN :
    <<world.state, Plan(Observation(Observed(world, see), reachable)).next>>
      \in AllowedTransitions

\* A trial that has ended stays as it ended: no later attempt executes it again.
EndedStays == [][trial.status \in TerminalTrialStatuses => trial' = trial]_vars

\* Every trial ends, whatever is observed and however often it is interrupted.
TrialEnds == <>(trial.status \in TerminalTrialStatuses)

\* Without a fault a trial fails only for three reasons: a file that an attempt before
\* it left behind, a second approach, whose frame is there already, or an abort that
\* skipped a state with a frame (milestones.py, filesystem.py write).
FailureExplained ==
  at = "failing" /\ faults = 0 =>
    \/ \E k \in Kinds : files[k] \notin {None, attempt}
    \/ world.regrasps = 1
    \/ /\ "terminal" \in world.started
       /\ \E pair \in HappyPathTransitions : pair[2] \notin world.started
=============================================================================
