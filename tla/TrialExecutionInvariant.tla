----------------------- MODULE TrialExecutionInvariant -----------------------
(***************************************************************************)
(* The inductive invariant from which TrialExecutionProofs derives that    *)
(* the evidence of a completed trial is complete.  ManifestLast alone is   *)
(* not inductive: that an attempt which is failing moves none of the files *)
(* that an earlier manifest lists follows from which files are the         *)
(* attempt's own.  FailureInv, from which the reasons of a failure follow, *)
(* adds which frames the attempt has taken on its way.                     *)
(***************************************************************************)
EXTENDS TrialExecution

\* An attempt executes a running trial; the attempts are counted.
Attempts ==
  /\ at \in Active => trial.status = "running" /\ attempt > 0
  /\ \A k \in Kinds : files[k] <= attempt

\* What the attempt has in memory as written is at its keys, and its own.
OwnFiles == at \in Active => \A k \in world.written : files[k] = attempt

\* How far finalize has come shows in what is written.
Stages ==
  /\ at \in {"idle", "abandoned", "opening"} => world.written = {}
  /\ at = "executing" => world.written \subseteq MilestoneKinds
  /\ at = "sealing" => world.written = Kinds \ {"trial_manifest"}
  /\ at \in {"sealed", "committing"} => world.written = Kinds
  /\ at = "failing" => "trial_manifest" \notin world.written

\* Until it has written one, there is no manifest of this attempt.
NoManifestYet ==
  at \in Active \ {"sealed", "committing"} => files["trial_manifest"] # attempt

\* Artifact rows are committed with the end of the trial, and only then.
RowsAtEnd == trial.status \notin {"completed", "failed"} => \A k \in Kinds : rows[k] = None

\* The state that TrialExecutionProofs shows to be kept by every step of an attempt
\* (trial_execution.py, manifests.py) and of the worker around it.
EvidenceInv ==
  /\ TypeOK
  /\ Attempts
  /\ OwnFiles
  /\ Stages
  /\ NoManifestYet
  /\ RowsAtEnd
  /\ ManifestLast
  /\ RowsBacked
  /\ CompletedEvidence

-----------------------------------------------------------------------------
(* Why an attempt that no fault befell may fail: what the walk through the *)
(* controller's states has to do with the frames that are written.         *)

\* The state on whose entry a frame is taken, and the order of the happy path.
TakenOn ==
  [initial_rgb |-> "observe", pre_grasp_rgb |-> "grasp", post_grasp_rgb |-> "lift",
   pre_release_rgb |-> "release", terminal_rgb |-> "terminal"]
Place ==
  [reset |-> 1, observe |-> 2, plan |-> 3, approach |-> 4, grasp |-> 5, verify_grasp |-> 6,
   lift |-> 7, transfer |-> 8, release |-> 9, verify_place |-> 10, retract |-> 11,
   terminal |-> 12]

\* A frame is written when, and only when, its state has been entered.
FramesOnTheWay(w) ==
  /\ w.state \in w.started
  /\ \A k \in MilestoneKinds : k \in w.written <=> TakenOn[k] \in w.started

\* Without a second approach the attempt has only gone forward.
Forward(w) == w.regrasps = 0 => \A s \in w.started : Place[s] <= Place[w.state]

\* What is at a key under this attempt's name is in its list.
OwnListed ==
  at \in {"opening", "executing", "sealing"} =>
    \A k \in Kinds : files[k] = attempt => k \in world.written

\* The invariant from which FailureExplained follows.
FailureInv ==
  /\ FailureExplained
  /\ OwnListed
  /\ at = "executing" => FramesOnTheWay(world) /\ Forward(world)
=============================================================================
