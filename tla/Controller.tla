----------------------------- MODULE Controller -----------------------------
(***************************************************************************)
(* The tables that a trial is driven by: the controller's transitions      *)
(* (control/state_machine.py), what each policy plans in each state        *)
(* (policies/base.py, collision_aware.py) and the frames that the recorder *)
(* takes at state boundaries (recording/milestones.py).  No state: the     *)
(* module TrialExecution walks through them.                               *)
(*                                                                         *)
(* Poses, joint targets and time-outs of the motion commands are left out; *)
(* what remains of a command is whether it opens or closes the gripper,    *)
(* whether it takes simulation time, and whether it can be rejected by the *)
(* inverse kinematics.                                                     *)
(***************************************************************************)
EXTENDS Naturals

CONSTANT Implementation      \* the policy under trial

Implementations == {"fixed", "pose_aware", "collision_aware"}

ASSUME ImplementationAssumption == Implementation \in Implementations

-----------------------------------------------------------------------------
(* control/state_machine.py                                                *)

ControllerStates ==
  {"reset", "observe", "plan", "approach", "grasp", "verify_grasp", "lift",
   "transfer", "release", "verify_place", "retract", "terminal"}

HappyPathTransitions ==
  {<<"reset", "observe">>, <<"observe", "plan">>, <<"plan", "approach">>,
   <<"approach", "grasp">>, <<"grasp", "verify_grasp">>, <<"verify_grasp", "lift">>,
   <<"lift", "transfer">>, <<"transfer", "release">>, <<"release", "verify_place">>,
   <<"verify_place", "retract">>, <<"retract", "terminal">>}

RegraspTransitions == {<<"verify_grasp", "approach">>, <<"retract", "approach">>}

AbortSources == ControllerStates \ {"reset", "retract", "terminal"}
ErrorSources == ControllerStates \ {"terminal"}

AllowedTransitions ==
  HappyPathTransitions \cup RegraspTransitions
    \cup (AbortSources \X {"retract"}) \cup (ErrorSources \X {"terminal"})

-----------------------------------------------------------------------------
(* policies: plan(observation) as [next, abort, regrasp].                  *)

CollisionAware == Implementation = "collision_aware"

\* _validate_config of the three policies leaves no other limit.
RegraspLimit == IF CollisionAware THEN 1 ELSE 0

Decision(next) == [next |-> next, abort |-> FALSE, regrasp |-> FALSE]

\* The dispatch of BasePolicy.plan on the controller state.
Advance ==
  [reset        |-> "observe",      observe |-> "plan",     plan    |-> "approach",
   approach     |-> "grasp",        grasp   |-> "verify_grasp",
   lift         |-> "transfer",     transfer |-> "release", release |-> "verify_place",
   verify_place |-> "retract",      retract |-> "terminal"]

\* _abort_target
AbortTarget(state) ==
  IF <<state, "retract">> \in AllowedTransitions THEN "retract" ELSE "terminal"

Abort(state) == [next |-> AbortTarget(state), abort |-> TRUE, regrasp |-> FALSE]

\* CollisionAwarePolicy.abort_reason; the other policies never abort here.
MustAbort(obs) ==
  /\ CollisionAware
  /\ obs.state \notin {"retract", "terminal"}
  /\ \/ obs.collision
     \/ obs.last = "ik_rejected"
     \/ obs.state = "plan" /\ ~obs.reachable

\* _verify_grasp: on to the lift, back for another grasp, or give up.
VerifyGrasp(obs) ==
  IF obs.verified THEN Decision("lift")
  ELSE IF obs.regrasps < RegraspLimit
         THEN [next |-> "approach", abort |-> FALSE, regrasp |-> TRUE]
         ELSE Abort("verify_grasp")

Plan(obs) ==
  IF MustAbort(obs) THEN Abort(obs.state)
  ELSE IF obs.state = "verify_grasp" THEN VerifyGrasp(obs)
  ELSE Decision(Advance[obs.state])

\* States in which the plan opens or closes the gripper, unless it aborts.
Opening == {"approach", "release"}
Closing == {"grasp"}

\* States whose last command is a move, which the inverse kinematics may
\* reject.  The executor keeps the status of the last command only.
Moving == {"approach", "lift", "transfer", "retract"}

\* States whose commands advance the simulation.
Timed == Opening \cup Closing \cup Moving \cup {"verify_place"}

-----------------------------------------------------------------------------
(* recording/milestones.py                                                 *)

MilestoneKinds ==
  {"initial_rgb", "pre_grasp_rgb", "post_grasp_rgb", "pre_release_rgb", "terminal_rgb"}
Kinds == MilestoneKinds \cup {"trajectory", "trial_manifest"}

\* The frames taken when the controller goes from source to target.
Milestones(source, target) ==
  {k \in MilestoneKinds :
     \/ k = "initial_rgb"     /\ <<source, target>> = <<"reset", "observe">>
     \/ k = "pre_grasp_rgb"   /\ <<source, target>> = <<"approach", "grasp">>
     \/ k = "post_grasp_rgb"  /\ <<source, target>> = <<"verify_grasp", "lift">>
     \/ k = "pre_release_rgb" /\ <<source, target>> = <<"transfer", "release">>
     \/ k = "terminal_rgb"    /\ target = "terminal"}
=============================================================================
