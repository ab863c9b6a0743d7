------------------------- MODULE TrialExecutionProofs -------------------------
(***************************************************************************)
(* For every policy and every number of faults and stops: EvidenceInv is   *)
(* an invariant of TrialExecution, so a manifest stands for its files, a   *)
(* row for its file and a completed trial for all its evidence; and an     *)
(* attempt that fails without a fault has one of three reasons.            *)
(*                                                                         *)
(* The first part shows what a step of the executor does as far as the     *)
(* invariant can tell: the world keeps its type, and what is written is    *)
(* new at its key.  The second part has one lemma per group of actions.    *)
(***************************************************************************)
EXTENDS TrialExecutionInvariant, TLAPS

-----------------------------------------------------------------------------
(* Types of the world.                                                     *)

\* What the trial's kinds of files are (enums.py ArtifactKind): the five frames, the
\* trajectory and the manifest.
LEMMA KindsParts ==
  /\ Kinds = MilestoneKinds \cup {"trajectory", "trial_manifest"}
  /\ "trajectory" \notin MilestoneKinds
  /\ "trial_manifest" \notin MilestoneKinds
BY DEF Kinds, MilestoneKinds

\* A world that __init__ builds is well typed and has written nothing.
LEMMA NewWorldType == NewWorld \in WorldType /\ NewWorld.written = {}
BY SMTT(30) DEF NewWorld, WorldType, ControllerStates, Outcomes, TaskOutcomes

\* A world stays well typed when one of its fields is set (trial_execution.py).
LEMMA WorldFields ==
  ASSUME NEW w \in WorldType
  PROVE
    /\ \A x \in BOOLEAN : [w EXCEPT !.closed = x] \in WorldType
    /\ \A x \in BOOLEAN : [w EXCEPT !.released = x] \in WorldType
    /\ \A x \in BOOLEAN : [w EXCEPT !.verified = x] \in WorldType
    /\ \A x \in BOOLEAN : [w EXCEPT !.collided = x] \in WorldType
    /\ \A x \in BOOLEAN : [w EXCEPT !.held = x] \in WorldType
    /\ \A x \in BOOLEAN : [w EXCEPT !.lost = x] \in WorldType
    /\ \A x \in BOOLEAN : [w EXCEPT !.inTarget = x] \in WorldType
    /\ \A x \in 0..4 : [w EXCEPT !.touch = x] \in WorldType
    /\ \A x \in 0..4 : [w EXCEPT !.stable = x] \in WorldType
    /\ \A x \in 0..3 : [w EXCEPT !.elapsed = x] \in WorldType
    /\ \A x \in 0..1 : [w EXCEPT !.regrasps = x] \in WorldType
    /\ \A x \in {"none", "done", "ik_rejected"} : [w EXCEPT !.last = x] \in WorldType
    /\ \A x \in ControllerStates : [w EXCEPT !.state = x] \in WorldType
    /\ \A x \in SUBSET ControllerStates : [w EXCEPT !.started = x] \in WorldType
    /\ \A x \in SUBSET ControllerStates : [w EXCEPT !.ended = x] \in WorldType
    /\ \A x \in SUBSET Kinds : [w EXCEPT !.written = x] \in WorldType
    /\ \A x \in Outcomes \cup {"none"} : [w EXCEPT !.outcome = x] \in WorldType
<1>1. \A x \in BOOLEAN : [w EXCEPT !.closed = x] \in WorldType
  BY DEF WorldType
<1>2. \A x \in BOOLEAN : [w EXCEPT !.released = x] \in WorldType
  BY DEF WorldType
<1>3. \A x \in BOOLEAN : [w EXCEPT !.verified = x] \in WorldType
  BY DEF WorldType
<1>4. \A x \in BOOLEAN : [w EXCEPT !.collided = x] \in WorldType
  BY DEF WorldType
<1>5. \A x \in BOOLEAN : [w EXCEPT !.held = x] \in WorldType
  BY DEF WorldType
<1>6. \A x \in BOOLEAN : [w EXCEPT !.lost = x] \in WorldType
  BY DEF WorldType
<1>7. \A x \in BOOLEAN : [w EXCEPT !.inTarget = x] \in WorldType
  BY DEF WorldType
<1>8. \A x \in 0..4 : [w EXCEPT !.touch = x] \in WorldType
  BY DEF WorldType
<1>9. \A x \in 0..4 : [w EXCEPT !.stable = x] \in WorldType
  BY DEF WorldType
<1>10. \A x \in 0..3 : [w EXCEPT !.elapsed = x] \in WorldType
  BY DEF WorldType
<1>11. \A x \in 0..1 : [w EXCEPT !.regrasps = x] \in WorldType
  BY DEF WorldType
<1>12. \A x \in {"none", "done", "ik_rejected"} : [w EXCEPT !.last = x] \in WorldType
  BY DEF WorldType
<1>13. \A x \in ControllerStates : [w EXCEPT !.state = x] \in WorldType
  BY DEF WorldType
<1>14. \A x \in SUBSET ControllerStates : [w EXCEPT !.started = x] \in WorldType
  BY DEF WorldType
<1>15. \A x \in SUBSET ControllerStates : [w EXCEPT !.ended = x] \in WorldType
  BY DEF WorldType
<1>16. \A x \in SUBSET Kinds : [w EXCEPT !.written = x] \in WorldType
  BY DEF WorldType
<1>17. \A x \in Outcomes \cup {"none"} : [w EXCEPT !.outcome = x] \in WorldType
  BY DEF WorldType
<1> QED
  BY <1>1, <1>2, <1>3, <1>4, <1>5, <1>6, <1>7, <1>8, <1>9, <1>10, <1>11, <1>12, <1>13, <1>14, <1>15, <1>16, <1>17

\* A duration that a monitor accumulates stays within the cap (contacts.py observe).
LEMMA RunOnType ==
  ASSUME NEW run \in 0..4, NEW holds \in BOOLEAN, NEW elapsed \in 0..3
  PROVE  RunOn(run, holds, elapsed) \in 0..4
BY DEF RunOn, SustainedUpdates

\* _observe keeps the world well typed and leaves its state and files alone.
LEMMA ObservedType ==
  ASSUME NEW w \in WorldType, NEW see \in Sightings
  PROVE  /\ Observed(w, see) \in WorldType
         /\ Observed(w, see).state = w.state
         /\ Observed(w, see).written = w.written
<1> DEFINE touch  == RunOn(w.touch, see.touch, w.elapsed)
           stable == RunOn(w.stable, see.grip = "hold", w.elapsed)
           held   == w.held \/ Sustained(stable)
           c == w.collided \/ Sustained(touch)
           v == w.verified \/ see.grip # "none"
           l == w.lost \/ (held /\ see.grip # "hold" /\ ~see.inTarget)
           i == see.inTarget
           e1 == [w EXCEPT !.touch = touch]
           e2 == [e1 EXCEPT !.collided = c]
           e3 == [e2 EXCEPT !.verified = v]
           e4 == [e3 EXCEPT !.stable = stable]
           e5 == [e4 EXCEPT !.held = held]
           e6 == [e5 EXCEPT !.lost = l]
           e7 == [e6 EXCEPT !.inTarget = i]
           e8 == [e7 EXCEPT !.elapsed = 0]
<1>1. /\ w.touch \in 0..4 /\ w.stable \in 0..4 /\ w.elapsed \in 0..3
      /\ see.touch \in BOOLEAN /\ i \in BOOLEAN /\ (see.grip = "hold") \in BOOLEAN
      /\ w.held \in BOOLEAN /\ w.collided \in BOOLEAN /\ w.verified \in BOOLEAN
      /\ w.lost \in BOOLEAN
  BY DEF WorldType, Sightings
<1>2. touch \in 0..4 /\ stable \in 0..4
  BY <1>1, RunOnType
<1>3. held \in BOOLEAN /\ c \in BOOLEAN /\ v \in BOOLEAN /\ l \in BOOLEAN
  OBVIOUS
<1>4. Observed(w, see) =
        [w EXCEPT !.touch = touch, !.collided = c, !.verified = v, !.stable = stable,
                  !.held = held, !.lost = l, !.inTarget = i, !.elapsed = 0]
  BY DEF Observed
<1> HIDE DEF touch, stable, held, c, v, l, i
<1>5. Observed(w, see) = e8
  BY <1>4
<1>6. e1 \in WorldType /\ e1.state = w.state /\ e1.written = w.written
  <2>1. e1 \in WorldType  BY <1>2, WorldFields
  <2>2. e1.state = w.state /\ e1.written = w.written  BY DEF WorldType
  <2> QED  BY <2>1, <2>2
<1>7. e2 \in WorldType  BY <1>3, <1>6, WorldFields
<1>8. e3 \in WorldType  BY <1>3, <1>7, WorldFields
<1>9. e4 \in WorldType  BY <1>2, <1>8, WorldFields
<1>10. e5 \in WorldType  BY <1>3, <1>9, WorldFields
<1>11. e6 \in WorldType  BY <1>3, <1>10, WorldFields
<1>12. e7 \in WorldType  BY <1>1, <1>11, WorldFields
<1>13. e8 \in WorldType  BY <1>12, 0 \in 0..3, WorldFields
<1>14. e8.state = w.state /\ e8.written = w.written
  BY SMTT(30) DEF WorldType
<1> QED
  BY <1>5, <1>13, <1>14

\* What a policy decides (base.py PolicyDecision): there is no second re-grasp.
PlanType(plan, regrasps) ==
  /\ plan.next \in ControllerStates
  /\ plan.abort \in BOOLEAN
  /\ plan.regrasp \in BOOLEAN
  /\ plan.regrasp => regrasps = 0

\* Every policy decides in every state but the last one (base.py plan).
LEMMA PlanTyped ==
  ASSUME NEW w \in WorldType, w.state # "terminal", NEW reachable \in BOOLEAN
  PROVE  PlanType(Plan(Observation(w, reachable)), w.regrasps)
<1> DEFINE obs == Observation(w, reachable)
<1>1. /\ obs.state = w.state /\ obs.regrasps = w.regrasps
      /\ w.state \in ControllerStates \ {"terminal"} /\ w.regrasps \in 0..1
  BY DEF Observation, WorldType
<1> HIDE DEF obs
<1>2. AbortTarget(w.state) \in ControllerStates
  BY DEF AbortTarget, ControllerStates
<1>3. CASE MustAbort(obs)
  BY <1>1, <1>2, <1>3 DEF Plan, Abort, PlanType, obs
<1>4. CASE ~MustAbort(obs) /\ w.state = "verify_grasp"
  <2>1. Plan(obs) = VerifyGrasp(obs)
    BY <1>1, <1>4 DEF Plan
  <2>2. RegraspLimit \in 0..1
    BY DEF RegraspLimit
  <2>3. AbortTarget("verify_grasp") \in ControllerStates
    BY <1>2, <1>4
  <2>4. CASE obs.verified
    BY <2>1, <2>4 DEF VerifyGrasp, Decision, PlanType, ControllerStates, obs
  <2>5. CASE ~obs.verified /\ obs.regrasps < RegraspLimit
    BY <1>1, <2>1, <2>2, <2>5 DEF VerifyGrasp, PlanType, ControllerStates, obs
  <2>6. CASE ~obs.verified /\ ~(obs.regrasps < RegraspLimit)
    BY <2>1, <2>3, <2>6 DEF VerifyGrasp, Abort, PlanType, obs
  <2> QED
    BY <2>4, <2>5, <2>6
<1>5. CASE ~MustAbort(obs) /\ w.state # "verify_grasp"
  <2>1. Plan(obs) = Decision(Advance[w.state])
    BY <1>1, <1>5 DEF Plan
  <2>2. Advance[w.state] \in ControllerStates
    BY <1>1, <1>5 DEF Advance, ControllerStates
  <2> QED
    BY <2>1, <2>2 DEF Decision, PlanType, obs
<1> QED
  BY <1>3, <1>4, <1>5

\* The commands of a state keep the world well typed, its state and its files.
LEMMA ExecutedType ==
  ASSUME NEW w \in WorldType, NEW took \in 0..3, NEW rejected \in BOOLEAN
  PROVE  /\ Executed(w, took, rejected) \in WorldType
         /\ Executed(w, took, rejected).state = w.state
         /\ Executed(w, took, rejected).written = w.written
         /\ Executed(w, took, rejected).regrasps = w.regrasps
<1> DEFINE c == IF w.state \in Closing THEN TRUE
                ELSE IF w.state \in Opening THEN FALSE ELSE w.closed
           r == w.released \/ w.state \in Opening
           l == IF w.state \notin Timed THEN w.last
                ELSE IF rejected THEN "ik_rejected" ELSE "done"
           e1 == [w EXCEPT !.closed = c]
           e2 == [e1 EXCEPT !.released = r]
           e3 == [e2 EXCEPT !.last = l]
           e4 == [e3 EXCEPT !.elapsed = took]
<1>1. c \in BOOLEAN /\ r \in BOOLEAN /\ l \in {"none", "done", "ik_rejected"}
  BY DEF WorldType
<1>2. Executed(w, took, rejected)
        = [w EXCEPT !.closed = c, !.released = r, !.last = l, !.elapsed = took]
  BY DEF Executed
<1> HIDE DEF c, r, l
<1>3. Executed(w, took, rejected) = e4
  BY <1>2
<1>4. e1 \in WorldType
  BY <1>1, WorldFields
<1>5. e2 \in WorldType
  BY <1>1, <1>4, WorldFields
<1>6. e3 \in WorldType
  BY <1>1, <1>5, WorldFields
<1>7. e4 \in WorldType
  BY <1>6, WorldFields
<1>8. e4.state = w.state /\ e4.written = w.written /\ e4.regrasps = w.regrasps
  BY SMTT(30) DEF WorldType
<1> QED
  BY <1>3, <1>7, <1>8

\* A transition keeps the world well typed and its files.
LEMMA MovedType ==
  ASSUME NEW w \in WorldType, NEW plan, PlanType(plan, w.regrasps)
  PROVE  /\ Moved(w, plan) \in WorldType
         /\ Moved(w, plan).written = w.written
<1> DEFINE s == plan.next
           st == w.started \cup {plan.next}
           en == IF plan.abort THEN w.ended ELSE w.ended \cup {w.state}
           rg == IF plan.regrasp THEN w.regrasps + 1 ELSE w.regrasps
           e1 == [w EXCEPT !.state = s]
           e2 == [e1 EXCEPT !.started = st]
           e3 == [e2 EXCEPT !.ended = en]
           e4 == [e3 EXCEPT !.regrasps = rg]
<1>1. /\ w.started \in SUBSET ControllerStates /\ w.ended \in SUBSET ControllerStates
      /\ w.state \in ControllerStates /\ w.regrasps \in 0..1
  BY DEF WorldType
<1>2. s \in ControllerStates /\ st \in SUBSET ControllerStates
      /\ en \in SUBSET ControllerStates /\ rg \in 0..1
  BY <1>1 DEF PlanType
<1>3. Moved(w, plan)
        = [w EXCEPT !.state = s, !.started = st, !.ended = en, !.regrasps = rg]
  BY DEF Moved
<1> HIDE DEF s, st, en, rg
<1>4. Moved(w, plan) = e4
  BY <1>3
<1>5. e1 \in WorldType
  BY <1>2, WorldFields
<1>6. e2 \in WorldType
  BY <1>2, <1>5, WorldFields
<1>7. e3 \in WorldType
  BY <1>2, <1>6, WorldFields
<1>8. e4 \in WorldType
  BY <1>2, <1>7, WorldFields
<1>9. e4.written = w.written
  BY SMTT(30) DEF WorldType
<1> QED
  BY <1>4, <1>8, <1>9

-----------------------------------------------------------------------------
(* What the recorder writes.                                               *)

\* The attempt has written files of these kinds, which were not there.
Captured(kinds) ==
  /\ \A k \in kinds : files[k] = None
  /\ Stored(kinds)
  /\ world'.written = world.written \cup kinds

\* Going from one state to the next takes frames that are new, or fails and takes none.
LEMMA CrossEffect ==
  ASSUME NEW w \in WorldType, w.written = world.written,
         NEW plan, PlanType(plan, w.regrasps), Cross(w, plan)
  PROVE  /\ world' \in WorldType
         /\ \/ at' = "failing" /\ UNCHANGED files /\ world'.written = world.written
            \/ at' = at /\ \E kinds \in SUBSET MilestoneKinds : Captured(kinds)
<1> DEFINE kinds == Milestones(w.state, plan.next)
           mv == Moved(w, plan)
<1>1. mv \in WorldType /\ mv.written = world.written
  BY MovedType
<1>2. kinds \in SUBSET MilestoneKinds /\ kinds \in SUBSET Kinds
  BY KindsParts DEF Milestones
<1>3. CASE Clash(w, kinds)
  <2>1. world' = mv /\ at' = "failing" /\ UNCHANGED files
    BY <1>3 DEF Cross
  <2> QED
    BY <1>1, <2>1
<1>4. CASE ~Clash(w, kinds)
  <2>1. world' = [mv EXCEPT !.written = @ \cup kinds] /\ Stored(kinds) /\ UNCHANGED at
    BY <1>4 DEF Cross
  <2>2. \A k \in kinds : files[k] = None
    BY <1>4 DEF Clash
  <2> HIDE DEF mv, kinds
  <2>3. mv.written \cup kinds \in SUBSET Kinds
    BY <1>1, <1>2 DEF WorldType
  <2>4. world' = [mv EXCEPT !.written = mv.written \cup kinds]
    BY <2>1
  <2>5. world' \in WorldType
    BY <1>1, <2>3, <2>4, WorldFields
  <2>6. world'.written = world.written \cup kinds
    BY <1>1, <2>4 DEF WorldType
  <2> QED
    BY <1>2, <2>1, <2>2, <2>5, <2>6 DEF Captured
<1> QED
  BY <1>3, <1>4

\* The same of a whole step of the executor (execute_current_state).
LEMMA ExecuteEffect ==
  ASSUME TypeOK, Execute
  PROVE  /\ at = "executing"
         /\ UNCHANGED <<trial, rows, quarantined, attempt, cancelling, faults, stops>>
         /\ world' \in WorldType
         /\ \/ at' = "failing" /\ UNCHANGED files /\ world'.written = world.written
            \/ at' = at /\ \E kinds \in SUBSET MilestoneKinds : Captured(kinds)
<1>1. /\ at = "executing" /\ world.state # "terminal" /\ world \in WorldType
      /\ UNCHANGED <<trial, rows, quarantined, attempt, cancelling, faults, stops>>
  BY DEF Execute, Running, TypeOK
<1>2. PICK see \in Sightings, reachable \in BOOLEAN :
        LET w    == Observed(world, see)
            plan == Plan(Observation(w, reachable))
        IN  \/ Cross(w, plan)
            \/ \E took \in 0..3, rejected \in BOOLEAN : Cross(Executed(w, took, rejected), plan)
  <2>1. \A state : Durations(state) \subseteq 0..3
    BY DEF Durations, SustainedUpdates
  <2> QED
    BY <2>1 DEF Execute
<1> DEFINE w    == Observed(world, see)
           plan == Plan(Observation(w, reachable))
<1>3. w \in WorldType /\ w.state = world.state /\ w.written = world.written
  BY <1>1, ObservedType
<1>4. PlanType(plan, w.regrasps)
  BY <1>1, <1>3, PlanTyped
<1> HIDE DEF w, plan
<1>5. CASE Cross(w, plan)
  BY <1>1, <1>3, <1>4, <1>5, CrossEffect
<1>6. CASE \E took \in 0..3, rejected \in BOOLEAN : Cross(Executed(w, took, rejected), plan)
  <2>1. PICK took \in 0..3, rejected \in BOOLEAN : Cross(Executed(w, took, rejected), plan)
    BY <1>6
  <2> DEFINE x == Executed(w, took, rejected)
  <2>2. x \in WorldType /\ x.written = world.written /\ PlanType(plan, x.regrasps)
    BY <1>3, <1>4, ExecutedType
  <2> HIDE DEF x
  <2>3. Cross(x, plan)
    BY <2>1 DEF x
  <2> QED
    BY <1>1, <2>2, <2>3, CrossEffect
<1> QED
  BY <1>2, <1>5, <1>6 DEF w, plan

-----------------------------------------------------------------------------
(* The invariant is kept: first in groups of actions.                      *)

\* What holds of files and rows holds on while both stay and no attempt ends
\* the trial as completed.
LEMMA FilesKept ==
  ASSUME EvidenceInv, UNCHANGED <<rows, files>>,
         attempt' \in Nat, attempt' >= attempt,
         trial' = trial \/ trial'.status # "completed"
  PROVE  /\ ManifestLast' /\ RowsBacked' /\ CompletedEvidence'
         /\ \A k \in Kinds : files'[k] <= attempt'
<1> USE DEF EvidenceInv
<1>1. ManifestLast' /\ RowsBacked'
  BY DEF ManifestLast, RowsBacked
<1>2. CompletedEvidence'
  <2>1. CASE trial'.status # "completed"
    BY <2>1 DEF CompletedEvidence
  <2>2. CASE trial' = trial /\ trial.status = "completed"
    <3>1. PICK a \in 1..attempt : \A k \in Kinds : rows[k] = a
      BY <2>2 DEF CompletedEvidence
    <3>2. a \in 1..attempt'
      BY DEF TypeOK
    <3> QED
      BY <2>2, <3>1, <3>2 DEF CompletedEvidence
  <2> QED
    BY <2>1, <2>2
<1>3. \A k \in Kinds : files'[k] <= attempt'
  BY DEF Attempts, TypeOK
<1> QED
  BY <1>1, <1>2, <1>3

\* The attempt is over, and nothing of it is left in memory.
LEMMA AttemptOver ==
  ASSUME at' \in {"idle", "abandoned"}, world' = NewWorld
  PROVE  OwnFiles' /\ Stages' /\ NoManifestYet' /\ world' \in WorldType
BY NewWorldType DEF OwnFiles, Stages, NoManifestYet, Active

\* A trial ends without rows being written: it is cancelled, failed or left running.
LEMMA EndsWithoutRows ==
  ASSUME EvidenceInv, TypeOK', UNCHANGED <<rows, files, attempt>>,
         at' \in {"idle", "abandoned"}, world' = NewWorld,
         \/ trial' = trial
         \/ trial.status = "running" /\ trial'.status # "completed"
  PROVE  EvidenceInv'
<1>1. attempt \in Nat
  BY DEF EvidenceInv, TypeOK
<1>2. ManifestLast' /\ RowsBacked' /\ CompletedEvidence'
      /\ \A k \in Kinds : files'[k] <= attempt'
  BY <1>1, FilesKept
<1>3. Attempts'
  BY <1>2 DEF Attempts, Active
<1>4. RowsAtEnd'
  BY DEF EvidenceInv, RowsAtEnd
<1> QED
  BY <1>2, <1>3, <1>4, AttemptOver DEF EvidenceInv

\* The attempt has captured frames, or the trajectory: they were not there, so no
\* manifest is, and they are its own.
LEMMA CaptureKept ==
  ASSUME EvidenceInv, at \in Active,
         NEW kinds \in SUBSET (Kinds \ {"trial_manifest"}), Captured(kinds),
         UNCHANGED <<trial, rows, attempt>>
  PROVE  /\ files' \in [Kinds -> Nat]
         /\ \A k \in Kinds : files'[k] <= attempt'
         /\ \A k \in world'.written : files'[k] = attempt'
         /\ files'["trial_manifest"] = files["trial_manifest"]
         /\ RowsAtEnd' /\ ManifestLast' /\ RowsBacked' /\ CompletedEvidence'
<1> USE DEF EvidenceInv
<1>1. /\ trial.status = "running" /\ attempt \in Nat /\ attempt > 0
      /\ files \in [Kinds -> Nat] /\ world.written \subseteq Kinds
      /\ \A k \in Kinds : files[k] <= attempt
      /\ "trial_manifest" \in Kinds /\ kinds \subseteq Kinds
  BY KindsParts DEF Attempts, TypeOK, WorldType
<1>2. files' = [k \in Kinds |-> IF k \in kinds THEN attempt ELSE files[k]]
  BY DEF Captured, Stored
<1>3. /\ \A k \in kinds : files[k] = None
      /\ world'.written = world.written \cup kinds
  BY DEF Captured
<1>4. \A k \in Kinds : rows[k] = None
  BY <1>1 DEF RowsAtEnd
<1>5. RowsAtEnd' /\ RowsBacked' /\ CompletedEvidence'
  BY <1>1, <1>4 DEF RowsAtEnd, RowsBacked, CompletedEvidence
<1>6. files' \in [Kinds -> Nat] /\ \A k \in Kinds : files'[k] <= attempt'
  BY <1>1, <1>2
<1>7. \A k \in world'.written : files'[k] = attempt'
  <2>1. \A k \in world.written : files[k] = attempt
    BY DEF OwnFiles
  <2> QED
    BY <1>1, <1>2, <1>3, <2>1
<1>8. files'["trial_manifest"] = files["trial_manifest"]
  BY <1>1, <1>2
<1>9. ManifestLast'
  <2>1. CASE files["trial_manifest"] = None
    BY <1>8, <2>1 DEF ManifestLast
  <2>2. CASE files["trial_manifest"] # None
    <3>1. \A k \in Kinds : files[k] # None
      BY <2>2 DEF ManifestLast
    <3>2. kinds = {}
      BY <1>1, <1>3, <3>1
    <3>3. \A k \in Kinds : files'[k] = files[k]
      BY <1>2, <3>2
    <3> QED
      BY <1>1, <3>3 DEF ManifestLast
  <2> QED
    BY <2>1, <2>2
<1> QED
  BY <1>5, <1>6, <1>7, <1>8, <1>9

\* Execution of a controller state (trial_execution.py execute_current_state).
LEMMA ExecuteKept == EvidenceInv /\ Execute => EvidenceInv'
<1> SUFFICES ASSUME EvidenceInv, Execute PROVE EvidenceInv'
  OBVIOUS
<1>1. TypeOK /\ at = "executing" /\ at \in Active
      /\ UNCHANGED <<trial, rows, quarantined, attempt, cancelling, faults, stops>>
      /\ world' \in WorldType
  BY ExecuteEffect DEF EvidenceInv, Active
<1>2. world.written \subseteq MilestoneKinds /\ files["trial_manifest"] # attempt
  BY <1>1 DEF EvidenceInv, Stages, NoManifestYet
<1>3. CASE at' = "failing" /\ UNCHANGED files /\ world'.written = world.written
  <2>1. TypeOK'
    BY <1>1, <1>3 DEF TypeOK, Active
  <2>2. ManifestLast' /\ RowsBacked' /\ CompletedEvidence' /\ \A k \in Kinds : files'[k] <= attempt'
    BY <1>1, <1>3, FilesKept DEF TypeOK
  <2>3. Attempts'
    BY <1>1, <2>2 DEF EvidenceInv, Attempts
  <2>4. OwnFiles'
    BY <1>1, <1>3 DEF EvidenceInv, OwnFiles
  <2>5. Stages'
    BY <1>2, <1>3, KindsParts DEF Stages
  <2>6. NoManifestYet' /\ RowsAtEnd'
    BY <1>1, <1>2, <1>3 DEF EvidenceInv, NoManifestYet, RowsAtEnd
  <2> QED
    BY <2>1, <2>2, <2>3, <2>4, <2>5, <2>6 DEF EvidenceInv
<1>4. CASE at' = at /\ \E kinds \in SUBSET MilestoneKinds : Captured(kinds)
  <2>1. PICK kinds \in SUBSET MilestoneKinds : Captured(kinds)
    BY <1>4
  <2>2. kinds \in SUBSET (Kinds \ {"trial_manifest"})
    BY KindsParts
  <2>3. /\ files' \in [Kinds -> Nat]
        /\ \A k \in Kinds : files'[k] <= attempt'
        /\ \A k \in world'.written : files'[k] = attempt'
        /\ files'["trial_manifest"] = files["trial_manifest"]
        /\ RowsAtEnd' /\ ManifestLast' /\ RowsBacked' /\ CompletedEvidence'
    BY <1>1, <2>1, <2>2, CaptureKept
  <2>4. TypeOK'
    BY <1>1, <1>4, <2>3 DEF TypeOK
  <2>5. Attempts' /\ OwnFiles'
    BY <1>1, <2>3 DEF EvidenceInv, Attempts, OwnFiles
  <2>6. Stages'
    BY <1>1, <1>2, <1>4, <2>1 DEF Stages, Captured
  <2>7. NoManifestYet'
    BY <1>1, <1>2, <2>3 DEF NoManifestYet
  <2> QED
    BY <2>3, <2>4, <2>5, <2>6, <2>7 DEF EvidenceInv
<1> QED
  BY <1>3, <1>4, ExecuteEffect DEF EvidenceInv

\* A step that fails the attempt and writes nothing (trial_execution.py execute).
LEMMA FailingKept ==
  ASSUME EvidenceInv, TypeOK', at \in {"opening", "executing", "sealing"}, at' = "failing",
         UNCHANGED <<trial, rows, files, attempt, world>>
  PROVE  EvidenceInv'
<1>1. ManifestLast' /\ RowsBacked' /\ CompletedEvidence' /\ \A k \in Kinds : files'[k] <= attempt'
  BY FilesKept DEF EvidenceInv, TypeOK
<1>2. Attempts' /\ OwnFiles' /\ NoManifestYet' /\ RowsAtEnd'
  BY <1>1 DEF EvidenceInv, Attempts, OwnFiles, NoManifestYet, RowsAtEnd, Active
<1>3. Stages'
  BY KindsParts DEF EvidenceInv, Stages
<1> QED
  BY <1>1, <1>2, <1>3 DEF EvidenceInv

\* The trajectory is written when all frames are there (manifests.py finalize).
LEMMA WriteTrajectoryKept == EvidenceInv /\ WriteTrajectory => EvidenceInv'
<1> SUFFICES ASSUME EvidenceInv, WriteTrajectory PROVE EvidenceInv'
  OBVIOUS
<1>1. TypeOK /\ at = "executing" /\ at \in Active
      /\ UNCHANGED <<trial, rows, quarantined, attempt, cancelling, faults, stops>>
  BY DEF EvidenceInv, WriteTrajectory, Active
<1>2. world.written \subseteq MilestoneKinds /\ files["trial_manifest"] # attempt
      /\ world \in WorldType
  BY <1>1 DEF EvidenceInv, Stages, NoManifestYet, TypeOK
<1> DEFINE refused == MissingFrames(world) # {} \/ Clash(world, {"trajectory"})
<1>3. CASE refused
  <2>1. at' = "failing" /\ UNCHANGED <<files, world>>
    BY <1>3 DEF WriteTrajectory
  <2>2. TypeOK'
    BY <1>1, <2>1 DEF TypeOK, Active
  <2> QED
    BY <1>1, <2>1, <2>2, FailingKept
<1>4. CASE ~refused
  <2>1. /\ at' = "sealing" /\ Stored({"trajectory"})
        /\ world' = [world EXCEPT !.written = world.written \cup {"trajectory"}]
    BY <1>4 DEF WriteTrajectory
  <2>2. world.written = MilestoneKinds /\ files["trajectory"] = None
    BY <1>2, <1>4 DEF MissingFrames, Clash
  <2>3. world.written \cup {"trajectory"} \in SUBSET Kinds
    BY <2>2, KindsParts
  <2>4. world' \in WorldType /\ world'.written = world.written \cup {"trajectory"}
    <3>1. world' \in WorldType
      BY <1>2, <2>1, <2>3, WorldFields
    <3> QED
      BY <1>2, <2>1, <3>1 DEF WorldType
  <2>5. Captured({"trajectory"}) /\ {"trajectory"} \in SUBSET (Kinds \ {"trial_manifest"})
    BY <2>1, <2>2, <2>4, KindsParts DEF Captured
  <2>6. /\ files' \in [Kinds -> Nat]
        /\ \A k \in Kinds : files'[k] <= attempt'
        /\ \A k \in world'.written : files'[k] = attempt'
        /\ files'["trial_manifest"] = files["trial_manifest"]
        /\ RowsAtEnd' /\ ManifestLast' /\ RowsBacked' /\ CompletedEvidence'
    BY <1>1, <2>5, CaptureKept
  <2>7. TypeOK'
    BY <1>1, <2>1, <2>4, <2>6 DEF TypeOK, Active
  <2>8. Attempts' /\ OwnFiles'
    BY <1>1, <2>6 DEF EvidenceInv, Attempts, OwnFiles
  <2>9. world'.written = Kinds \ {"trial_manifest"}
    BY <2>2, <2>4, KindsParts
  <2>10. Stages' /\ NoManifestYet'
    BY <1>1, <1>2, <2>1, <2>6, <2>9 DEF Stages, NoManifestYet
  <2> QED
    BY <2>6, <2>7, <2>8, <2>10 DEF EvidenceInv
<1> QED
  BY <1>3, <1>4

\* The manifest is written when all other files are there and the attempt's own.
LEMMA WriteManifestKept == EvidenceInv /\ WriteManifest => EvidenceInv'
<1> SUFFICES ASSUME EvidenceInv, WriteManifest PROVE EvidenceInv'
  OBVIOUS
<1>1. /\ TypeOK /\ at = "sealing" /\ at \in Active
      /\ UNCHANGED <<trial, rows, quarantined, attempt, cancelling, faults, stops>>
      /\ trial.status = "running" /\ attempt \in Nat /\ attempt > 0
  BY DEF EvidenceInv, WriteManifest, Active, Attempts, TypeOK
<1>2. /\ world.written = Kinds \ {"trial_manifest"} /\ world \in WorldType
      /\ files \in [Kinds -> Nat] /\ \A k \in world.written : files[k] = attempt
  BY <1>1 DEF EvidenceInv, Stages, TypeOK, OwnFiles
<1>3. CASE Clash(world, {"trial_manifest"})
  <2>1. at' = "failing" /\ UNCHANGED <<files, world>>
    BY <1>3 DEF WriteManifest
  <2>2. TypeOK'
    BY <1>1, <2>1 DEF TypeOK, Active
  <2> QED
    BY <1>1, <2>1, <2>2, FailingKept
<1>4. CASE ~Clash(world, {"trial_manifest"})
  <2>1. /\ at' = "sealed" /\ Stored({"trial_manifest"})
        /\ world' = [world EXCEPT !.written = world.written \cup {"trial_manifest"}]
    BY <1>4 DEF WriteManifest
  <2>2. world.written \cup {"trial_manifest"} = Kinds
    BY <1>2, KindsParts
  <2>3. world' \in WorldType
    BY <1>2, <2>1, <2>2, WorldFields
  <2>4. world'.written = Kinds
    BY <1>2, <2>1, <2>2, <2>3 DEF WorldType
  <2>5. files' = [k \in Kinds |-> attempt]
    BY <1>2, <2>1 DEF Stored
  <2>6. TypeOK'
    BY <1>1, <2>1, <2>3, <2>5 DEF TypeOK, Active
  <2>7. Attempts' /\ OwnFiles'
    BY <1>1, <2>4, <2>5 DEF Attempts, OwnFiles
  <2>8. Stages' /\ NoManifestYet'
    BY <2>1, <2>4 DEF Stages, NoManifestYet
  <2>9. RowsAtEnd' /\ RowsBacked' /\ CompletedEvidence'
    BY <1>1 DEF EvidenceInv, RowsAtEnd, RowsBacked, CompletedEvidence
  <2>10. ManifestLast'
    BY <2>5, KindsParts DEF ManifestLast
  <2> QED
    BY <2>6, <2>7, <2>8, <2>9, <2>10 DEF EvidenceInv
<1> QED
  BY <1>3, <1>4

\* The rows that the worker commits with an executed trial (worker.py _commit_success
\* and _fail_trial), also when it never learns that they were committed.
LEMMA RecordedKept ==
  ASSUME EvidenceInv, at = "committing", Recorded, TypeOK',
         at' \in {"idle", "abandoned"}, world' = NewWorld, UNCHANGED <<files, attempt>>
  PROVE  EvidenceInv'
<1>1. /\ trial.status = "running" /\ attempt \in Nat /\ attempt > 0
      /\ world.written = Kinds /\ \A k \in Kinds : files[k] = attempt
      /\ \A k \in Kinds : files[k] <= attempt
      /\ \A k \in Kinds : rows[k] = None
  BY DEF EvidenceInv, Attempts, Active, Stages, OwnFiles, RowsAtEnd, TypeOK
<1>2. rows' = [k \in Kinds |-> attempt]
  BY <1>1 DEF Recorded, RowsInserted
<1>3. /\ trial'.status \in {"completed", "failed"}
      /\ trial'.status = "completed" => trial'.outcome \in TaskOutcomes
  BY DEF Recorded, TrialIs
<1>4. OwnFiles' /\ Stages' /\ NoManifestYet'
  BY AttemptOver
<1>5. Attempts' /\ RowsAtEnd'
  BY <1>1, <1>3 DEF Attempts, RowsAtEnd, Active
<1>6. RowsBacked' /\ ManifestLast'
  BY <1>1, <1>2 DEF EvidenceInv, RowsBacked, ManifestLast
<1>7. CompletedEvidence'
  <2>1. attempt' \in 1..attempt' /\ \A k \in Kinds : rows'[k] = attempt'
    BY <1>1, <1>2
  <2> QED
    BY <1>3, <2>1 DEF CompletedEvidence
<1> QED
  BY <1>4, <1>5, <1>6, <1>7 DEF EvidenceInv

\* A failed attempt moves one of its own files away: the manifest, if there is one, is
\* not of this attempt, and so lists none of its files (worker.py _quarantine).
LEMMA QuarantineKept == \A k \in Kinds : EvidenceInv /\ Quarantine(k) => EvidenceInv'
<1> SUFFICES ASSUME NEW k \in Kinds, EvidenceInv, Quarantine(k) PROVE EvidenceInv'
  OBVIOUS
<1>1. /\ TypeOK /\ at = "failing" /\ k \in world.written /\ k # "trial_manifest"
      /\ world' = [world EXCEPT !.written = world.written \ {k}]
      /\ UNCHANGED <<trial, rows, attempt, at, cancelling, stops>>
  BY DEF EvidenceInv, Quarantine, Quarantinable
<1>2. /\ trial.status = "running" /\ attempt \in Nat /\ attempt > 0 /\ world \in WorldType
      /\ files \in [Kinds -> Nat] /\ \A j \in Kinds : files[j] <= attempt
      /\ \A j \in world.written : files[j] = attempt
      /\ files["trial_manifest"] # attempt /\ "trial_manifest" \notin world.written
      /\ \A j \in Kinds : rows[j] = None
      /\ "trial_manifest" \in Kinds
  BY <1>1, KindsParts DEF EvidenceInv, TypeOK, Attempts, OwnFiles, NoManifestYet, Stages,
     RowsAtEnd, Active
<1>3. world' \in WorldType /\ world'.written = world.written \ {k}
  <2>1. world.written \ {k} \in SUBSET Kinds
    BY <1>2 DEF WorldType
  <2>2. world' \in WorldType
    BY <1>1, <1>2, <2>1, WorldFields
  <2> QED
    BY <1>1, <1>2, <2>2 DEF WorldType
<1>4. /\ files' \in [Kinds -> Nat] /\ \A j \in Kinds : j # k => files'[j] = files[j]
      /\ files'[k] \in {None, files[k]}
      /\ quarantined' \in SUBSET (Kinds \X Nat) /\ faults' \in 0..MaxFaults
  <2>1. CASE /\ files' = [files EXCEPT ![k] = None]
             /\ quarantined' = quarantined \cup {<<k, files[k]>>}
             /\ UNCHANGED faults
    BY <1>2, <2>1 DEF EvidenceInv, TypeOK, None
  <2>2. CASE Fault /\ UNCHANGED <<files, quarantined>>
    BY <1>2, <2>2, ExecutionAssumption DEF EvidenceInv, TypeOK, Fault
  <2> QED
    BY <2>1, <2>2 DEF Quarantine
<1>5. TypeOK'
  BY <1>1, <1>3, <1>4 DEF TypeOK
<1>6. files'["trial_manifest"] = None
  <2>1. files["trial_manifest"] = None
    BY <1>1, <1>2 DEF EvidenceInv, ManifestLast
  <2> QED
    BY <1>1, <1>2, <1>4, <2>1
<1>7. Attempts' /\ OwnFiles'
  BY <1>1, <1>2, <1>3, <1>4 DEF Attempts, OwnFiles, None, WorldType
<1>8. Stages' /\ NoManifestYet'
  BY <1>1, <1>2, <1>3, <1>6 DEF Stages, NoManifestYet, None
<1>9. RowsAtEnd' /\ RowsBacked' /\ CompletedEvidence' /\ ManifestLast'
  BY <1>1, <1>2, <1>6 DEF RowsAtEnd, RowsBacked, CompletedEvidence, ManifestLast
<1> QED
  BY <1>5, <1>7, <1>8, <1>9 DEF EvidenceInv

\* A trial starts with nothing written.
LEMMA InitKept == Init => EvidenceInv
<1> SUFFICES ASSUME Init PROVE EvidenceInv
  OBVIOUS
<1>1. TypeOK
  <2>1. rows \in [Kinds -> Nat] /\ files \in [Kinds -> Nat]
    BY DEF Init, None
  <2>2. /\ trial \in [status : {"pending", "running"} \cup TerminalTrialStatuses,
                     outcome : Outcomes \cup {"none"}]
        /\ quarantined \in SUBSET (Kinds \X Nat)
    BY DEF Init
  <2>3. attempt \in Nat /\ faults \in 0..MaxFaults /\ stops \in 0..MaxStops
    BY ExecutionAssumption DEF Init
  <2>4. at \in Active \cup {"idle", "abandoned"} /\ world \in WorldType /\ cancelling \in BOOLEAN
    BY NewWorldType DEF Init
  <2> QED
    BY <2>1, <2>2, <2>3, <2>4 DEF TypeOK
<1>2. Attempts /\ OwnFiles /\ Stages /\ NoManifestYet
  BY NewWorldType DEF Init, Attempts, OwnFiles, Stages, NoManifestYet, Active, None
<1>3. RowsAtEnd /\ ManifestLast /\ RowsBacked /\ CompletedEvidence
  BY KindsParts DEF Init, RowsAtEnd, ManifestLast, RowsBacked, CompletedEvidence
<1> QED
  BY <1>1, <1>2, <1>3 DEF EvidenceInv

\* Steps around the attempt: it begins, is asked to cancel, opens its world, is classified.
LEMMA QuietKept ==
  EvidenceInv /\ (Begin \/ Open \/ RequestCancel \/ Classify \/ Fails) => EvidenceInv'
<1> SUFFICES ASSUME EvidenceInv PROVE Begin \/ Open \/ RequestCancel \/ Classify \/ Fails => EvidenceInv'
  OBVIOUS
<1>0. TypeOK /\ attempt \in Nat
  BY DEF EvidenceInv, TypeOK
<1>1. CASE Begin
  <2>1. TypeOK'
    BY <1>0, <1>1 DEF Begin, TrialIs, TypeOK, Active, Outcomes
  <2>2. ManifestLast' /\ RowsBacked' /\ CompletedEvidence' /\ \A k \in Kinds : files'[k] <= attempt'
    BY <1>0, <1>1, FilesKept DEF Begin, TrialIs
  <2>3. Attempts' /\ Stages' /\ RowsAtEnd'
    BY <1>0, <1>1, <2>2 DEF EvidenceInv, Begin, TrialIs, Attempts, Stages, RowsAtEnd,
       TerminalTrialStatuses
  <2>4. OwnFiles'
    BY <1>1 DEF EvidenceInv, Begin, OwnFiles, Stages
  <2>5. NoManifestYet'
    BY <1>0, <1>1, KindsParts DEF EvidenceInv, Begin, NoManifestYet, Attempts, TypeOK
  <2> QED
    BY <2>1, <2>2, <2>3, <2>4, <2>5 DEF EvidenceInv
<1>2. CASE Open
  <2>1. TypeOK'
    BY <1>0, <1>2, NewWorldType DEF Open, TypeOK, Active
  <2>2. ManifestLast' /\ RowsBacked' /\ CompletedEvidence' /\ \A k \in Kinds : files'[k] <= attempt'
    BY <1>0, <1>2, FilesKept DEF Open
  <2>3. Attempts' /\ Stages' /\ RowsAtEnd' /\ OwnFiles' /\ NoManifestYet'
    BY <1>2, <2>2, NewWorldType DEF EvidenceInv, Open, Attempts, Stages, RowsAtEnd, OwnFiles,
       NoManifestYet, Active
  <2> QED
    BY <2>1, <2>2, <2>3 DEF EvidenceInv
<1>3. CASE RequestCancel
  <2>1. TypeOK'
    BY <1>0, <1>3 DEF RequestCancel, TypeOK
  <2>2. ManifestLast' /\ RowsBacked' /\ CompletedEvidence' /\ \A k \in Kinds : files'[k] <= attempt'
    BY <1>0, <1>3, FilesKept DEF RequestCancel
  <2>3. Attempts' /\ Stages' /\ RowsAtEnd' /\ OwnFiles' /\ NoManifestYet'
    BY <1>3, <2>2 DEF EvidenceInv, RequestCancel, Attempts, Stages, RowsAtEnd, OwnFiles,
       NoManifestYet, Active
  <2> QED
    BY <2>1, <2>2, <2>3 DEF EvidenceInv
<1>4. CASE Classify
  <2>1. PICK settled \in BOOLEAN : world' = [world EXCEPT !.outcome = Classified(world, settled)]
    BY <1>4 DEF Classify
  <2>2. Classified(world, settled) \in Outcomes \cup {"none"}
    BY DEF Classified, Outcomes, TaskOutcomes
  <2>3. world \in WorldType
    BY <1>0 DEF TypeOK
  <2>4. world' \in WorldType
    BY <2>1, <2>2, <2>3, WorldFields
  <2>5. world'.written = world.written
    <3> DEFINE c == Classified(world, settled)
    <3>1. world' = [world EXCEPT !.outcome = c]
      BY <2>1
    <3> HIDE DEF c
    <3> QED
      BY <2>3, <3>1 DEF WorldType
  <2>6. TypeOK'
    BY <1>0, <1>4, <2>4 DEF Classify, TypeOK, Active
  <2>7. ManifestLast' /\ RowsBacked' /\ CompletedEvidence' /\ \A k \in Kinds : files'[k] <= attempt'
    BY <1>0, <1>4, FilesKept DEF Classify
  <2>8. Attempts' /\ Stages' /\ RowsAtEnd' /\ OwnFiles' /\ NoManifestYet'
    BY <1>4, <2>5, <2>7 DEF EvidenceInv, Classify, Attempts, Stages, RowsAtEnd, OwnFiles,
       NoManifestYet, Active
  <2> QED
    BY <2>6, <2>7, <2>8 DEF EvidenceInv
<1>5. CASE Fails
  <2>1. TypeOK'
    BY <1>0, <1>5, ExecutionAssumption DEF Fails, Fault, TypeOK, Active
  <2> QED
    BY <1>5, <2>1, FailingKept DEF Fails
<1> QED
  BY <1>1, <1>2, <1>3, <1>4, <1>5

\* Steps that end the attempt (worker.py _execute_slots).
LEMMA EndKept ==
  EvidenceInv /\ (Interrupt \/ CancelRunning \/ Crash \/ Commit \/ CommitFailure \/ CommitLost)
    => EvidenceInv'
<1> SUFFICES ASSUME EvidenceInv
             PROVE  Interrupt \/ CancelRunning \/ Crash \/ Commit \/ CommitFailure \/ CommitLost
                      => EvidenceInv'
  OBVIOUS
<1>0. TypeOK /\ (at \in Active => trial.status = "running")
  BY DEF EvidenceInv, Attempts
<1>1. CASE Interrupt
  <2>1. TypeOK'
    BY <1>0, <1>1, NewWorldType, ExecutionAssumption DEF Interrupt, TypeOK
  <2> QED
    BY <1>1, <2>1, EndsWithoutRows DEF Interrupt
<1>2. CASE CancelRunning
  <2>1. TypeOK'
    BY <1>0, <1>2, NewWorldType DEF CancelRunning, TrialIs, TypeOK, TerminalTrialStatuses
  <2> QED
    BY <1>0, <1>2, <2>1, EndsWithoutRows DEF CancelRunning, Running, TrialIs, Active
<1>3. CASE Crash
  <2>1. TypeOK'
    BY <1>0, <1>3, NewWorldType, ExecutionAssumption DEF Crash, Fault, TypeOK
  <2> QED
    BY <1>3, <2>1, EndsWithoutRows DEF Crash
<1>4. ASSUME at = "committing", Recorded PROVE
             /\ trial' \in [status : {"pending", "running"} \cup TerminalTrialStatuses,
                            outcome : Outcomes \cup {"none"}]
             /\ rows' \in [Kinds -> Nat]
  BY <1>0, <1>4 DEF Recorded, TrialIs, RowsInserted, TypeOK, TerminalTrialStatuses, Outcomes
<1>5. CASE Commit
  <2>1. TypeOK'
    BY <1>0, <1>4, <1>5, NewWorldType DEF Commit, Done, TypeOK
  <2> QED
    BY <1>5, <2>1, RecordedKept DEF Commit, Done
<1>6. CASE CommitFailure
  <2>1. TypeOK'
    BY <1>0, <1>6, NewWorldType DEF CommitFailure, Done, TrialIs, TypeOK, TerminalTrialStatuses,
       Outcomes
  <2> QED
    BY <1>0, <1>6, <2>1, EndsWithoutRows DEF CommitFailure, Done, TrialIs, Active
<1>7. CASE CommitLost
  <2>1. /\ at' \in {"idle", "abandoned"} /\ world' = NewWorld
        /\ faults' \in 0..MaxFaults
        /\ UNCHANGED <<files, quarantined, attempt, cancelling, stops>>
    BY <1>0, <1>7, ExecutionAssumption DEF CommitLost, Fault, TypeOK
  <2>2. CASE UNCHANGED <<trial, rows>>
    <3>1. TypeOK'
      BY <1>0, <2>1, <2>2, NewWorldType DEF TypeOK
    <3> QED
      BY <2>1, <2>2, <3>1, EndsWithoutRows
  <2>3. CASE at = "committing" /\ Recorded
    <3>1. TypeOK'
      BY <1>0, <1>4, <2>1, <2>3, NewWorldType DEF TypeOK
    <3> QED
      BY <2>1, <2>3, <3>1, RecordedKept
  <2>4. CASE at = "failing" /\ TrialIs("failed", "system_error") /\ UNCHANGED rows
    <3>1. TypeOK'
      BY <1>0, <2>1, <2>4, NewWorldType DEF TrialIs, TypeOK, TerminalTrialStatuses, Outcomes
    <3> QED
      BY <1>0, <2>1, <2>4, <3>1, EndsWithoutRows DEF TrialIs, Active
  <2> QED
    BY <1>7, <2>2, <2>3, <2>4 DEF CommitLost
<1> QED
  BY <1>1, <1>2, <1>3, <1>5, <1>6, <1>7

\* EvidenceInv is inductive.
LEMMA NextKept == EvidenceInv /\ [Next]_vars => EvidenceInv'
<1> SUFFICES ASSUME EvidenceInv, [Next]_vars PROVE EvidenceInv'
  OBVIOUS
<1>1. CASE UNCHANGED vars
  BY <1>1 DEF vars, EvidenceInv, TypeOK, Attempts, OwnFiles, Stages, NoManifestYet, RowsAtEnd,
     ManifestLast, RowsBacked, CompletedEvidence
<1>2. CASE Execute
  BY <1>2, ExecuteKept
<1>3. CASE WriteTrajectory \/ WriteManifest
  BY <1>3, WriteTrajectoryKept, WriteManifestKept
<1>4. CASE \E k \in Kinds : Quarantine(k)
  BY <1>4, QuarantineKept
<1>5. CASE Begin \/ Open \/ RequestCancel \/ Classify \/ Fails
  BY <1>5, QuietKept
<1>6. CASE Interrupt \/ CancelRunning \/ Crash \/ Commit \/ CommitFailure \/ CommitLost
  BY <1>6, EndKept
<1> QED
  BY <1>1, <1>2, <1>3, <1>4, <1>5, <1>6 DEF Next, Progress

-----------------------------------------------------------------------------
(* The theorems.                                                           *)

\* In every reachable state files, rows and memory are as EvidenceInv says, for every
\* policy and any number of crashes, failures and stops (trial_execution.py, worker.py).
THEOREM EvidenceKept == Spec => []EvidenceInv
<1>1. Init => EvidenceInv
  BY InitKept
<1>2. EvidenceInv /\ [Next]_vars => EvidenceInv'
  BY NextKept
<1> QED
  BY <1>1, <1>2, PTL DEF Spec

\* Where there is a manifest, the files that it lists are there and of its attempt
\* (manifests.py finalize, worker.py _quarantine).
THEOREM ManifestIsLast == Spec => []ManifestLast
<1>1. EvidenceInv => ManifestLast
  BY DEF EvidenceInv
<1> QED
  BY <1>1, EvidenceKept, PTL

\* An artifact row always describes the file at its key (worker.py _insert_artifacts).
THEOREM RowsAreBacked == Spec => []RowsBacked
<1>1. EvidenceInv => RowsBacked
  BY DEF EvidenceInv
<1> QED
  BY <1>1, EvidenceKept, PTL

\* A completed trial has a task outcome and all its artifacts, of one attempt
\* (worker.py _commit_success).
THEOREM CompletedHasEvidence == Spec => []CompletedEvidence
<1>1. EvidenceInv => CompletedEvidence
  BY DEF EvidenceInv
<1> QED
  BY <1>1, EvidenceKept, PTL

\* A file once written is moved to quarantine or left alone, never replaced
\* (filesystem.py write, quarantine).
THEOREM FilesWrittenOnce == Spec => WriteOnce
<1> DEFINE Kept == \A k \in Kinds : files[k] # None =>
                     \/ files'[k] = files[k]
                     \/ files'[k] = None /\ <<k, files[k]>> \in quarantined'
<1>1. ASSUME EvidenceInv, [Next]_vars PROVE Kept
  <2>0. TypeOK /\ files \in [Kinds -> Nat]
    BY <1>1 DEF EvidenceInv, TypeOK
  <2>1. ASSUME NEW kinds \in SUBSET Kinds, Stored(kinds), \A k \in kinds : files[k] = None
        PROVE  Kept
    <3>1. \A k \in Kinds : k \notin kinds => files'[k] = files[k]
      BY <2>1 DEF Stored
    <3> QED
      BY <2>1, <3>1
  <2>2. CASE UNCHANGED files
    BY <2>2
  <2>3. CASE Execute
    <3>1. CASE \E kinds \in SUBSET MilestoneKinds : Captured(kinds)
      BY <2>1, <3>1, KindsParts DEF Captured
    <3> QED
      BY <2>0, <2>2, <2>3, <3>1, ExecuteEffect
  <2>4. CASE WriteTrajectory
    <3>1. CASE MissingFrames(world) # {} \/ Clash(world, {"trajectory"})
      BY <2>2, <2>4, <3>1 DEF WriteTrajectory
    <3>2. CASE ~(MissingFrames(world) # {} \/ Clash(world, {"trajectory"}))
      <4>1. Stored({"trajectory"}) /\ files["trajectory"] = None
        BY <2>4, <3>2 DEF WriteTrajectory, Clash
      <4>2. {"trajectory"} \in SUBSET Kinds /\ \A k \in {"trajectory"} : files[k] = None
        BY <4>1, KindsParts
      <4> HIDE DEF Kept
      <4> QED
        BY <2>1, <4>1, <4>2
    <3> QED
      BY <3>1, <3>2
  <2>5. CASE WriteManifest
    <3>1. CASE Clash(world, {"trial_manifest"})
      BY <2>2, <2>5, <3>1 DEF WriteManifest
    <3>2. CASE ~Clash(world, {"trial_manifest"})
      <4>1. Stored({"trial_manifest"}) /\ files["trial_manifest"] = None
        BY <2>5, <3>2 DEF WriteManifest, Clash
      <4>2. {"trial_manifest"} \in SUBSET Kinds /\ \A k \in {"trial_manifest"} : files[k] = None
        BY <4>1, KindsParts
      <4> HIDE DEF Kept
      <4> QED
        BY <2>1, <4>1, <4>2
    <3> QED
      BY <3>1, <3>2
  <2>6. CASE \E k \in Kinds : Quarantine(k)
    BY <2>0, <2>6 DEF Quarantine
  <2> QED
    BY <1>1, <2>2, <2>3, <2>4, <2>5, <2>6 DEF Next, Progress, vars, Begin, Open, CancelRunning,
       Classify, Commit, CommitFailure, Interrupt, RequestCancel, Fails, Crash, CommitLost
<1>2. EvidenceInv /\ [Next]_vars => [Kept]_vars
  BY <1>1
<1> QED
  BY <1>2, EvidenceKept, PTL DEF Spec, WriteOnce

\* An ended trial stays as it ended, because an attempt executes a running one only
\* (worker.py _execute_slots).
THEOREM EndedTrialStays == Spec => EndedStays
<1> DEFINE Stays == trial.status \in TerminalTrialStatuses => trial' = trial
<1>1. ASSUME EvidenceInv, [Next]_vars PROVE Stays
  <2>1. CASE UNCHANGED trial
    BY <2>1
  <2>2. CASE at \in Active
    BY <1>1, <2>2 DEF EvidenceInv, Attempts, TerminalTrialStatuses
  <2>3. CASE Begin
    BY <2>3 DEF Begin
  <2> QED
    BY <1>1, <2>1, <2>2, <2>3, ExecuteEffect DEF Next, Progress, vars, Active, Open, CancelRunning,
       Running, WriteTrajectory, WriteManifest, Classify, Commit, Quarantine, CommitFailure,
       Interrupt, RequestCancel, Fails, Crash, CommitLost, Execute
<1>2. EvidenceInv /\ [Next]_vars => [Stays]_vars
  BY <1>1
<1> QED
  BY <1>2, EvidenceKept, PTL DEF Spec, EndedStays

\* The policies keep to the controller's table (base.py plan, state_machine.py).
THEOREM PlansAreLegal == Spec => []PlansLegal
<1>1. ASSUME NEW w \in WorldType, w.state # "terminal", NEW reachable \in BOOLEAN
      PROVE  <<w.state, Plan(Observation(w, reachable)).next>> \in AllowedTransitions
  <2> DEFINE obs == Observation(w, reachable)
             s == w.state
  <2>1. obs.state = s /\ s \in ControllerStates \ {"terminal"}
    BY <1>1 DEF Observation, WorldType
  <2> HIDE DEF obs, s
  <2>2. <<s, AbortTarget(s)>> \in AllowedTransitions
    <3>1. <<s, "terminal">> \in AllowedTransitions
      BY <2>1 DEF AllowedTransitions, ErrorSources
    <3> QED
      BY <3>1, Zenon DEF AbortTarget
  <2>3. ASSUME MustAbort(obs) PROVE <<s, Plan(obs).next>> \in AllowedTransitions
    BY <2>1, <2>2, <2>3 DEF Plan, Abort
  <2>4. ASSUME ~MustAbort(obs), s = "verify_grasp"
        PROVE  <<s, Plan(obs).next>> \in AllowedTransitions
    <3>1. Plan(obs).next \in {"lift", "approach", AbortTarget("verify_grasp")}
      BY <2>1, <2>4 DEF Plan, VerifyGrasp, Decision, Abort
    <3>2. {<<"verify_grasp", "lift">>, <<"verify_grasp", "approach">>} \subseteq AllowedTransitions
      BY DEF AllowedTransitions, HappyPathTransitions, RegraspTransitions
    <3> QED
      BY <2>2, <2>4, <3>1, <3>2
  <2>5. ASSUME ~MustAbort(obs), s # "verify_grasp"
        PROVE  <<s, Plan(obs).next>> \in AllowedTransitions
    <3>1. Plan(obs).next = Advance[s]
      BY <2>1, <2>5 DEF Plan, Decision
    <3>2. <<s, Advance[s]>> \in HappyPathTransitions
      BY <2>1, <2>5 DEF Advance, HappyPathTransitions, ControllerStates
    <3> QED
      BY <3>1, <3>2 DEF AllowedTransitions
  <2> QED
    BY <2>3, <2>4, <2>5 DEF obs, s
<1>2. EvidenceInv => PlansLegal
  <2> SUFFICES ASSUME EvidenceInv, Running, NEW see \in Sightings, NEW reachable \in BOOLEAN
               PROVE  <<world.state, Plan(Observation(Observed(world, see), reachable)).next>>
                        \in AllowedTransitions
    BY DEF PlansLegal
  <2>1. /\ Observed(world, see) \in WorldType
        /\ Observed(world, see).state = world.state /\ world.state # "terminal"
    BY ObservedType DEF EvidenceInv, TypeOK, Running
  <2> QED
    BY <1>1, <2>1
<1> QED
  BY <1>2, EvidenceKept, PTL

-----------------------------------------------------------------------------
(* Why an attempt fails that no fault befell.                              *)

\* An observation leaves the walk alone.
LEMMA ObservedWalk ==
  ASSUME NEW w \in WorldType, NEW see \in Sightings
  PROVE  /\ Observed(w, see).started = w.started
         /\ Observed(w, see).regrasps = w.regrasps
<1> DEFINE touch  == RunOn(w.touch, see.touch, w.elapsed)
           stable == RunOn(w.stable, see.grip = "hold", w.elapsed)
           held   == w.held \/ Sustained(stable)
           c == w.collided \/ Sustained(touch)
           v == w.verified \/ see.grip # "none"
           l == w.lost \/ (held /\ see.grip # "hold" /\ ~see.inTarget)
<1>1. Observed(w, see) =
        [w EXCEPT !.touch = touch, !.collided = c, !.verified = v, !.stable = stable,
                  !.held = held, !.lost = l, !.inTarget = see.inTarget, !.elapsed = 0]
  BY DEF Observed
<1> HIDE DEF touch, stable, held, c, v, l
<1>2. QED
  BY <1>1, SMTT(30) DEF WorldType

\* So do the commands of a state.
LEMMA ExecutedWalk ==
  ASSUME NEW w \in WorldType, NEW took \in 0..3, NEW rejected \in BOOLEAN
  PROVE  Executed(w, took, rejected).started = w.started
<1> DEFINE c == IF w.state \in Closing THEN TRUE
                ELSE IF w.state \in Opening THEN FALSE ELSE w.closed
           r == w.released \/ w.state \in Opening
           l == IF w.state \notin Timed THEN w.last
                ELSE IF rejected THEN "ik_rejected" ELSE "done"
<1>1. Executed(w, took, rejected)
        = [w EXCEPT !.closed = c, !.released = r, !.last = l, !.elapsed = took]
  BY DEF Executed
<1> HIDE DEF c, r, l
<1>2. QED
  BY <1>1, SMTT(30) DEF WorldType

\* A transition enters the state that is planned, and counts a second approach.
LEMMA MovedWalk ==
  ASSUME NEW w \in WorldType, NEW plan, PlanType(plan, w.regrasps)
  PROVE  /\ Moved(w, plan).state = plan.next
         /\ Moved(w, plan).started = w.started \cup {plan.next}
         /\ Moved(w, plan).regrasps = IF plan.regrasp THEN w.regrasps + 1 ELSE w.regrasps
<1> DEFINE s == plan.next
           st == w.started \cup {plan.next}
           en == IF plan.abort THEN w.ended ELSE w.ended \cup {w.state}
           rg == IF plan.regrasp THEN w.regrasps + 1 ELSE w.regrasps
<1>1. Moved(w, plan)
        = [w EXCEPT !.state = s, !.started = st, !.ended = en, !.regrasps = rg]
  BY DEF Moved
<1> HIDE DEF s, st, en, rg
<1>2. /\ Moved(w, plan).state = s /\ Moved(w, plan).started = st
      /\ Moved(w, plan).regrasps = rg
  BY <1>1, SMTT(30) DEF WorldType
<1>3. QED
  BY <1>2 DEF s, st, rg

\* Where a policy goes: forward, unless it goes back for a second grasp; and whenever it
\* enters a state with a frame it comes from where the frame is taken.
GoesOn(plan, state) ==
  /\ plan.regrasp => plan.next = "approach"
  /\ ~plan.regrasp => Place[state] < Place[plan.next]
  /\ \A k \in MilestoneKinds : TakenOn[k] = plan.next <=> k \in Milestones(state, plan.next)

LEMMA AbortGoesOn ==
  ASSUME NEW state \in ControllerStates \ {"retract", "terminal"}
  PROVE  GoesOn(Abort(state), state)
<1>1. AbortTarget(state) \in {"retract", "terminal"}
  BY DEF AbortTarget
<1>2. PICK target \in {"retract", "terminal"} : target = AbortTarget(state)
  BY <1>1
<1>3. Abort(state).next = target /\ Abort(state).regrasp = FALSE
  BY <1>2 DEF Abort
<1>4. Place[state] < Place[target]
  BY DEF Place, ControllerStates
<1>5. \A k \in MilestoneKinds : TakenOn[k] = target <=> k \in Milestones(state, target)
  BY DEF TakenOn, Milestones, MilestoneKinds
<1>6. QED
  BY <1>3, <1>4, <1>5 DEF GoesOn

LEMMA AdvanceGoesOn ==
  ASSUME NEW state \in ControllerStates \ {"verify_grasp", "terminal"}
  PROVE  GoesOn(Decision(Advance[state]), state)
<1>1. PICK target : target = Advance[state]
  OBVIOUS
<1>2. <<state, target>> \in HappyPathTransitions /\ target \in ControllerStates
  BY <1>1 DEF Advance, HappyPathTransitions, ControllerStates
<1>3. Decision(target).next = target /\ Decision(target).regrasp = FALSE
  BY DEF Decision
<1>4. Place[state] < Place[target]
  BY <1>2 DEF Place, HappyPathTransitions
<1>5. \A k \in MilestoneKinds : TakenOn[k] = target <=> k \in Milestones(state, target)
  BY <1>2 DEF TakenOn, Milestones, MilestoneKinds, HappyPathTransitions
<1>6. QED
  BY <1>1, <1>3, <1>4, <1>5 DEF GoesOn

LEMMA PlanGoesOn ==
  ASSUME NEW w \in WorldType, w.state # "terminal", NEW reachable \in BOOLEAN
  PROVE  GoesOn(Plan(Observation(w, reachable)), w.state)
<1>1. PICK obs : obs = Observation(w, reachable)
  OBVIOUS
<1>2. obs.state = w.state /\ w.state \in ControllerStates \ {"terminal"}
  BY <1>1 DEF Observation, WorldType
<1>3. CASE MustAbort(obs)
  <2>1. w.state # "retract" /\ Plan(obs) = Abort(w.state)
    BY <1>2, <1>3 DEF MustAbort, Plan
  <2>2. QED
    BY <1>1, <1>2, <2>1, AbortGoesOn
<1>4. CASE ~MustAbort(obs) /\ w.state = "verify_grasp"
  <2>1. Plan(obs) = VerifyGrasp(obs)
    BY <1>2, <1>4 DEF Plan
  <2>2. CASE obs.verified
    <3>1. Plan(obs).next = "lift" /\ Plan(obs).regrasp = FALSE
      BY <2>1, <2>2 DEF VerifyGrasp, Decision
    <3>2. Place["verify_grasp"] < Place["lift"]
      BY DEF Place
    <3>3. \A k \in MilestoneKinds :
            TakenOn[k] = "lift" <=> k \in Milestones("verify_grasp", "lift")
      BY DEF TakenOn, Milestones, MilestoneKinds
    <3>4. QED
      BY <1>1, <1>4, <3>1, <3>2, <3>3 DEF GoesOn
  <2>3. CASE ~obs.verified /\ obs.regrasps < RegraspLimit
    <3>1. Plan(obs).next = "approach" /\ Plan(obs).regrasp = TRUE
      BY <2>1, <2>3 DEF VerifyGrasp
    <3>2. \A k \in MilestoneKinds :
            TakenOn[k] = "approach" <=> k \in Milestones("verify_grasp", "approach")
      BY DEF TakenOn, Milestones, MilestoneKinds
    <3>3. QED
      BY <1>1, <1>4, <3>1, <3>2 DEF GoesOn
  <2>4. CASE ~obs.verified /\ ~(obs.regrasps < RegraspLimit)
    <3>1. Plan(obs) = Abort("verify_grasp")
      BY <2>1, <2>4 DEF VerifyGrasp
    <3>2. "verify_grasp" \in ControllerStates \ {"retract", "terminal"}
      BY DEF ControllerStates
    <3>3. QED
      BY <1>1, <1>4, <3>1, <3>2, AbortGoesOn
  <2>5. QED
    BY <2>2, <2>3, <2>4
<1>5. CASE ~MustAbort(obs) /\ w.state # "verify_grasp"
  <2>1. Plan(obs) = Decision(Advance[w.state])
    BY <1>2, <1>5 DEF Plan
  <2>2. QED
    BY <1>1, <1>2, <1>5, <2>1, AdvanceGoesOn
<1>6. QED
  BY <1>3, <1>4, <1>5

\* Why an attempt may fail: the right-hand side of FailureExplained.
Explained ==
  \/ \E k \in Kinds : files[k] \notin {None, attempt}
  \/ world.regrasps = 1
  \/ /\ "terminal" \in world.started
     /\ \E pair \in HappyPathTransitions : pair[2] \notin world.started

\* A frame that clashes is another attempt's, or is taken on a second approach.
LEMMA ClashExplained ==
  ASSUME NEW w \in WorldType, FramesOnTheWay(w), Forward(w),
         \A k \in Kinds : files[k] = attempt => k \in w.written,
         NEW plan, PlanType(plan, w.regrasps), GoesOn(plan, w.state),
         Clash(w, Milestones(w.state, plan.next))
  PROVE  \/ \E k \in Kinds : files[k] \notin {None, attempt}
         \/ Moved(w, plan).regrasps = 1
<1>1. PICK k \in Milestones(w.state, plan.next) : k \in w.written \/ files[k] # None
  BY DEF Clash
<1>2. k \in MilestoneKinds /\ k \in Kinds
  BY KindsParts DEF Milestones
<1>3. CASE files[k] \notin {None, attempt}
  BY <1>2, <1>3
<1>4. CASE k \in w.written
  <2>1. TakenOn[k] = plan.next /\ plan.next \in w.started
    BY <1>1, <1>2, <1>4 DEF GoesOn, FramesOnTheWay
  <2>2. w.state \in ControllerStates /\ plan.next \in ControllerStates /\ w.regrasps \in 0..1
    BY DEF PlanType, WorldType
  <2>3. ~plan.regrasp
    BY <1>2, <2>1 DEF GoesOn, TakenOn, MilestoneKinds
  <2>4. w.regrasps # 0
    <3>1. Place[w.state] \in Nat /\ Place[plan.next] \in Nat
      BY <2>2 DEF Place, ControllerStates
    <3>2. Place[w.state] < Place[plan.next]
      BY <2>3 DEF GoesOn
    <3>3. ~(Place[plan.next] <= Place[w.state])
      BY <3>1, <3>2
    <3>4. QED
      BY <2>1, <3>3 DEF Forward
  <2>5. Moved(w, plan).regrasps = 1
    BY <2>2, <2>3, <2>4, MovedWalk
  <2>6. QED
    BY <2>5
<1>5. QED
  BY <1>1, <1>2, <1>3, <1>4

LEMMA CrossExplained ==
  ASSUME NEW w \in WorldType, FramesOnTheWay(w), Forward(w), attempt' = attempt,
         \A k \in Kinds : files[k] = attempt => k \in w.written,
         NEW plan, PlanType(plan, w.regrasps), GoesOn(plan, w.state),
         Cross(w, plan), at = "executing"
  PROVE  /\ at' = "failing" => Explained'
         /\ OwnListed'
         /\ at' = "executing" => FramesOnTheWay(world') /\ Forward(world')
<1> DEFINE kinds == Milestones(w.state, plan.next)
           mv == Moved(w, plan)
<1>1. /\ mv.state = plan.next /\ mv.started = w.started \cup {plan.next}
      /\ mv.regrasps = IF plan.regrasp THEN w.regrasps + 1 ELSE w.regrasps
      /\ mv.written = w.written /\ mv \in WorldType
  BY MovedWalk, MovedType
<1>2. CASE Clash(w, kinds)
  <2>1. world' = mv /\ at' = "failing" /\ UNCHANGED files
    BY <1>2 DEF Cross
  <2>2. (\E k \in Kinds : files[k] \notin {None, attempt}) \/ mv.regrasps = 1
    BY <1>2, ClashExplained
  <2> HIDE DEF mv, kinds
  <2>3. Explained'
    BY <2>1, <2>2 DEF Explained
  <2>4. QED
    BY <2>1, <2>3 DEF OwnListed
<1>3. CASE ~Clash(w, kinds)
  <2>1. world' = [mv EXCEPT !.written = @ \cup kinds] /\ Stored(kinds) /\ at' = "executing"
    BY <1>3 DEF Cross
  <2>2. kinds \subseteq MilestoneKinds
    BY DEF Milestones
  <2>3. /\ world'.state = plan.next /\ world'.started = w.started \cup {plan.next}
        /\ world'.regrasps = IF plan.regrasp THEN w.regrasps + 1 ELSE w.regrasps
        /\ world'.written = w.written \cup kinds
    <3> HIDE DEF mv, kinds
    <3>1. QED
      BY <1>1, <2>1 DEF WorldType
  <2>4. \A k \in Kinds : files'[k] = IF k \in kinds THEN attempt ELSE files[k]
    BY <2>1 DEF Stored
  <2>5. OwnListed'
    <3> HIDE DEF kinds
    <3>1. QED
      BY <2>3, <2>4 DEF OwnListed
  <2>6. FramesOnTheWay(world')
    <3>1. \A k \in MilestoneKinds : k \in kinds <=> TakenOn[k] = plan.next
      BY DEF GoesOn
    <3> HIDE DEF kinds
    <3>2. QED
      BY <2>3, <3>1 DEF FramesOnTheWay
  <2>7. Forward(world')
    <3> SUFFICES ASSUME world'.regrasps = 0, NEW s \in world'.started
                 PROVE  Place[s] <= Place[world'.state]
      BY DEF Forward
    <3>1. w.regrasps \in 0..1 /\ w.state \in ControllerStates /\ w.started \subseteq ControllerStates
          /\ plan.next \in ControllerStates
      BY DEF WorldType, PlanType
    <3>2. ~plan.regrasp /\ w.regrasps = 0
      BY <2>3, <3>1 DEF PlanType
    <3>3. \A x \in ControllerStates : Place[x] \in Nat
      BY DEF Place, ControllerStates
    <3>4. Place[w.state] < Place[plan.next]
      BY <3>2 DEF GoesOn
    <3>5. CASE s = plan.next
      BY <2>3, <3>1, <3>3, <3>5
    <3>6. CASE s \in w.started
      <4>1. Place[s] <= Place[w.state]
        BY <3>2, <3>6 DEF Forward
      <4>2. Place[s] \in Nat /\ Place[w.state] \in Nat /\ Place[plan.next] \in Nat
        BY <3>1, <3>3, <3>6
      <4>3. Place[s] <= Place[plan.next]
        BY <3>4, <4>1, <4>2
      <4>4. QED
        BY <2>3, <4>3
    <3>7. QED
      BY <2>3, <3>5, <3>6
  <2>8. QED
    BY <2>1, <2>5, <2>6, <2>7
<1>4. QED
  BY <1>2, <1>3

LEMMA ExecuteExplained == EvidenceInv /\ FailureInv /\ Execute => FailureInv'
<1> SUFFICES ASSUME EvidenceInv, FailureInv, Execute PROVE FailureInv'
  OBVIOUS
<1>1. /\ at = "executing" /\ world.state # "terminal" /\ world \in WorldType
      /\ attempt' = attempt
  BY DEF Execute, Running, EvidenceInv, TypeOK
<1>2. PICK see \in Sightings, reachable \in BOOLEAN :
        LET w    == Observed(world, see)
            plan == Plan(Observation(w, reachable))
        IN  \/ Cross(w, plan)
            \/ \E took \in 0..3, rejected \in BOOLEAN : Cross(Executed(w, took, rejected), plan)
  <2>1. \A state : Durations(state) \subseteq 0..3
    BY DEF Durations, SustainedUpdates
  <2>2. QED
    BY <2>1 DEF Execute
<1> DEFINE w    == Observed(world, see)
           plan == Plan(Observation(w, reachable))
           Same(x) == /\ x \in WorldType /\ x.state = world.state /\ x.written = world.written
                      /\ x.started = world.started /\ x.regrasps = world.regrasps
<1>3. Same(w)
  BY <1>1, ObservedType, ObservedWalk
<1>4. PlanType(plan, world.regrasps) /\ GoesOn(plan, world.state)
  BY <1>1, <1>3, PlanTyped, PlanGoesOn
<1> HIDE DEF w, plan
<1>5. ASSUME NEW x, Same(x), Cross(x, plan) PROVE FailureInv'
  <2>1. /\ x \in WorldType /\ FramesOnTheWay(x) /\ Forward(x)
        /\ \A k \in Kinds : files[k] = attempt => k \in x.written
    BY <1>1, <1>5 DEF FailureInv, FramesOnTheWay, Forward, OwnListed
  <2>2. PlanType(plan, x.regrasps) /\ GoesOn(plan, x.state)
    BY <1>4, <1>5
  <2>3. /\ at' = "failing" => Explained'
        /\ OwnListed'
        /\ at' = "executing" => FramesOnTheWay(world') /\ Forward(world')
    BY <1>1, <1>5, <2>1, <2>2, CrossExplained
  <2>4. QED
    BY <2>3 DEF FailureInv, FailureExplained, Explained, FramesOnTheWay, Forward
<1>6. CASE Cross(w, plan)
  BY <1>3, <1>5, <1>6
<1>7. CASE \E took \in 0..3, rejected \in BOOLEAN : Cross(Executed(w, took, rejected), plan)
  <2>1. PICK took \in 0..3, rejected \in BOOLEAN : Cross(Executed(w, took, rejected), plan)
    BY <1>7
  <2>2. Same(Executed(w, took, rejected))
    BY <1>3, ExecutedType, ExecutedWalk
  <2>3. QED
    BY <1>5, <2>1, <2>2
<1>8. QED
  BY <1>2, <1>6, <1>7 DEF w, plan

\* finalize misses a frame only of a state that was not entered, and finds only files of
\* other attempts at its keys.
LEMMA FinalizeExplained ==
  EvidenceInv /\ FailureInv /\ (WriteTrajectory \/ WriteManifest) => FailureInv'
<1> SUFFICES ASSUME EvidenceInv, FailureInv, WriteTrajectory \/ WriteManifest
             PROVE  FailureInv'
  OBVIOUS
<1>1. /\ world \in WorldType /\ files \in [Kinds -> Nat] /\ Stages /\ NoManifestYet
      /\ attempt' = attempt
  BY DEF EvidenceInv, TypeOK, WriteTrajectory, WriteManifest
<1>2. CASE at' = "failing" /\ UNCHANGED <<files, world>>
  <2>1. Explained
    <3>1. CASE WriteTrajectory /\ MissingFrames(world) # {}
      <4>1. at = "executing" /\ world.state = "terminal"
        BY <3>1 DEF WriteTrajectory
      <4>2. PICK k \in MilestoneKinds : k \notin world.written
        BY <3>1 DEF MissingFrames
      <4>3. "terminal" \in world.started /\ TakenOn[k] \notin world.started
        BY <4>1, <4>2 DEF FailureInv, FramesOnTheWay
      <4>4. \E pair \in HappyPathTransitions : pair[2] = TakenOn[k]
        BY DEF TakenOn, MilestoneKinds, HappyPathTransitions
      <4>5. QED
        BY <4>3, <4>4 DEF Explained
    <3>2. CASE WriteTrajectory /\ MissingFrames(world) = {}
      <4>1. at = "executing" /\ Clash(world, {"trajectory"})
        BY <1>2, <3>2 DEF WriteTrajectory
      <4>2. "trajectory" \notin world.written /\ "trajectory" \in Kinds
        BY <1>1, <4>1, KindsParts DEF Stages
      <4>3. files["trajectory"] # None
        BY <4>1, <4>2 DEF Clash
      <4>4. files["trajectory"] # attempt
        BY <4>1, <4>2 DEF FailureInv, OwnListed
      <4>5. QED
        BY <4>2, <4>3, <4>4 DEF Explained
    <3>3. CASE WriteManifest
      <4>1. at = "sealing" /\ Clash(world, {"trial_manifest"})
        BY <1>2, <3>3 DEF WriteManifest
      <4>2. "trial_manifest" \notin world.written /\ "trial_manifest" \in Kinds
        BY <1>1, <4>1, KindsParts DEF Stages
      <4>3. files["trial_manifest"] # None
        BY <4>1, <4>2 DEF Clash
      <4>4. files["trial_manifest"] # attempt
        BY <1>1, <4>1 DEF NoManifestYet, Active
      <4>5. QED
        BY <4>2, <4>3, <4>4 DEF Explained
    <3>4. QED
      BY <3>1, <3>2, <3>3
  <2>2. Explained'
    BY <1>1, <1>2, <2>1 DEF Explained
  <2>3. QED
    BY <1>2, <2>2 DEF FailureInv, FailureExplained, Explained, OwnListed
<1>3. CASE ~(at' = "failing" /\ UNCHANGED <<files, world>>)
  <2>1. CASE WriteTrajectory
    <3>1. /\ Stored({"trajectory"}) /\ at' = "sealing" /\ at = "executing"
          /\ world' = [world EXCEPT !.written = @ \cup {"trajectory"}]
      BY <1>3, <2>1 DEF WriteTrajectory
    <3>2. world'.written = world.written \cup {"trajectory"}
      BY <1>1, <3>1 DEF WorldType
    <3>3. \A k \in Kinds : files'[k] = IF k = "trajectory" THEN attempt ELSE files[k]
      BY <3>1 DEF Stored
    <3>4. OwnListed'
      BY <1>1, <3>1, <3>2, <3>3 DEF FailureInv, OwnListed
    <3>5. QED
      BY <3>1, <3>4 DEF FailureInv, FailureExplained
  <2>2. CASE WriteManifest
    <3>1. at' = "sealed"
      BY <1>3, <2>2 DEF WriteManifest
    <3>2. QED
      BY <3>1 DEF FailureInv, FailureExplained, OwnListed
  <2>3. QED
    BY <2>1, <2>2
<1>4. QED
  BY <1>2, <1>3

\* What is moved to quarantine is the attempt's own, and explains nothing.
LEMMA QuarantineExplained ==
  \A k \in Kinds : EvidenceInv /\ FailureInv /\ Quarantine(k) => FailureInv'
<1> SUFFICES ASSUME NEW k \in Kinds, EvidenceInv, FailureInv, Quarantine(k)
             PROVE  FailureInv'
  OBVIOUS
<1>1. /\ world \in WorldType /\ files \in [Kinds -> Nat] /\ faults \in 0..MaxFaults
      /\ at = "failing" /\ at' = "failing" /\ attempt' = attempt /\ files[k] = attempt
  BY DEF EvidenceInv, TypeOK, Quarantine, Quarantinable, OwnFiles, Active
<1>2. world'.regrasps = world.regrasps /\ world'.started = world.started
  BY <1>1 DEF Quarantine, WorldType
<1>3. \A j \in Kinds \ {k} : files'[j] = files[j]
  BY <1>1 DEF Quarantine
<1>4. faults' = 0 => faults = 0
  BY <1>1, ExecutionAssumption DEF Quarantine, Fault
<1>5. Explained => Explained'
  BY <1>1, <1>2, <1>3 DEF Explained
<1>6. QED
  BY <1>1, <1>4, <1>5 DEF FailureInv, FailureExplained, Explained, OwnListed

\* An attempt begins without a file of its own.
LEMMA BeginExplained == EvidenceInv /\ FailureInv /\ (Begin \/ Open) => FailureInv'
<1> SUFFICES ASSUME EvidenceInv, FailureInv, Begin \/ Open PROVE FailureInv'
  OBVIOUS
<1>1. CASE Begin
  <2>1. at' = "opening" /\ attempt' = attempt + 1 /\ files' = files
    BY <1>1 DEF Begin
  <2>2. \A k \in Kinds : files[k] \in Nat /\ attempt \in Nat /\ files[k] <= attempt
    BY DEF EvidenceInv, TypeOK, Attempts
  <2>3. \A k \in Kinds : files'[k] # attempt'
    BY <2>1, <2>2
  <2>4. QED
    BY <2>1, <2>3 DEF FailureInv, FailureExplained, OwnListed
<1>2. CASE Open
  <2>1. /\ at = "opening" /\ at' = "executing" /\ world' = NewWorld
        /\ UNCHANGED <<files, attempt>>
    BY <1>2 DEF Open
  <2>2. \A k \in Kinds : files'[k] # attempt'
    BY <2>1 DEF EvidenceInv, Stages, FailureInv, OwnListed
  <2>3. /\ NewWorld.state = "reset" /\ NewWorld.started = {"reset"}
        /\ NewWorld.written = {}
    BY DEF NewWorld
  <2>4. FramesOnTheWay(NewWorld)
    BY <2>3 DEF FramesOnTheWay, TakenOn, MilestoneKinds
  <2>5. Forward(NewWorld)
    <3>1. Place["reset"] <= Place["reset"]
      BY DEF Place
    <3>2. QED
      BY <2>3, <3>1 DEF Forward
  <2>6. QED
    BY <2>1, <2>2, <2>4, <2>5 DEF FailureInv, FailureExplained, OwnListed, FramesOnTheWay,
       Forward
<1>3. QED
  BY <1>1, <1>2

LEMMA FailureKept == EvidenceInv /\ FailureInv /\ [Next]_vars => FailureInv'
<1> SUFFICES ASSUME EvidenceInv, FailureInv, [Next]_vars PROVE FailureInv'
  OBVIOUS
<1>1. CASE UNCHANGED <<files, attempt, at, world, faults>>
  BY <1>1 DEF FailureInv, FailureExplained, OwnListed, FramesOnTheWay, Forward
<1>2. CASE at' \notin {"failing", "opening", "executing", "sealing"}
  BY <1>2 DEF FailureInv, FailureExplained, OwnListed
<1>3. CASE Fails
  <2>1. at' = "failing" /\ faults' # 0
    BY <1>3 DEF Fails, Fault, EvidenceInv, TypeOK
  <2>2. QED
    BY <2>1 DEF FailureInv, FailureExplained, OwnListed
<1>4. CASE RequestCancel
  <2>1. at' = IF at = "idle" THEN "abandoned" ELSE at
    BY <1>4 DEF RequestCancel
  <2>2. UNCHANGED <<files, attempt, world, faults>>
    BY <1>4 DEF RequestCancel
  <2>3. QED
    BY <1>1, <1>2, <2>1, <2>2
<1>5. CASE UNCHANGED vars
  BY <1>1, <1>5 DEF vars
<1>6. CASE Interrupt \/ CancelRunning \/ Crash \/ Commit \/ CommitFailure \/ CommitLost \/ Classify
  <2>1. at' \in {"idle", "abandoned", "committing"}
    BY <1>6 DEF Interrupt, CancelRunning, Crash, Commit, CommitFailure, CommitLost, Classify, Done
  <2>2. QED
    BY <1>2, <2>1
<1>7. CASE Execute \/ WriteTrajectory \/ WriteManifest \/ Begin \/ Open
  BY <1>7, ExecuteExplained, FinalizeExplained, BeginExplained
<1>8. CASE \E k \in Kinds : Quarantine(k)
  BY <1>8, QuarantineExplained
<1>9. QED
  BY <1>3, <1>4, <1>5, <1>6, <1>7, <1>8 DEF Next, Progress

\* An attempt that no fault befell fails only for a file that another attempt left behind,
\* for a second approach, whose frame is taken already, or for an abort that skipped a state
\* with a frame (milestones.py, filesystem.py write, policies/base.py): for any policy and
\* any number of attempts, stops and cancellations.
THEOREM FailuresAreExplained == Spec => []FailureExplained
<1>1. Init => FailureInv
  BY DEF Init, FailureInv, FailureExplained, OwnListed
<1>2. EvidenceInv /\ FailureInv /\ [Next]_vars => FailureInv'
  BY FailureKept
<1>3. FailureInv => FailureExplained
  BY DEF FailureInv
<1>4. QED
  BY <1>1, <1>2, <1>3, EvidenceKept, PTL DEF Spec
===============================================================================
