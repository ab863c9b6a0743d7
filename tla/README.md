# Formal model of the robot control platform

This directory holds TLA+ specifications of the robot control platform, the TLC
configurations that check them on small instances and the theorems about them that
TLAPS checks. Everything is translated from the source; line numbers are in
`PROJECT.json` ("map"). Short names used below:

| short | directory |
|---|---|
| `common/` | `packages/py-common/robot_control_platform_common/` |
| `api/` | `apps/api/robot_control_platform_api/` |
| `sim/` | `services/simulator/robot_control_platform_simulator/` |

## 1. The system

Clients create experiments (a scenario set and a list of policy versions) and start
*runs* of them through an HTTP API. Simulator workers poll the table `runs`, claim a run
under a lease, execute one *trial* per policy and scenario in a physics simulation, store
image, trajectory and manifest files, and commit the classified outcome of each trial. The
API and the workers share nothing but PostgreSQL (READ COMMITTED) and the artifact
directory. Each process is asyncio code with at most one database transaction at a time
per request or worker; the simulation runs in worker threads, one call at a time.

### Inventory

| component | source | state it keeps | operations | interacts with |
|---|---|---|---|---|
| run queue | `common/db/repositories/runs.py` | rows of `runs`: status, lease_owner, lease_expires_at, attempt, idempotency key, request fingerprint | create or get queued run, claim, requeue expired, heartbeat, mark running, complete, release, request cancellation | called by worker and API, each in its own transaction |
| experiment status | `common/db/repositories/experiments.py` | `experiments.status` | derive, sync | called in the same transactions, after the run's write |
| worker loop | `sim/worker.py`, `sim/main.py` | the run in hand, heartbeat task, stop and database-lost flags | poll, process a run, heartbeat, stop, release | queue, trials, executor, artifact store |
| trial slots | `sim/worker.py` `_execute_slots`, `common/db/repositories/trials.py`, `events.py`, `artifacts.py` | rows of `trials`, `trial_events`, `artifacts` | create if absent, start, complete, fail, cancel | executor; API reads |
| trial executor | `sim/trial_execution.py` | one connected world: observations, flags, samples | open, execute a controller state, finalize, close | policy, controller, recorder, probe |
| controller | `sim/control/state_machine.py`, `pick_place.py` | state, event log | transition | executor, policies |
| policies | `sim/policies/` | none (pure plans), allow-list registry | plan for one state | executor |
| actions | `sim/control/actions.py`, `reliability.py` | the simulation's clock | move, gripper, hold, settle, each with a time-out | physics client |
| outcome classifier | `sim/control/outcomes.py` | none | classify the evidence of a trial | executor |
| recorder | `sim/recording/` | milestone frames taken, trajectory samples | on transition, finalize | artifact store, camera |
| artifact store | `common/artifacts/` | files under the root, quarantine directory | write, open, verify, quarantine, list, reconcile | executor, API |
| collision monitor | `sim/physics/contacts.py` | whether a collision was detected | observe contacts | executor |
| physics | `sim/physics/client.py`, `robot.py`, `scene.py`, `camera.py` | PyBullet's world | connect, step, drive, capture | executor |
| scenario generator | `sim/scenarios/` | a seeded generator | generate, serialize, checksum | API loads scenario sets |
| domain values | `sim/domain/` | none | validated values and events | simulator |
| annotations | `common/db/repositories/annotations.py`, `api/services/annotations.py` | rows with a revision | create, update with expected revision | API |
| API runs | `api/services/runs.py`, `api/routes/runs.py`, `api/dependencies.py` | one transaction per request | start, cancel, get, list | queue |
| API resources | `api/services/`, `api/routes/`, `api/schemas/` | one transaction per request | create and read experiments, policies, scenario sets, trials, artifacts | repositories |
| API frame | `api/main.py`, `errors.py`, `middleware.py`, `pagination.py` | none | error mapping, request ids, keyset cursors, health | all endpoints |
| ids, time, config, logging | `common/` | last UUIDv7 time and counter | new_id, utc_now, settings | everywhere |
| migrations, web shell, compose files | `db/`, `apps/web/`, `*.yml` | schema, none | | |

### What is hard here, and what makes each part correct

* **Queue.** Many sessions on the same rows, some with `FOR UPDATE`, some with an unlocked
  read followed by an UPDATE by id; leases that expire under slow workers; crashes at any
  point. Correct means: one worker per run, ended runs stay as they ended, every run ends,
  attempts are bounded, a repeated request creates nothing new.
* **Experiment status.** A cached aggregate of rows that other transactions change.
  Correct means: once everything is at rest it is what the runs call for.
* **Trials.** Executed by one run after another, and again after an interruption, with
  side effects in a file store that the database does not control. Correct means: a
  completed trial has all its evidence, and an interruption costs nothing but time.
* **Executor, controller, policies, recorder.** Five tables that must agree: legal
  transitions, abort sources, milestone frames, the outcome precedence. Correct means:
  every trial terminates, and is classified as its documentation says.
* **Artifact store.** Exists-check, temporary file, rename, checksum, quarantine: other
  writers and crashes in between. Correct means: a key never changes its bytes, nothing
  half-written is visible, reconciliation reports exactly the differences.
* **Judgement.** One sample per state has to prove grasp, loss, settlement and collision.
  Correct means: what is concluded is what the samples show.
* **Workcell.** One connection, scene and controller are reused after trials that broke off
  anywhere. Correct means: the next trial finds a new cell, every joint is driven, nothing
  counts that was not done.
* **Inputs.** Scenarios and configurations are stored as JSON in several spellings, which the
  API does not check. Correct means: what runs is what was posted, or nothing.
* **API.** Keyset pages with rows inserted in between, optimistic revisions, idempotency,
  responses that precede their commit.

`PROJECT.json` lists each hazard at its line with the properties that cover it.

## 2. Plan

The order was that of importance: the queue (`RunRows`, `RunQueue`, `RunLease`), one trial
(`Controller`, `TrialExecution`), several trials under several runs (`TrialSlots`), the files
(`ArtifactStore`, `WriteOnceStore`), the judgement (`Contacts`, `Outcomes`, `PolicyCommands`,
`TrialWorld`), the workcell (`Workcell`, `PickPlace`), and what goes in and comes out of all
this (`Generator`, `TrialInputs`, `Catalogue`, `Review`). All of these are written and checked.

Every invariant and every action property of a passing run is stated by a theorem; what is left
is liveness, out of reach of the provers (section 5).

## 3. Modules

| module | models |
|---|---|
| `RunRows` | a row of `runs` and what each function of `runs.py` makes of it; `derive_experiment_status` |
| `RunQueue` | the sessions of workers and API requests on those rows, faults, properties |
| `RunLease` | the abstract lease: a run waits, is held, waits again or has ended |
| `RunQueueLease` | `RunQueue` with its refinement mapping to `RunLease` |
| `RunQueueInvariant` | its inductive invariants |
| `RunQueueProofs` | types; the invariant that relates rows, transactions and workers; leases exclude each other |
| `RunQueueGuarantees` | the action properties that follow, the refinement of `RunLease`, one run per Idempotency-Key, the experiment's status when it is started once |
| `Controller` | the tables of the controller, the policies and the milestone frames |
| `TrialExecution` | one trial, attempt after attempt, with its rows and files; properties |
| `TrialExecutionInvariant`, `TrialExecutionProofs` | its inductive invariant, and the theorems about it |
| `TrialSlots` | the trial rows of an experiment under several runs, with the budget, events and artifact rows |
| `TrialSlotsInvariant`, `TrialSlotsProofs` | its inductive invariant, and the theorems about it |
| `WriteOnceStore` | what the artifact store promises |
| `ArtifactStore` | the store as steps on files, with writers, readers and a reconciliation |
| `ArtifactStoreProofs` | its inductive invariant, and the theorems about it |
| `Contacts` | contact points, prohibited pairs and their durations (operators) |
| `Outcomes` | the classifier of outcomes (operators) |
| `PolicyCommands` | the commands of a policy in each state, and the assessed waypoints (operators) |
| `TrialWorld` | one attempt in memory: observe, decide, command, move on, judge |
| `TrialWorldProofs` | lemmas on the operators of `Contacts` and `Outcomes`, its inductive invariants and the theorems about it |
| `Workcell` | the engine, the scene, the robot's joints and the motion controller (operators) |
| `PickPlace` | the reliability gate, update by update |
| `PickPlaceProofs` | lemmas on the operators of `Workcell`, its inductive invariant and the theorems about it |
| `Generator` | where a drawn object may stand (operators) |
| `TrialInputs` | what an executor makes of stored scenarios and configurations (operators) |
| `Catalogue` | scenario sets, experiments and the creation of their trials with UUIDv7 ids |
| `Review` | `Catalogue` with a listing and annotations; properties of both |
| `ReviewProofs` | lemmas on `Generator`, `TrialInputs` and `Catalogue`, the inductive invariants of `Review` and the theorems about it |
| `MC...` | symmetry, instances and restricted behaviours for TLC |

### RunQueue

State: `runs` and `exps` are the committed rows; `tx[s]` is the open transaction of a
session (the row it has read, the rows it has flushed and so locked); `pc[w]` and `held[w]`
are a worker's place in `run()` / `_process_run()` and its run; `req[q]` an API request and
the answer its client has; `failedTrials` whether an experiment has a failed trial.

A transaction is read, flush, commit, with any other session between them. This is the grain
at which PostgreSQL's READ COMMITTED and SQLAlchemy's flush make a difference: `FOR UPDATE`
functions read and lock in one step (`ClaimOldest`, `FlushCancel`), the others decide on
what they read before (`ReadToStart`/`FlushStart`, `ReadToComplete`/`FlushComplete`,
`ReadToRelease`/`FlushRelease`). `release_owned_lease` takes `FOR UPDATE`, but the row is in
the session's identity map already and is not refreshed, so its decision is on the first read.

Abstractions: time is only whether a lease has expired; the flush of a row and the
experiment's sync after it are one step; waiting for a lock is a guard; a crash releases
locks at once; which trial failed is left out (`failedTrials` only ever becomes true); idle
back-off, `max_runs`, `stop_when_idle` and the liveness file are left out. An API answer may
go out before the commit (`Respond`), which FastAPI's generator dependencies allow.

### TrialExecution

State: `trial` and `rows` are the committed rows in `trials` and `artifacts`; `files` says
which attempt wrote the file at each of the trial's seven keys (the keys do not name the
attempt); `quarantined` what was moved away; `at` where the worker is; `world` what
`_PhysicsTrialWorld` and its recorder hold in memory.

| action | code |
|---|---|
| `Begin`, `Open` | `_execute_slots` up to `executor.execute`, `world.open` |
| `Execute` | `execute_current_state`: observe, plan, commands, transition, frame |
| `Interrupt`, `CancelRunning`, `RequestCancel` | the probe's answers and what the worker does about them |
| `WriteTrajectory`, `WriteManifest`, `Classify` | `finalize` |
| `Commit` | `_commit_success`, or `_fail_trial` with artifacts |
| `Quarantine(k)`, `CommitFailure` | `_quarantine`, one file at a time, then `_fail_trial` |
| `Fails`, `Crash`, `CommitLost` | a `SimulationError` or `OSError`; the process dies; the database is lost at a commit |

Physics is free: an observation finds any contact, hold, place of the object and prohibited
touch, a timed command takes one control update or at least three, and a move may be
rejected by the inverse kinematics. The thresholds of 0.05 s (collision, stable grasp) are
three updates of 1/60 s; durations are capped there, since nothing compares them with more.
The pairs of the collision monitor are one pair. Whether the object has settled is a free
choice at `Classify`. Poses, bytes, checksums, event rows and the trajectory samples are left
out. At most one attempt runs at a time, which
`RunQueue` shows as `Exclusive` under `Timely`.
A run that was to be cancelled is never claimed again, so the trial is then `abandoned`.

`TrialExecution` and the modules below look at the same trial from different sides.
`TrialExecution` keeps what the surroundings see of an attempt: files, rows, faults.
`TrialWorld` keeps what is inside: clock, samples, log. `TrialSlots` keeps of an attempt only
who wrote which rows, and `ArtifactStore` takes the steps of `write` apart, which the others
take as one.

### TrialSlots

State: `run[r]` and `attempt[r]` of each run row; where its worker is (`at`, `slot`,
`failedCount`, `work`); what the worker's open transaction has read (`seen`); the rows
`trials`, `events`, `artifacts`, and whose `files` are stored.

| action | code in `worker.py` |
|---|---|
| `Submit`, `RequestCancel`, `Claim`, `Reclaim`, `Start` | the run's life, as `RunLease` promises it |
| `Ensure`, `CountFailed`, `Skip`, `Take`, `Decide` | `_ensure_trials`, `_failed_trial_count`, the loop of `_execute_slots` |
| `SeeCancelled`, `Store`, `Fail`, `Return`, `Stop` | what the executor comes back with |
| `Read`, then `CommitMark`, `CommitSuccess`, `CommitFailure`, `CommitCancelledTrial`, `CommitCancelOpen`, `Complete`, `Release` | the transactions, each as its reads and then its writes |
| `DatabaseFails`, `Crash` | a failed or refused transaction; the process dies |

A transaction writes the columns that differ from what it has read (`Updated`), as
SQLAlchemy does, and the CHECK constraints of the table judge the row that results
(`Checked`). `overlapped` records that two runs of the experiment were in hand at once, which
nothing in the code prevents; most promises hold as long as they take turns, and
`RecordedNeverReopens` says what the constraints save when they do not.

### ArtifactStore

State: the files at the keys, in quarantine and in temporary siblings; the artifact rows; the
place of each writer, reader and of one reconciliation.

| action | code |
|---|---|
| `Test`, `OpenTemp`, `FillTemp`, `Rename`, `WriteFails` | `write` |
| `Commit` | `create_artifact_if_absent` and its commit |
| `Withdraw`, `Move`, `GiveReason` | `quarantine` |
| `Request`, `Verify`, `Serve` | `get_artifact_content`: row, `verify`, open and read |
| `Reconcile`, `ReconcileRow`, `ReconcileListing` | `reconcile_artifacts` |
| `Crash`, `Damage` | a writer dies anywhere; the disk damages a file |

Seen from outside this is a `WriteOnceStore`, as long as no two writers are between test and
rename of one key (`raced`) and the disk is sound.

### TrialWorld

State: the scene, the policy and `world`, the record that `_PhysicsTrialWorld` and its monitor,
log and recorder keep. `Execute` is `execute_current_state`, `Finalize` is the recorder's
`finalize` and `classify_outcome`. Physics is an input: the sights of an observation (with where
the object stands), the updates and last status of a state's commands, and the waypoints that
are out of reach. A pose is a waypoint: its kind (over what, at which height, which of the
staged ones) and the position of the object that it is computed from, since
`planned_object_position` reads the pose of each observation anew (`base.py:752`) unless the
policy is the fixed one. `reach` is the assessment that PLAN makes, once; `sent` is history for
the properties, the waypoints commanded so far. Time
is counted in updates of 1/60 s, so that 0.05 s are three and 0.10 s six. A comparison of
durations that the floats may decide either way at equality is a choice (`Detections`).

### PickPlace

State: `cell` (connection, bodies, names, motors), `ctl` (what the motion controller
remembers), the robot of the asset, the command in hand and its updates, the counts.
`Connect`, `Pick` / `NoPick`, `Report` and `Die` are `evaluate_reliability_gate` and
`run_centered_cube_pick_place`; `Update`, `Reject`, `TimeUp` and `Raise` are one turn of the
loops in `actions.py`. Each update writes the motors by way of `solve_inverse_kinematics`,
`apply_wrist_yaw`, `command_arm_positions` and `command_gripper`, on joints by name and place
in the asset's order; a joint's position is its share of a named target, not an angle.

### Catalogue and Review

`Catalogue`: `DrawObject` and `DrawPlace` are the generator, with the random generator free;
`PostScenarioSet` and `PostExperiment` the API; `Begin`, `Insert`, `Commit` and `Rollback`
are `_ensure_trials`, one `INSERT ... ON CONFLICT DO NOTHING` after the other, where an
insertion waits for another open transaction that has inserted the same trial. Each insertion
draws an id from the worker's own clock and counter (`new_id`).

`Review` adds a listing (`StartListing`, `NextPage`), and annotations: `CreateAnnotation` and
`UpdateAnnotation` up to the response, `CommitAnnotation` or `FailToCommit` after it, and
`Look`.

`TrialInputs` has no state: from a drawn scenario it enumerates the rows that tell of it, and
says what `_scenario_from_context`, `_pose_from_storage`, `_spawn_parcel`,
`resolve_policy_config` and `create_policy` make of a row. JSON objects are records.

## 4. Runs

| run | question | result |
|---|---|---|
| `run_queue_leases` | two workers, two requests, two runs, a crash, a stop: is a lease held by one worker, do ended runs stay, is the queue a `RunLease`? | pass |
| `run_queue_recovery` | do runs end and expired leases disappear, through two crashes, a stop and restarts, while nobody cancels? is an experiment's status stale only after attempts were used up? | pass |
| `run_queue_cancel` | do runs end, and does the experiment follow, with two cancellations, failed trials and a stop? is a cancellation overwritten only by a worker that has not seen it? | pass |
| `run_queue_dead_cancel` | is the lease of a worker that dies while its run is cancelling collected? | violated |
| `trial_evidence` | do manifest, files, rows and status agree through a fault, a stop and a cancellation; what can make an attempt fail without a fault? | pass |
| `trial_ends` | does every trial end, with re-grasps, aborts and an interruption? | pass |
| `trial_slots` | two runs on the same two trials, taking turns or at once: whose evidence is it, what stays, are the runs' ends true, what is stranded? | pass |
| `artifact_store` | three attempts on two keys, a download and a reconciliation at once: is the store write-once, are readers served what they verified, is the report right? | pass |
| `trial_outcome` | three policies under four kinds of physics: do the monitor and the classifier conclude what the samples show, is success earned, is the pickup assessed? | pass |
| `trial_drop` | is a verified grasp that is lost reported as dropped? | violated |
| `motion_gate` | two trials in one cell, by nine robots: what is driven, what counts, does each find a new cell? | pass |
| `trial_review` | two workers create trials while a client lists them and two reviewers annotate one; what do executors make of the stored inputs? | pass |

**Bounds.**

* *Queue.* Two workers are what any race between holders of a lease needs; two runs let a
  claim collect one while taking another; two requests let the same key race. `MaxAttempts` is
  2 (3 in production; 1 in the violation run), so the limit is reached after two crashes. One
  crash and one stop meet every step of the protocol, since each may happen at any point;
  `run_queue_recovery` allows two crashes, so that the recovering worker dies as well.
* *One trial.* One fault and one stop give three attempts over each other's files, and every
  kind of ending can follow every other; the proofs cover any number of either.
* *Slots.* Two trials make a budget of two reachable and leave one open when the other ends;
  two runs overlap or take turns; one mishap may meet every step.
* *Store.* Three writers on one key: one that stored, and two that race over its withdrawal.
* *Judgement.* A trial has at most 16 samples, all of which occur; the four scenes let grips,
  places, touches of two bodies, and rejected moves vary one at a time, since their product is
  out of reach. With rejected moves go a waypoint out of reach, an object that is bumped to
  another position between two states, and a first grasp that misses. The durations between samples lie on both sides of every threshold.
* *Gate.* Two trials show what one leaves to the next. A move may take two updates, the other
  primitives one; robots differ in the order of joints, in a joint that is missing, fixed,
  unlimited, unknown or twice there.
* *Review.* Two scenarios, one policy and two experiments make up to four trials, on up to
  four pages; two clock readings with a counter of one wrap and go back; three revisions let
  each of two reviewers be overtaken. The geometry has exact angles (0, 90 and about 37
  degrees) and positions that touch the region's and the bins' edges.

**Symmetry.** Workers and bodies of requests in the queue, runs in `trial_slots`, writers and
keys in `artifact_store`, workers, reviewers and experiments in `trial_review`: no definition
distinguishes them. No run with a liveness property uses symmetry.

**Restrictions.** `run_queue_recovery` excludes cancellations and `run_queue_cancel` excludes
crashes because both together break liveness (`run_queue_dead_cancel`). Both have one start
request: a second run of the experiment, or a repeated start that syncs with a status it
loaded earlier, can leave the experiment's status stale, by the unlocked read in
`sync_experiment_status` that lets two ending runs miss each other. `Timely` (no lease
expires under the worker that holds it) stands for heartbeats of 10 s against a lease of
30 s; with `Timely = FALSE` instead, `TerminalStable` is violated, because `complete_run`
(`runs.py:367`) and its siblings check neither owner nor a locked status.

**Deadlock.** The runs of single trials, slots, the store, the gate and the review switch the
check off: trials, runs, writers, gates and listings end, and nothing is asked for then.

**Fairness.** Weak fairness of each worker's own next step (`Progress(w)`): the loop of
`run()` polls for ever, and an open transaction goes on to its commit. Weak fairness of
`Restart(w)`: a process manager restarts a dead worker; the compose file has no restart
policy, so this is an assumption about the deployment. Weak fairness of `Answer(q)`: a request
that is being handled is answered. Weak fairness of `LeaseExpires(r)`: time passes. Nothing
obliges a client to send anything, and no fault is fair. In `TrialExecution`, weak fairness of
`Progress` combines the executor's loop with a worker coming back to the trial, which
`run_queue_recovery` shows while the run's attempts last; the bounds on faults and stops keep
the number of attempts below the production limit of three. The other
specifications state no fairness, and no run asks them for liveness.

### Findings

1. A run that is cancelling when its worker dies is never collected: `requeue_expired_leases`
   selects claimed and running rows only (`runs.py:187`). Run `run_queue_dead_cancel`.
2. An object that slips out of the closed gripper is never reported as dropped: the open
   command of APPROACH has set `_released` already (`trial_execution.py:493`). Run `trial_drop`.

Other behaviour that the models show, and a reader of the properties will want to know:

* *Queue.* A cancellation that commits between the worker's unlocked read and its UPDATE to
  `running` is overwritten (`runs.py:343`; `RevivedUnseen` says that only such a worker does
  it). A run that fails for want of attempts leaves its experiment `running`, as `_claim_run`
  syncs only the experiment of the run it claims (`worker.py:371`; `StaleOnlyExhausted`).
* *One trial.* Without any fault an attempt still fails for three reasons (`FailureExplained`): frames of an interrupted attempt are at their keys (`filesystem.py:82`);
  a re-grasp takes `pre_grasp_rgb` again (`milestones.py:102`); an abort skips frames that the
  recorder requires (`manifests.py:189`), so that a collision which the collision-aware policy
  sees before RELEASE ends as a system error.
* *Judgement.* A placed object is judged `evaluation_unavailable` unless a sample lies exactly
  six updates before the last one. An abort at RELEASE is judged with the object still in the
  gripper. TIMEOUT events are never recorded. The executor believes the gripper open at the
  start, the controller closed.
* *Reachability.* It is assessed once, in PLAN (`trial_execution.py:599`). A policy that follows
  the object computes its poses from where it sees the object then, so that a bump, a failed
  grasp or a lift leads to poses that nobody has assessed; a re-grasp does not assess again.
  `PickupAssessed` therefore speaks only of poses computed from a position that PLAN assessed.
  At TRANSFER the pose of the place takes its height from the object, which is lifted, and so
  is hardly ever the assessed one. The poses on the way to the bin, above it, and of RETRACT are
  not assessed at all. The policies see the status of a state's last command only: a rejected
  move in GRASP is hidden by the close and the hold after it.
* *Slots.* Runs of one experiment may overlap, which nothing in the code prevents; then events of two
  attempts mix and a completed trial may be written again.
* *Review.* When the commit after a response fails, the revision it announced is given out
  again, and a reviewer may overwrite a note that only looks like the one they were told of
  (`hollow`). Ids stop increasing at the end of the 48-bit time.
* *Inputs.* `target_bin_pose` is not compared with the bin called `target_bin`: policies carry
  to the one, the classifier judges by the other. The stored scenario checksum is not compared
  with the scenario. A pose without `schema_version` is read as a world pose whatever its
  frame. The test of a box against the bins uses the bounding box of the turned object, and so
  refuses more than overlaps.
* *Gate.* `connect` leaks the engine's connection when the asset root is not found
  (`client.py:208-221`).

## 5. Proofs

`RunQueueProofs.TypeCorrect`: for any number of workers, requests, runs and experiments, with
or without `Timely`. `TypeOK` is not inductive: that a commit writes a row of the right type
needs what the flush before it established. `WellFormed` adds that a request carries its
arguments (`AskedFor`), the order of the steps of a transaction (`TxShape`), that a write is a
row (`WritesExist`), and that a busy worker has a run (`HasRun`). One lemma per action.

`RunQueueProofs.QueueInvariant`: `IInv` is inductive. `Exclusive` alone is not: that a
claim takes no run that somebody holds needs to know what every open transaction has flushed.
`IInv` says that one session locks a row (`OneLock`), that a flushed row is what its operation
makes of the committed one, which nobody else can have changed since (`WritesApply`), what a
worker loaded before (`SeenRow`), that a worker which has a run owns its row under a live
lease, or has completed it without learning so (`Holds`), and that owner and expiry go with
the status (`LeaseColumns`). The part beyond the types is claimed under `Timely` only: when a
lease expires under a live worker it is false, and so are the properties (section 4).
`LeasesExclude`, `HoldersOwn` and `LeasesHaveColumns` follow from it.

`RunQueueGuarantees` classifies a step by what it may do to one row: nothing, or what one
operation makes of it when its session commits. `EndedStaysEnded`, `LimitIsKept` and
`RevivedOnlyUnseen` look at these few cases instead of at the actions. `LeasesImplemented` is
the refinement: a commit that changes a row is the step of `RunLease` of its operation, a
crash or an expiry is that of the lease's holder, and everything else stutters. All of them
have `Timely` as a hypothesis, which is a constant and true in production as long as
heartbeats, 10 s apart, come within the 30 s of a lease.

`RunQueueGuarantees.StartIsIdempotent` needs no `Timely`, and another invariant, `Keyed`:
every version of a row, committed or in flight, carries one experiment, key and fingerprint
(`OneName`), no two rows the same experiment and key (`OneKey`), and a request has found or
inserted the run that it asks for, or was answered with one that was rolled back (`OwnAnswer`).

`RunQueueGuarantees.StaleOnlyWhenExhausted` and `SettlesWithItsRun` are about the status of an
experiment, and theorems of `OneStartSafe`: the behaviours of `Spec` in which at most one
request starts a run of each experiment, of any number of experiments. Without that
restriction both properties are false: a repeated start may sync the experiment with what it
read before the run's end was committed, and two transactions that end the last two runs may
each derive the status without the other (section 4). Their invariant is
`Settling`. A row comes from a request that will insert no other (`Begun`), so an experiment
has one run (`OneRun`), in the table or in flight, and its status derives from that run alone.
Whoever ends a run syncs its experiment in the same transaction (`Fresh`), so that row and
status become visible together; the exception is a run that a claim fails for want of attempts
(`Exhausted`). That a worker which completes or releases a run does write its row (`Written`)
needs `Timely`. The second theorem supposes `MaxCrashes = 0` besides: without crashes the owner
of a row has the run in hand and no lease expires (`Handed`), so no claim fails a run.

`TrialExecutionProofs.EvidenceKept`: `EvidenceInv` is inductive for every policy and any number
of faults and stops. `ManifestLast` alone is not: a failing attempt moves files away, and
that these are never the files that a manifest lists needs `OwnFiles` (what the attempt has in
memory as written is at its keys and its own) and `NoManifestYet` (there is no manifest of an
attempt that can still fail). `CompletedEvidence` and `RowsBacked` need `Stages` (how far
finalization has come shows in what is written) and `RowsAtEnd` (rows come with the end). The
central step is that a write is refused where a file is, so an attempt that writes anything
finds no manifest. `ManifestIsLast`, `RowsAreBacked`, `CompletedHasEvidence` follow;
`FilesWrittenOnce` and `EndedTrialStays` are action properties from the same invariant;
`PlansAreLegal` compares the policies' plans with the controller's table.
`FailuresAreExplained` needs to know where an attempt has been: `FailureInv` says that a frame
is written exactly when its state was entered (`FramesOnTheWay`), that without a re-grasp the
attempt has only gone forward (`Forward`), and that the attempt's files are those it lists
(`OwnListed`).

`TrialSlotsProofs`: `SlotRowsTypeCorrect` and `RecordedForGood` hold however runs overlap; the
second follows from the CHECK constraints that every row and every row in a session's memory
satisfies. `SlotsInvariant`: `SlotsInv` is inductive. As long as no two runs were in hand at
once, what an open transaction has read is what is there (`ReadIsCurrent`), the worker's list
and counter are right (`ListKept`, `Counted`), a result stands for stored files (`Backed`) and
what is recorded of a trial is of the attempt that ended it (`Evidence`).
`EvidenceIsOneAttempts`, `EndsAreTrue` and `WorkersStrandNothing` follow.

`PickPlaceProofs.GateInvariant`: `GateInv` says that a moving trial has a valid layout and a
scene as new, that the controller's arm is at one pose, and that every command behind it
succeeded which has to. Under it are lemmas on the operators: a reset puts every name at the id
of its body (`ResetCell`), the joints that a valid layout controls are those that move
(`AllControlled`), the solver's answer is dealt to the joint it is for (`TargetsDealt`), which
rests on the place of a joint in the order of indices being its own (`RanksIncrease`).
`ScenesAreFresh`, `JointsAreHeld` and `CountsAreEarned` follow, for any asset.

`TrialWorldProofs` has three invariants, each of any number of samples and any bodies, links
and physics. `MonitorInv` says what a tracker of the collision monitor means: it is there for
the pairs that the last sample presses, and holds the time of the first of the latest samples
that all press the pair (`Timed`), and what has been reported is what was pressed for longer
(`Reported`); `CollisionMeansSustained` is silent about trackers, so it is not inductive.
`PickupInv` says that from APPROACH to TRANSFER PLAN has assessed the waypoints for one position of the
object, all in reach if the policy is the collision-aware one (`LookedAhead`), and that every
waypoint of the pickup or the place that was commanded is one that an assessment for a position
where the policy plans the object would cover. The two positions need not be the same; where
they are, `SamePosition` makes the commanded waypoint an assessed one, and the fixed policy has
only one position. `PickupAssessed` speaks of what was commanded and not of what will be, so it
is not inductive. `WayInv`
ties the frame that RELEASE requires, the event log, the samples and the controller's state
together: without it, a classifier that reads flags from the log and a controller that moves
by the table have nothing to do with each other. `CollisionsAreSustained`,
`PickupsAreAssessed` and `SuccessesAreEarned` follow. `GraspsAreHeld` and `SettlementsAreExact`
are about what the classifier computes from any sequence of samples whose times do not
decrease, and need of the state no more than that.

`SuccessesAreEarned` rests on `PickupAssumption`: at TRANSFER, which is observed before the
arm's first move, the object is not over the target bin. The generator places objects clear of
the bins (`PlacementsAreClear`). Where it fails, the proof does: after a rejected move in
TRANSFER and an abort at RELEASE the classifier may find the object settled in its bin with
the gripper still closed.

`ReviewProofs` has three as well. `CatalogueInv`: nobody's open transaction has a trial or an
id of anybody else's (`Apart`); a transaction has found or inserted a prefix of the
experiment's trials, in order, with ids that increase up to the worker's clock (`Creating`);
what is committed is whole (`Whole`). `AllOrNoTrials` alone is not inductive, since a commit
completes an experiment only together with what it found to exist. `AnnotationInv`: one
pending write of a trial at most (`OneWriter`), made from the row's note or from a hollow
view (`WriteOf`), and a view of the row's revision is of the row's note (`ViewOf`), so that
the test of revisions is one of notes. `ListingInv`: what a listing has shown is all that was
due and passes its filter up to the cursor (`ShownSoFar`), which rests on a page being the
first of the ids beyond the cursor (lemmas on `Ascending` and `PageOf`), and on an annotation
never being taken away (`DueTyped`). `TrialsAreWhole`, `IdsInOrder`, `OverwritesWhatWasSeen`
and `ListingMissesNothing` follow. `PlacementsAreClear`, `ConfigsAreAsStored` and
`ScenariosRunAsPosted` are facts about operators, for geometry, configurations and rows of any
size: a turned box lies within the box of its corners, what the checksum digests is what was
stored, and each spelling of a row reads the same.

`ArtifactStoreProofs.StoreInvariant`: `Inv` is inductive for any writers, keys and readers and
any interleaving of their steps on files. `NothingLost` alone is not: that `os.replace` covers
nobody's bytes needs `OneWriting` (a key with a writer between test and rename has no file and
no second such writer, or `raced`), and that a quarantine takes nobody else's needs
`StoredStands` (what is stored, and neither committed nor moved, is at its key) and
`RowsOfDone` (a row is of a writer that will move nothing any more). `RowsDescribe`,
`NothingIsLost` and `ReadersServed` follow; the last needs `ReaderHasRow` too, as rows never
change. `ReportInv` says what a reconciliation has found so far about keys that nobody has
touched, without any condition on the writers; `ReportRight` follows. `StoreRefines` maps the
directory to `WriteOnceStore`: `Rename` is `Put`, `Move` is `Quarantine`, a step that breaks
the conditions loses the store its `trusted`, and all others stutter.

The proofs changed how the models say things, and nothing that they do. Overlapping arms of a
CASE, of which TLC takes the first and a proof may take none, are IF chains now (`StateOf`,
`DeriveExperimentStatus`, `Classified`). `TypeOK` of `TrialSlots` says that rows in a session's memory satisfy the
constraints too. The order of joints (`InOrder`) is by rank instead of by a recursive selection,
about which nothing can be proved here. For the same reason the search for a verified grasp
is a recursive function of the number of samples (`GraspRun`) instead of a fold, and what
selects samples or trials from a sequence does so by the set of their indices (`SettleSamples`,
`ShutBy`, `TrialsOf`). Maps are joined by `Joined`, a page is taken from the ascending
sequence of what it may hold (`Ascending`, `Found`), and records with several changes are
written out.

Induction over data: the library's induction theorems take an operator as a parameter, which
the provers cannot instantiate. What is needed of it is proved by the least counterexample
instead: a set of naturals has a least element (`LeastNatural`, from `WFMin` over intervals,
of which no step has an operator for a parameter), hence the first sample of a run, and
`GraspRun` is what its recursion says. That a set of ids has an ascending enumeration needs
ranks only (`ReviewProofs`).

Assumptions: those on the constants, named in the modules that declare them, and evaluated by
TLC in every run; `Timely` where it is said. Beyond types and finiteness they say:

* `GeometryAssumption` (`Generator`): boxes and positions are integers and a yaw is an exact
  rotation, a Pythagorean triple. The code has floats, whose rounding is not modelled.
* `GrainAssumption` (`TrialInputs`): a canonical float is rounded to an odd number of the
  model's units, so that no value lies half way.
* `ConfigsAssumption`, `DrawnAssumption` (`TrialInputs`): what `PolicyConfig.__post_init__`,
  `ObjectTypeSpec.__post_init__` and the generator's ranges allow.
* `NamesAssumption`, `LinksAssumption` (`Contacts`): bodies have names of their own, which the
  scene registers, and links have names.
* `PhysicsAssumption`, `PickupAssumption` (`TrialWorld`): an observation has the form of one,
  and see above.

Model-checked only:

* liveness (`EveryRunEnds`, `ExpiredLeasesEnd`, `TrialEnds`), which needs fairness
  and ENABLED, out of TLAPS's reach here;
## 6. Not modelled

* The worker's idle back-off, `max_runs`, `stop_when_idle` and the liveness file: they decide
  only when the next poll comes, or whether there is one.
* The policy registry (`PolicyRegistry` in `policies/base.py`): only tests construct one. Its locks go by a
  policy's current status, although its message speaks of past references too.
* PyBullet, the inverse kinematics' numbers, the camera, image bytes, checksums of bytes and
  the columns of trajectory samples: float arithmetic and pure output. They enter as free
  choices or as names.
* The random generator's streams, friction and names of scenarios.
* The listing of events (the same paging as that of trials), single reads, health, error
  mapping, request ids, schemas' forms, configuration and logging: no state of their own.
* An experiment that names one policy twice in two spellings of its UUID: an IntegrityError
  that rolls back.
* Migrations, the compose files and the web shell; the constraints of the schema are in the
  models that depend on them.

`PROJECT.json` gives the status of each component.
