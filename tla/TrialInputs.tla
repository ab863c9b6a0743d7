---------------------------- MODULE TrialInputs -----------------------------
(***************************************************************************)
(* What the executor makes of the rows that describe a trial               *)
(* (trial_execution.py: resolve_policy_config, _scenario_from_context,     *)
(* _spawn_parcel).  The rows hold whatever JSON a client has posted; the   *)
(* API does not look into it.  A JSON object is a function on its keys.    *)
(*                                                                         *)
(* Everything that raises while a trial is opened is Refused.  Left out:   *)
(* friction, read as the mass is; names, seeds and versions.  A checksum   *)
(* stands for the configuration that it digests.                           *)
(***************************************************************************)
EXTENDS Generator, Sequences

CONSTANTS Heights, Masses,   \* of what can be drawn: half heights, and thousandths of kg
          DefaultHalf, DefaultMass,    \* of a row that does not say
          Grain,             \* what canonical floats are multiples of
          Configs,           \* configurations of policies
          DefaultConfig(_)   \* of an implementation

ASSUME GrainAssumption == Grain \in Nat /\ Grain % 2 = 1      \* no ties

\* What PolicyConfig.__post_init__ allows.
ASSUME ConfigsAssumption == Configs \subseteq [timeout : Nat \ {0}, regrasps : Nat, stages : Nat]

Refused == [refused |-> TRUE]

Nothing == [key \in {} |-> 0]

Without(json, key) == [k \in DOMAIN json \ {key} |-> json[k]]

-----------------------------------------------------------------------------
(* Scenario, Pose and ObjectTypeSpec, and their checksum payloads.         *)

Rounded(v) == ((v + Grain \div 2) \div Grain) * Grain

\* What generate_scenario draws is an object, and has a mass in the rounding too.
ASSUME DrawnAssumption ==
  /\ \A obj \in Objects :
       /\ obj.shape \in {"box", "cylinder"} /\ obj.hx > 0 /\ obj.hy > 0
       /\ obj.shape = "cylinder" => obj.hx = obj.hy
  /\ Heights \subseteq Nat \ {0}
  /\ \A mass \in Masses : mass \in Nat /\ Rounded(mass) > 0

ObjectIsValid(object) ==
  /\ object.shape \in {"box", "cylinder"}
  /\ \A i \in 1..3 : object.half[i] > 0
  /\ object.shape = "cylinder" => object.half[1] = object.half[2]

\* AllowedPerturbations: one bound stands for all of them.
NoiseIsValid(noise) == noise >= 0

\* Scenario.__post_init__.  A bin is named by its box, which is also where it stands;
\* aim is the pose that the policies carry the object to.
Scenario(object, pose, mass, noise, bin, aim) ==
  IF /\ ObjectIsValid(object) /\ NoiseIsValid(noise)
     /\ pose.frame = "world" /\ Rounded(mass) > 0 /\ bin \in Bins
  THEN [object |-> object,
        pose   |-> [pose EXCEPT !.at = <<Rounded(@[1]), Rounded(@[2])>>],
        mass   |-> Rounded(mass), noise |-> noise, bin |-> bin, aim |-> aim]
  ELSE Refused

PoseKeys == {"schema_version", "frame", "position_meters", "orientation_xyzw"}

PosePayload(pose) ==
  [schema_version |-> "1", frame |-> pose.frame,
   position_meters |-> pose.at, orientation_xyzw |-> pose.yaw]

PoseOf(json) ==
  IF DOMAIN json = PoseKeys
  THEN [at |-> json.position_meters, yaw |-> json.orientation_xyzw, frame |-> json.frame]
  ELSE Refused

ScenarioKeys ==
  {"generator_version", "object_type", "initial_pose", "mass_kilograms",
   "target_bin", "target_bin_pose", "allowed_perturbations"}

ScenarioPayload(s) ==
  [generator_version |-> "1", object_type |-> s.object, initial_pose |-> PosePayload(s.pose),
   mass_kilograms |-> s.mass, target_bin |-> s.bin, target_bin_pose |-> s.aim,
   allowed_perturbations |-> s.noise]

\* Scenario.from_checksum_payload
ScenarioOf(json) ==
  IF DOMAIN json # ScenarioKeys THEN Refused
  ELSE IF PoseOf(json.initial_pose) = Refused THEN Refused
  ELSE Scenario(json.object_type, PoseOf(json.initial_pose), json.mass_kilograms,
                json.allowed_perturbations, json.target_bin, json.target_bin_pose)

-----------------------------------------------------------------------------
(* A scenario's row: its columns initial_pose, physical_properties and     *)
(* target_bin.                                                             *)

\* _pose_from_storage
StoredPose(json) ==
  LET Has(key) == key \in DOMAIN json
      InWorld(at) == [at |-> at, yaw |-> json.orientation_xyzw, frame |-> "world"]
  IN  IF ~Has("orientation_xyzw") THEN Refused
      ELSE IF Has("position_meters")
           THEN IF Has("schema_version") THEN PoseOf(json) ELSE InWorld(json.position_meters)
      ELSE IF Has("position_m") THEN InWorld(json.position_m) ELSE Refused

FromColumns(row) ==
  LET Get(key, default) == IF key \in DOMAIN row.physical_properties
                           THEN row.physical_properties[key] ELSE default
  IN  IF StoredPose(row.initial_pose) = Refused THEN Refused
      ELSE Scenario([shape |-> Get("shape", "box"),
                     half  |-> Get("half_extents_meters", DefaultHalf)],
                    StoredPose(row.initial_pose),
                    Get("mass_kilograms", Get("mass_kg", DefaultMass)),
                    Get("allowed_perturbations", 0),
                    row.target_bin, row.target_bin)

IsScenarioPayload(json) == {"object_type", "generator_version"} \subseteq DOMAIN json

\* Mutant of ScenarioFromContext: the column names the bin in any case.
ScenarioOfBoth(row) ==
  IF IsScenarioPayload(row.initial_pose)
  THEN LET s == ScenarioOf(row.initial_pose)
       IN  IF s = Refused THEN s ELSE [s EXCEPT !.bin = row.target_bin]
  ELSE FromColumns(row)

ScenarioFromContext(row) ==
  IF IsScenarioPayload(row.initial_pose) THEN ScenarioOf(row.initial_pose) ELSE FromColumns(row)

\* _spawn_parcel: the call that makes the body.
SpawnCall(object) ==
  IF object.shape = "cylinder"
  THEN [make |-> "cylinder", radius |-> object.half[1], height |-> 2 * object.half[3]]
  ELSE [make |-> "box", half |-> object.half]

\* The half extents of what the engine makes of it.
Made(call) ==
  IF call.make = "box" THEN call.half ELSE <<call.radius, call.radius, call.height \div 2>>

-----------------------------------------------------------------------------
(* The rows that tell of a scenario.                                       *)

WorldPose(at, yaw) == [at |-> at, yaw |-> yaw, frame |-> "world"]

\* generate_scenario, of an object that has been placed.
Drawn(place, height, mass, noise, bin) ==
  Scenario([shape |-> place.obj.shape, half |-> <<place.obj.hx, place.obj.hy, height>>],
           WorldPose(place.at, place.yaw), mass, noise, bin, bin)

PosesOf(s) ==
  {PosePayload(s.pose),
   [position_meters |-> s.pose.at, orientation_xyzw |-> s.pose.yaw],
   [position_m |-> s.pose.at, orientation_xyzw |-> s.pose.yaw]}

PropertiesOf(s) ==
  {[shape |-> s.object.shape, half_extents_meters |-> s.object.half,
    mass_kilograms |-> s.mass, allowed_perturbations |-> s.noise]}
  \cup
  {short \in {[mass_kg |-> s.mass], Nothing} :
     /\ s.object = [shape |-> "box", half |-> DefaultHalf] /\ s.noise = 0
     /\ short = Nothing => s.mass = Rounded(DefaultMass)}

\* With a whole payload the other columns may say anything.
RowsOf(s) ==
  [initial_pose : {ScenarioPayload(s)},
   physical_properties : {Nothing} \cup PropertiesOf([s EXCEPT !.mass = @ + Grain]),
   target_bin : Bins]
  \cup [initial_pose : PosesOf(s), physical_properties : PropertiesOf(s), target_bin : {s.bin}]

-----------------------------------------------------------------------------
(* A policy version's row: its name, config and config_sha256.  Numbers in *)
(* the JSON are counted in halves.                                         *)

Implementations == {"fixed", "pose_aware", "collision_aware"}

ConfigKeys == {"move_timeout_seconds", "regrasp_limit", "approach_stage_count"}

\* int(): towards 0
Truncated(halves) == IF halves >= 0 THEN halves \div 2 ELSE -((-halves) \div 2)

ConfigPayload(config) ==
  [move_timeout_seconds |-> config.timeout, regrasp_limit |-> 2 * config.regrasps,
   approach_stage_count |-> 2 * config.stages]

\* policy_config_from_payload and PolicyConfig.__post_init__; other keys are ignored.
ParsedConfig(json) ==
  IF ~(ConfigKeys \subseteq DOMAIN json) THEN Refused
  ELSE LET config == [timeout  |-> json.move_timeout_seconds,
                      regrasps |-> Truncated(json.regrasp_limit),
                      stages   |-> Truncated(json.approach_stage_count)]
       IN  IF config.timeout > 0 /\ config.regrasps >= 0 /\ config.stages >= 0
           THEN config ELSE Refused

\* Mutant of ResolvedConfig: what can be parsed is taken.
ResolvedParsed(name, json, checksum) ==
  IF name \notin Implementations THEN Refused
  ELSE IF ParsedConfig(json) # Refused THEN ParsedConfig(json)
  ELSE IF DefaultConfig(name) = checksum THEN DefaultConfig(name)
  ELSE Refused

ResolvedConfig(name, json, checksum) ==
  IF name \notin Implementations THEN Refused
  ELSE IF ParsedConfig(json) = checksum THEN ParsedConfig(json)
  ELSE IF DefaultConfig(name) = checksum THEN DefaultConfig(name)
  ELSE Refused

\* BasePolicy._validate_config and the collision-aware one.
Allows(name, config) ==
  IF name = "collision_aware" THEN config.regrasps = 1 /\ config.stages >= 1
  ELSE config.regrasps = 0 /\ config.stages = 0

\* create_policy
PolicyConfigOf(name, json, checksum) ==
  LET config == ResolvedConfig(name, json, checksum)
  IN  IF config # Refused /\ Allows(name, config) THEN config ELSE Refused

Payloads == UNION {[keys -> -1..3] : keys \in SUBSET ConfigKeys}
=============================================================================
