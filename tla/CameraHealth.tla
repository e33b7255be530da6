---------------------------- MODULE CameraHealth ----------------------------
(***************************************************************************)
(* What the overview and `cameras errors` say of a camera: why it is not   *)
(* in the pipeline (skip_reasons of pipeline_status.py) and what is wrong  *)
(* with its detection and its recording (services/camera_problems.py).     *)
(*                                                                         *)
(* The camera is read once, and the list from which the reasons are        *)
(* computed once more: in between it may have been switched on or off.     *)
(* The health of the video process comes from PipelineManager (the         *)
(* status), Triggers (stream_rows) and RingBuffer (snapshot).              *)
(***************************************************************************)
EXTENDS Integers

VARIABLES
  camera,  (* the camera: [enabled, uri]                                   *)
  listed,  (* in the list: [enabled, first], first of max_streams          *)
  health,  (* VideoHealthOut                                               *)
  report   (* what describe_camera returns                                 *)

healthVars == <<camera, listed, health, report>>

Uris     == {"rtsp", "other", ""}
Frames   == {"starting", "waiting", "closed", "silent", "live", ""}
Flags    == [available: BOOLEAN, running: BOOLEAN, reload: BOOLEAN, error: BOOLEAN]
Workers  == {[there |-> FALSE, alive |-> FALSE, stalled |-> FALSE, restarts |-> 0]}
              \cup [there: {TRUE}, alive: BOOLEAN, stalled: BOOLEAN, restarts: {0, 1}]
NoReport == [detect |-> "", record |-> "", problem |-> {}, fault |-> FALSE]

NoAnswer ==
  [ok |-> FALSE, inside |-> FALSE, frames |-> "", clip |-> FALSE, ring |-> FALSE,
   status |-> [available |-> FALSE, running |-> FALSE, reload |-> FALSE, error |-> TRUE],
   worker |-> [there |-> FALSE, alive |-> FALSE, stalled |-> FALSE, restarts |-> 0]]
Up == [available |-> TRUE, running |-> TRUE, reload |-> FALSE, error |-> FALSE]

(* BOUND: the frames of a camera vary when it is in the pipeline, the list *)
(* and the state of the pipeline when it is not.                           *)
HealthInit ==
  /\ camera \in [enabled: BOOLEAN, uri: Uris]
  /\ \E ok \in BOOLEAN, inside \in BOOLEAN, frames \in Frames, flags \in Flags,
        clip \in BOOLEAN, ring \in BOOLEAN, worker \in Workers :
       /\ inside => flags = Up
       /\ ~inside => frames = ""
       /\ ~ok => ~inside /\ ~clip /\ ~ring /\ ~worker.there
       /\ health = [ok |-> ok, inside |-> inside, frames |-> frames, status |-> flags,
                    clip |-> clip, ring |-> ring, worker |-> worker]
  /\ listed \in [enabled: BOOLEAN, first: BOOLEAN]
  /\ listed.first => listed.enabled
  /\ health.inside => listed = [enabled |-> camera.enabled, first |-> camera.enabled]
  /\ report = NoReport

-----------------------------------------------------------------------------
(* skip_reasons(): the first cause that applies.                           *)
SkipReason ==
  IF ~listed.enabled THEN "off"
  ELSE IF camera.uri = "" THEN "no URI"
  ELSE IF ~health.status.available THEN "video is not available"
  ELSE IF ~health.status.running THEN "the pipeline is stopped"
  ELSE IF ~listed.first THEN "the limit of streams"
  ELSE IF health.status.reload THEN "waits for a reload"
  ELSE IF health.status.error THEN "the last error"
  ELSE "the pipeline has the old list"

DetectState ==
  IF ~health.ok THEN "down"
  ELSE IF ~health.inside THEN "out"
  ELSE IF health.frames = "" THEN "unknown" ELSE health.frames

(* The problem of a state is the state, but that of a camera which is out  *)
(* of the pipeline is the reason, and that of a live one is none.          *)
DetectProblem ==
  IF DetectState = "out" THEN {SkipReason} ELSE {DetectState} \ {"live"}

StalledIsLive ==  (* mutant *)
  IF ~health.ok THEN "down"
  ELSE IF camera.uri # "rtsp" THEN "skip"
  ELSE IF ~health.clip THEN "record off"
  ELSE IF ~health.ring \/ ~health.worker.there THEN "absent"
  ELSE IF ~health.worker.alive THEN "dead" ELSE "live"

RingKind ==
  IF ~health.ok THEN "down"
  ELSE IF camera.uri # "rtsp" THEN "skip"
  ELSE IF ~health.clip THEN "record off"
  ELSE IF ~health.ring \/ ~health.worker.there THEN "absent"
  ELSE IF ~health.worker.alive THEN "dead"
  ELSE IF health.worker.stalled THEN "stalled" ELSE "live"

RingProblem ==
  IF RingKind \in {"dead", "stalled", "absent"} THEN {RingKind}
  ELSE IF RingKind = "live" /\ health.worker.restarts > 0 THEN {"restarts"} ELSE {}

StreamProblem == IF camera.enabled THEN DetectProblem \cup RingProblem ELSE {"off"}

(* is_fault() compares the text: "off" alone is no fault.                  *)
Describe ==
  /\ report = NoReport
  /\ report' = [detect |-> DetectState, record |-> RingKind, problem |-> StreamProblem,
                fault |-> StreamProblem \notin {{}, {"off"}}]
  /\ UNCHANGED <<camera, listed, health>>

HealthSpec == HealthInit /\ [][Describe]_healthVars

-----------------------------------------------------------------------------
Works ==  (* frames arrive, and what should be recorded is being recorded  *)
  /\ health.ok /\ health.inside /\ health.frames = "live"
  /\ (camera.uri = "rtsp" /\ health.clip) =>
       health.ring /\ health.worker.there /\ health.worker.alive
         /\ ~health.worker.stalled /\ health.worker.restarts = 0

(* `cameras errors` passes over an enabled camera exactly when it works,   *)
(* unless it was switched on between the two reads: the reason is that of  *)
(* a camera that is off then, and counts as no fault.                      *)
FaultIffBroken ==
  report # NoReport /\ camera.enabled => (report.fault <=> ~Works) \/ ~listed.enabled
=============================================================================
