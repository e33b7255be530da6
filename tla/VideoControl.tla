---------------------------- MODULE VideoControl ----------------------------
(***************************************************************************)
(* Who drives the pipeline manager inside the video process (app/video.py, *)
(* app/billing/runtime_lock.py, app/scenario_lab_run.py): the control      *)
(* endpoints, the thread that watches the configuration and the licence,   *)
(* and the scenario lab, which takes the GPU for its own pipeline.         *)
(* The API process writes the licence file; its own calls (operator,       *)
(* runtime lock, command line) arrive as requests at the endpoints.        *)
(***************************************************************************)
EXTENDS PipelineManager

CONSTANTS
  Watch,      (* the caller video-config-watch, and lifespan before it     *)
  Lab,        (* the caller scenario-lab                                   *)
  Handlers,   (* callers that serve requests                               *)
  AutoStart,  (* settings.auto_start_pipeline                              *)
  MaxFiles,   (* BOUND: files of one lab run                               *)
  NoConfig,   (* the watch has no fingerprint yet: last is None            *)
  Budget      (* BOUND: requests, lab runs, camera changes, changes of the *)
              (* licence and faults                                        *)

BudgetKinds == {"request", "lab", "change", "licence", "fault"}

ASSUME ControlAssumption ==
  /\ Callers = {Watch, Lab} \cup Handlers
  /\ Watch # Lab /\ Watch \notin Handlers /\ Lab \notin Handlers
  /\ AutoStart \in BOOLEAN
  /\ MaxFiles \in Nat
  /\ \A cameras \in SUBSET Cameras : NoConfig # cameras
  /\ Budget \in [BudgetKinds -> Nat]

VARIABLES
  valid,       (* license.json: license_ok()                               *)
  fresh,       (* license.json was written since the watch last looked     *)
  seen,        (* the cameras of the fingerprint the watch remembers       *)
  locked,      (* runtime_lock._runtime_locked of this process             *)
  ctl,         (* what the watch and the handlers do outside the manager   *)
  reloadNext,  (* the watch reloads after apply_runtime_lock               *)
  serving,     (* lifespan() is through: requests and the watch are served *)
  lab,         (* where the scenario-lab thread is                         *)
  files,       (* files left in the lab run                                *)
  wasRunning,  (* was_running of the lab run                               *)
  left,        (* what is left of Budget                                   *)
  raced        (* history: when the lab took the GPU, a live pipeline was  *)
               (* there or a start had passed the check                    *)

lockVars    == <<valid, fresh, seen, locked, ctl, reloadNext, serving>>
labVars     == <<lab, files, wasRunning, raced>>
controlVars == <<valid, fresh, seen, locked, ctl, reloadNext, serving, lab,
                 files, wasRunning, left, raced>>
vars == <<managerVars, controlVars>>

CtlPc == {"idle", "start", "reload", "apply", "lock", "unlock", "after"}
LabPc == {"none", "begin", "admit", "stopping", "hold", "next", "playing",
          "finish", "resume", "ending"}

Spend(kind) == left[kind] > 0 /\ left' = [left EXCEPT ![kind] = @ - 1]
Move(t, from, to) == ctl[t] = from /\ ctl' = [ctl EXCEPT ![t] = to]

-----------------------------------------------------------------------------
(* apply_runtime_lock(): reads the last check, then locks or unlocks.      *)

ReadLicence(t) ==
  /\ Move(t, "apply", IF valid THEN "unlock" ELSE "lock")
  /\ UNCHANGED <<managerVars, valid, fresh, seen, locked, reloadNext, serving,
                 labVars, left>>

LockRuntime(t) ==
  /\ Move(t, "lock", "after")
  /\ locked' = TRUE
  /\ EnterStop(t)
  /\ UNCHANGED <<valid, fresh, seen, reloadNext, serving, labVars, left>>

UnlockRuntime(t) ==
  /\ Move(t, "unlock", "after")
  /\ locked' = FALSE
  /\ IF locked /\ AutoStart THEN EnterStart(t) ELSE UNCHANGED managerVars
  /\ UNCHANGED <<valid, fresh, seen, reloadNext, serving, labVars, left>>

AfterApply(t) ==
  /\ call[t] = "none"
  /\ Move(t, "after", IF t = Watch /\ reloadNext THEN "reload" ELSE "idle")
  /\ reloadNext' = (reloadNext /\ t # Watch)
  /\ serving' = (serving \/ t = Watch)
  /\ UNCHANGED <<managerVars, valid, fresh, seen, locked, labVars, left>>

(* license_ok() said yes some time ago.                                    *)
Admitted(t) ==
  /\ \/ Move(t, "start", "idle") /\ EnterStart(t)
     \/ Move(t, "reload", "idle") /\ EnterReload(t)
  /\ UNCHANGED <<valid, fresh, seen, locked, reloadNext, serving,
                 labVars, left>>

ControlStep(t) ==
  \/ ReadLicence(t) \/ LockRuntime(t) \/ UnlockRuntime(t)
  \/ AfterApply(t) \/ Admitted(t)

(* The endpoints POST /worker/start, /worker/reload and /worker/stop.      *)
Free(t) == serving /\ ctl[t] = "idle" /\ call[t] = "none"

PostStart(t) ==
  /\ Free(t)
  /\ Spend("request")
  /\ Move(t, "idle", IF valid THEN "start" ELSE "apply")
  /\ UNCHANGED <<managerVars, valid, fresh, seen, locked, reloadNext, serving,
                 labVars>>

PostReload(t) ==
  /\ Free(t)
  /\ Spend("request")
  /\ Move(t, "idle", IF valid THEN "reload" ELSE "apply")
  /\ UNCHANGED <<managerVars, valid, fresh, seen, locked, reloadNext, serving,
                 labVars>>

PostStop(t) ==
  /\ Free(t)
  /\ Spend("request")
  /\ EnterStop(t)
  /\ UNCHANGED <<lockVars, labVars>>

(* _watch_config: every 2 s.  The fingerprint holds the enabled cameras    *)
(* and checked_at of the licence check.                                    *)
CamerasChanged == seen # NoConfig /\ seen # enabled               (* mutant *)
ConfigChanged == seen # NoConfig /\ (seen # enabled \/ fresh)

WatchPoll ==
  /\ Free(Watch)
  /\ IF ConfigChanged
     THEN Move(Watch, "idle", "apply") /\ reloadNext' = valid
     ELSE UNCHANGED <<ctl, reloadNext>>
  /\ seen' = enabled
  /\ fresh' = FALSE
  /\ UNCHANGED <<managerVars, valid, locked, serving, labVars, left>>

-----------------------------------------------------------------------------
(* scenario_lab_run.py                                                     *)

(* POST /scenario-lab/start, start_run: one lab thread at a time.          *)
StartLab(n) ==
  /\ serving /\ valid
  /\ lab = "none"
  /\ Spend("lab")
  /\ lab' = "begin"
  /\ files' = n
  /\ wasRunning' = FALSE
  /\ raced' = FALSE
  /\ UNCHANGED <<managerVars, lockVars>>

(* status().running                                                        *)
LiveRunning == active /\ ThreadAlive

LabBegin ==
  /\ lab = "begin"
  /\ lab' = "admit"
  /\ wasRunning' = LiveRunning
  /\ UNCHANGED <<managerVars, lockVars, files, left, raced>>

LabAdmit ==
  /\ lab = "admit"
  /\ IF ~valid \/ ~Available
     THEN lab' = "finish" /\ UNCHANGED managerVars
     ELSE IF wasRunning
          THEN lab' = "stopping" /\ EnterStop(Lab)
          ELSE lab' = "hold" /\ UNCHANGED managerVars
  /\ UNCHANGED <<lockVars, files, wasRunning, left, raced>>

LabStopped ==
  /\ lab = "stopping"
  /\ call[Lab] = "none"
  /\ lab' = IF ThreadAlive THEN "finish" ELSE "hold"
  /\ UNCHANGED <<managerVars, lockVars, files, wasRunning, left, raced>>

LabHold ==
  /\ lab = "hold"
  /\ lab' = "next"
  /\ HoldGpu(TRUE)
  /\ raced' = \/ \E l \in Loops : Alive(l)
              \/ \E t \in Callers : call[t] \in {"lock", "launch"}
  /\ UNCHANGED <<lockVars, files, wasRunning, left>>

LabNext ==
  /\ lab = "next"
  /\ lab' = IF files > 0 THEN "playing" ELSE "finish"
  /\ UNCHANGED <<managerVars, lockVars, files, wasRunning, left, raced>>

LabPlayed ==
  /\ lab = "playing"
  /\ lab' = "next"
  /\ files' = files - 1
  /\ UNCHANGED <<managerVars, lockVars, wasRunning, left, raced>>

(* The finally of _loop.                                                   *)
LabReleaseForgets ==                                              (* mutant *)
  /\ lab = "finish"
  /\ lab' = "resume"
  /\ UNCHANGED <<managerVars, lockVars, files, wasRunning, left, raced>>
LabRelease ==
  /\ lab = "finish"
  /\ lab' = "resume"
  /\ IF gpuHeld THEN HoldGpu(FALSE) ELSE UNCHANGED managerVars
  /\ UNCHANGED <<lockVars, files, wasRunning, left, raced>>

LabResumesAnyway ==                                               (* mutant *)
  /\ lab = "resume"
  /\ lab' = "ending"
  /\ stopping' = FALSE
  /\ UNCHANGED <<enabled, gpuHeld, active, reload, running, ids, thread, loopVars,
                 calls, history, lockVars, files, wasRunning, left, raced>>
LabResume ==
  /\ lab = "resume"
  /\ lab' = "ending"
  /\ IF wasRunning /\ ~ThreadAlive THEN EnterStart(Lab) ELSE UNCHANGED managerVars
  /\ UNCHANGED <<lockVars, files, wasRunning, left, raced>>

LabEnds ==
  /\ lab = "ending"
  /\ call[Lab] = "none"
  /\ lab' = "none"
  /\ UNCHANGED <<managerVars, lockVars, files, wasRunning, left, raced>>

LabStep ==
  \/ LabBegin \/ LabAdmit \/ LabStopped \/ LabHold \/ LabNext \/ LabPlayed
  \/ LabRelease \/ LabResume \/ LabEnds

(* cancel_run: the file that plays is interrupted, the others are skipped. *)
CancelLab ==
  /\ lab # "none"
  /\ LET kept == IF lab = "playing" THEN 1 ELSE 0
     IN  files > kept /\ files' = kept
  /\ UNCHANGED <<managerVars, lockVars, lab, wasRunning, left, raced>>

-----------------------------------------------------------------------------
(* The API process checks the key and writes license.json, every 300 s and *)
(* when the settings change.                                               *)
Recheck(verdict) ==
  /\ IF verdict = valid THEN UNCHANGED left ELSE Spend("licence")
  /\ valid' = verdict
  /\ fresh' = TRUE
  /\ UNCHANGED <<managerVars, seen, locked, ctl, reloadNext, serving, labVars>>

ChangeCameras(cameras) ==
  /\ Spend("change")
  /\ SetCameras(cameras)
  /\ UNCHANGED <<lockVars, labVars>>

LiveFault(l) ==
  /\ Spend("fault")
  /\ LoopDies(l) \/ Crashes(l)
  /\ UNCHANGED <<lockVars, labVars>>

(* The whole process goes; lifespan() applies the lock before the watch.   *)
ExitVideo ==
  /\ Spend("fault")
  /\ ExitProcess
  /\ seen' = NoConfig
  /\ locked' = TRUE
  /\ ctl' = [t \in Callers |-> IF t = Watch THEN "apply" ELSE "idle"]
  /\ reloadNext' = FALSE /\ serving' = FALSE
  /\ lab' = "none" /\ files' = 0 /\ wasRunning' = FALSE /\ raced' = FALSE
  /\ UNCHANGED <<valid, fresh>>

ControlInit ==
  /\ ManagerInit
  /\ valid \in BOOLEAN
  /\ fresh = FALSE
  /\ seen = NoConfig
  /\ locked = TRUE
  /\ ctl = [t \in Callers |-> IF t = Watch THEN "apply" ELSE "idle"]
  /\ reloadNext = FALSE /\ serving = FALSE
  /\ lab = "none" /\ files = 0 /\ wasRunning = FALSE /\ raced = FALSE
  /\ left = Budget

Manager(step) == step /\ UNCHANGED controlVars

(* What a calling thread does next, and a thread of the pipeline.          *)
ThreadStep(t) ==
  \/ Manager(CallStep(t))
  \/ ControlStep(t)
  \/ t = Watch /\ WatchPoll
  \/ t = Lab /\ LabStep

ControlNext ==
  \/ \E t \in Callers : ThreadStep(t)
  \/ \E l \in Loops : Manager(LoopStep(l) \/ Returns(l)) \/ LiveFault(l)
  \/ \E t \in Handlers : PostStart(t) \/ PostReload(t) \/ PostStop(t)
  \/ \E n \in 1 .. MaxFiles : StartLab(n)
  \/ CancelLab
  \/ \E verdict \in BOOLEAN : Recheck(verdict)
  \/ \E cameras \in SUBSET Cameras : ChangeCameras(cameras)
  \/ ExitVideo

ControlSpec == ControlInit /\ [][ControlNext]_vars

(* The threads of the process run, files end (eos watchdog, time limit),   *)
(* an interrupted pipeline returns or ends the process, and the API checks *)
(* the key again and again.  A pipeline nobody interrupts may play for     *)
(* ever, and nothing is assumed of requests.                               *)
ControlFairSpec ==
  /\ ControlSpec
  /\ \A t \in Callers : WF_vars(ThreadStep(t))
  /\ \A l \in Loops :
       WF_vars(\/ Manager(LoopStep(l))
               \/ reload /\ (Manager(Returns(l)) \/ ExitVideo))
  /\ WF_vars(\E verdict \in BOOLEAN : Recheck(verdict))

-----------------------------------------------------------------------------
(* Every variable has its type.                                            *)
ControlTypeOK ==
  /\ ManagerTypeOK
  /\ valid \in BOOLEAN
  /\ fresh \in BOOLEAN
  /\ seen = NoConfig \/ seen \in SUBSET Cameras
  /\ locked \in BOOLEAN
  /\ ctl \in [Callers -> CtlPc]
  /\ reloadNext \in BOOLEAN
  /\ serving \in BOOLEAN
  /\ lab \in LabPc
  /\ files \in Nat
  /\ lab = "playing" => files > 0
  /\ wasRunning \in BOOLEAN
  /\ left \in [BudgetKinds -> Nat]
  /\ raced \in BOOLEAN
  /\ lab \in {"next", "playing"} => gpuHeld
  /\ gpuHeld => lab \in {"next", "playing", "finish"}

(* While the lab plays a file no live pipeline plays, unless one was there *)
(* or on its way when the lab took the GPU.                                *)
LabAlone ==
  lab = "playing" /\ ~raced => \A l \in Loops : loop[l] # "pipeline"

(* The driven manager is the manager: whatever the endpoints, the watch    *)
(* and the lab do, it goes through start(), stop() and request_reload().   *)
DrivesManager == ManagerSpec

(* A node whose key stays invalid stops its live pipeline for good, though *)
(* starts that were admitted before, a lab run that resumes the pipeline   *)
(* and a stop that timed out come in between.                              *)
LockStops == <>[]~valid => <>[](\A l \in Loops : loop[l] # "pipeline")

(* After the last change of the cameras the live pipeline ends up playing  *)
(* the current ones only, though single reload requests get lost.          *)
Stale == \E l \in Loops : loop[l] = "pipeline" /\ cfg[l] # Truncated(enabled)
CamerasConverge == <>[][enabled' = enabled]_vars => <>[]~Stale

(* REFACTORING.md:246: a second pipeline in the process is forbidden.      *)
OnePipeline == lab = "playing" => \A l \in Loops : loop[l] # "pipeline"

-----------------------------------------------------------------------------
(* What makes LabAlone inductive (VideoControlProofs).                     *)
AloneInv ==
  gpuHeld /\ ~raced =>
    /\ \A l \in Loops : ~Alive(l)
    /\ \A t \in Callers : call[t] \notin {"lock", "launch"}
============================================================================
