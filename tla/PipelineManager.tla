-------------------------- MODULE PipelineManager --------------------------
(***************************************************************************)
(* The manager of the live DeepStream pipeline (app/worker/__init__.py):   *)
(* one background thread that loads the cameras and runs the pipeline, and *)
(* start(), stop() and request_reload(), which any thread of the video     *)
(* process may call.  Calls are split where another thread can get in      *)
(* between: only start() takes the lock.                                   *)
(***************************************************************************)
EXTENDS Naturals, FiniteSets

CONSTANTS
  Callers,     (* threads that call the manager                            *)
  Loops,       (* identities of ds-pipeline threads                        *)
  Cameras,     (* numbered in the order list_cameras gives                 *)
  MaxStreams,  (* settings.max_streams                                     *)
  Available,   (* pipeline_available(): pyservicemaker can be imported     *)
  NoThread     (* self._thread is None                                     *)

ASSUME ManagerAssumption ==
  /\ Cameras \subseteq Nat
  /\ MaxStreams \in Nat \ {0}
  /\ Available \in BOOLEAN
  /\ NoThread \notin Loops

VARIABLES
  enabled,   (* the store: enabled cameras                                 *)
  gpuHeld,   (* scenario_lab_run._gpu_held                                 *)
  active,    (* self._active                                               *)
  stopping,  (* self._stop                                                 *)
  reload,    (* self._reload_requested, the interrupt of run_pipeline      *)
  running,   (* self._running                                              *)
  ids,       (* self._camera_ids                                           *)
  thread,    (* self._thread                                               *)
  loop,      (* where each ds-pipeline thread is                           *)
  cfg,       (* the cameras a ds-pipeline thread loaded                    *)
  call,      (* where each caller is in the manager                        *)
  wanted,    (* the cameras a request_reload() listed                      *)
  unserved,  (* history: a reload was requested since the loop last loaded *)
  missed     (* history: and it came after the load, before the clear      *)

flags    == <<active, stopping, reload, running>>
loopVars == <<loop, cfg>>
calls    == <<call, wanted>>
history  == <<unserved, missed>>
managerVars == <<enabled, gpuHeld, active, stopping, reload, running, ids, thread,
                 loop, cfg, call, wanted, unserved, missed>>

-----------------------------------------------------------------------------
LoopPc == {"dead", "top", "load", "loaded", "build", "play", "pipeline",
           "returned", "wait", "crashed", "close", "idle"}
CallPc == {"none", "gpu", "lock", "launch", "deactivate", "signal", "join",
           "list", "show", "request"}

Alive(l) == loop[l] # "dead"

(* thread_alive()                                                          *)
ThreadAlive == thread # NoThread /\ Alive(thread)

(* More cameras than streams: the first ones in the order of the list.     *)
StreamSlots(cameras) == 0 .. MaxStreams - 1                       (* mutant *)
Truncated(cameras) ==
  {c \in cameras : Cardinality({d \in cameras : d < c}) < MaxStreams}

Goto(l, pc) == loop' = [loop EXCEPT ![l] = pc]
Step(t, from, to) == call[t] = from /\ call' = [call EXCEPT ![t] = to]

-----------------------------------------------------------------------------
(* start(): refused while the lab holds the GPU, else one thread.          *)

CheckGpuNot(t) ==                                                 (* mutant *)
  /\ Step(t, "gpu", "lock")
  /\ UNCHANGED <<enabled, gpuHeld, flags, ids, thread, loopVars, wanted, history>>
CheckGpu(t) ==
  /\ Step(t, "gpu", IF gpuHeld THEN "none" ELSE "lock")
  /\ UNCHANGED <<enabled, gpuHeld, flags, ids, thread, loopVars, wanted, history>>

LockNotTaken == TRUE                                              (* mutant *)
LockFree == \A t \in Callers : call[t] # "launch"

(* In the lock.  A thread that is alive is kept, whatever _stop says.      *)
Activate(t) ==
  /\ LockFree
  /\ Step(t, "lock", IF ThreadAlive THEN "none" ELSE "launch")
  /\ active' = TRUE
  /\ UNCHANGED <<enabled, gpuHeld, stopping, reload, running, ids, thread,
                 loopVars, wanted, history>>

Launch(t) ==
  /\ Step(t, "launch", "none")
  /\ stopping' = FALSE
  /\ \E l \in Loops :
       /\ ~Alive(l)
       /\ thread' = l
       /\ Goto(l, "top")
       /\ cfg' = [cfg EXCEPT ![l] = {}]
  /\ UNCHANGED <<enabled, gpuHeld, active, reload, running, ids, wanted, history>>

(* stop(): no lock; the join gives up after 25 s.                          *)

Deactivate(t) ==
  /\ Step(t, "deactivate", "signal")
  /\ active' = FALSE
  /\ UNCHANGED <<enabled, gpuHeld, stopping, reload, running, ids, thread,
                 loopVars, wanted, history>>

Signal(t) ==
  /\ Step(t, "signal", "join")
  /\ stopping' = TRUE
  /\ reload' = TRUE
  /\ UNCHANGED <<enabled, gpuHeld, active, running, ids, thread, loopVars,
                 wanted, history>>

Join(t) ==
  /\ Step(t, "join", "none")
  /\ running' = FALSE
  /\ UNCHANGED <<enabled, gpuHeld, active, stopping, reload, ids, thread,
                 loopVars, wanted, history>>

(* request_reload(): shows the desired cameras, then sets the flag.        *)

ListCameras(t) ==
  /\ Step(t, "list", "show")
  /\ wanted' = [wanted EXCEPT ![t] = Truncated(enabled)]
  /\ UNCHANGED <<enabled, gpuHeld, flags, ids, thread, loopVars, history>>

(* The store raises: logged, camera_ids stay, the reload goes on.          *)
ListFails(t) ==
  /\ Step(t, "list", "request")
  /\ UNCHANGED <<enabled, gpuHeld, flags, ids, thread, loopVars, wanted, history>>

ShowCameras(t) ==
  /\ Step(t, "show", "request")
  /\ ids' = wanted[t]
  /\ wanted' = [wanted EXCEPT ![t] = {}]
  /\ UNCHANGED <<enabled, gpuHeld, flags, thread, loopVars, history>>

(* The loop has loaded its cameras and is about to clear the flag.         *)
SettingUp == \E l \in Loops : loop[l] \in {"loaded", "build"}

RequestReload(t) ==
  /\ Step(t, "request", "none")
  /\ reload' = TRUE
  /\ unserved' = (unserved \/ ~SettingUp)
  /\ missed' = (missed \/ SettingUp)
  /\ UNCHANGED <<enabled, gpuHeld, active, stopping, running, ids, thread,
                 loopVars, wanted>>

CallStep(t) ==
  \/ CheckGpu(t) \/ Activate(t) \/ Launch(t)
  \/ Deactivate(t) \/ Signal(t) \/ Join(t)
  \/ ListCameras(t) \/ ListFails(t) \/ ShowCameras(t) \/ RequestReload(t)

EnterCall(t, first) ==
  /\ Step(t, "none", first)
  /\ UNCHANGED <<enabled, gpuHeld, flags, ids, thread, loopVars, wanted, history>>

EnterStart(t)  == EnterCall(t, "gpu")
EnterStop(t)   == EnterCall(t, "deactivate")
EnterReload(t) == EnterCall(t, "list")

-----------------------------------------------------------------------------
(* _loop: the ds-pipeline thread.                                          *)

LoopTop(l) ==
  /\ loop[l] = "top"
  /\ Goto(l, IF stopping THEN "dead" ELSE "load")
  /\ UNCHANGED <<enabled, gpuHeld, flags, ids, thread, cfg, calls, history>>

LoadCameras(l) ==
  /\ loop[l] = "load"
  /\ IF Available /\ enabled # {}
     THEN /\ Goto(l, "loaded")
          /\ cfg' = [cfg EXCEPT ![l] = Truncated(enabled)]
          /\ UNCHANGED <<ids, running>>
     ELSE /\ Goto(l, "idle")
          /\ ids' = {}
          /\ running' = FALSE
          /\ UNCHANGED cfg
  /\ unserved' = FALSE
  /\ missed' = FALSE
  /\ UNCHANGED <<enabled, gpuHeld, active, stopping, reload, thread, calls>>

(* The store, the configuration or build_sink raises outside the try.      *)
LoopDies(l) ==
  /\ loop[l] \in {"load", "loaded", "build"}
  /\ Goto(l, "dead")
  /\ UNCHANGED <<enabled, gpuHeld, flags, ids, thread, cfg, calls, history>>

ShowLoadedForgets(l) ==                                           (* mutant *)
  /\ loop[l] = "loaded"
  /\ Goto(l, "build")
  /\ UNCHANGED <<enabled, gpuHeld, flags, ids, thread, cfg, calls, history>>
ShowLoaded(l) ==
  /\ loop[l] = "loaded"
  /\ Goto(l, "build")
  /\ ids' = cfg[l]
  /\ UNCHANGED <<enabled, gpuHeld, flags, thread, cfg, calls, history>>

ClearReload(l) ==
  /\ loop[l] = "build"
  /\ Goto(l, "play")
  /\ running' = TRUE
  /\ reload' = FALSE
  /\ UNCHANGED <<enabled, gpuHeld, active, stopping, ids, thread, cfg, calls, history>>

(* The inner loop: run the pipeline unless a flag is up.                   *)
PlayClearsReload(l) ==                                            (* mutant *)
  /\ loop[l] = "play"
  /\ Goto(l, IF stopping THEN "close" ELSE "pipeline")
  /\ reload' = FALSE
  /\ UNCHANGED <<enabled, gpuHeld, active, stopping, running, ids, thread, cfg,
                 calls, history>>
Play(l) ==
  /\ loop[l] = "play"
  /\ Goto(l, IF stopping \/ reload THEN "close" ELSE "pipeline")
  /\ UNCHANGED <<enabled, gpuHeld, flags, ids, thread, cfg, calls, history>>

(* run_pipeline returns: on the interrupt, or because Flow ended.          *)
Returns(l) ==
  /\ loop[l] = "pipeline"
  /\ Goto(l, "returned")
  /\ UNCHANGED <<enabled, gpuHeld, flags, ids, thread, cfg, calls, history>>

Crashes(l) ==
  /\ loop[l] = "pipeline"
  /\ Goto(l, "crashed")
  /\ UNCHANGED <<enabled, gpuHeld, flags, ids, thread, cfg, calls, history>>

HandleReturn(l) ==
  /\ loop[l] = "returned"
  /\ Goto(l, IF stopping \/ reload THEN "close" ELSE "wait")
  /\ UNCHANGED <<enabled, gpuHeld, flags, ids, thread, cfg, calls, history>>

(* _wait_or_reload ends: the time is up or a flag is up.                   *)
EndWait(l) ==
  /\ loop[l] \in {"wait", "crashed", "idle"}
  /\ Goto(l, CASE loop[l] = "wait"    -> "play"
               [] loop[l] = "crashed" -> "close"
               [] loop[l] = "idle"    -> "top")
  /\ UNCHANGED <<enabled, gpuHeld, flags, ids, thread, cfg, calls, history>>

Close(l) ==
  /\ loop[l] = "close"
  /\ Goto(l, "top")
  /\ running' = FALSE
  /\ UNCHANGED <<enabled, gpuHeld, active, stopping, reload, ids, thread, cfg,
                 calls, history>>

LoopStep(l) ==
  \/ LoopTop(l) \/ LoadCameras(l) \/ ShowLoaded(l) \/ ClearReload(l)
  \/ Play(l) \/ HandleReturn(l) \/ EndWait(l) \/ Close(l)

-----------------------------------------------------------------------------
Fresh ==
  /\ active' = FALSE /\ stopping' = FALSE /\ reload' = FALSE /\ running' = FALSE
  /\ ids' = {}
  /\ thread' = NoThread
  /\ loop' = [l \in Loops |-> "dead"]
  /\ cfg' = [l \in Loops |-> {}]
  /\ call' = [t \in Callers |-> "none"]
  /\ wanted' = [t \in Callers |-> {}]
  /\ unserved' = FALSE /\ missed' = FALSE
  /\ gpuHeld' = FALSE

(* Flow hangs after the interrupt: os._exit(75), docker starts the video   *)
(* process again.                                                          *)
ExitProcess ==
  /\ reload
  /\ \E l \in Loops : loop[l] = "pipeline"
  /\ Fresh
  /\ UNCHANGED enabled

SetCameras(cameras) ==
  /\ cameras # enabled
  /\ enabled' = cameras
  /\ UNCHANGED <<gpuHeld, flags, ids, thread, loopVars, calls, history>>

(* The lab takes or gives back the GPU (VideoControl).                     *)
HoldGpu(held) ==
  /\ held # gpuHeld
  /\ gpuHeld' = held
  /\ UNCHANGED <<enabled, flags, ids, thread, loopVars, calls, history>>

ManagerInit ==
  /\ enabled \in SUBSET Cameras
  /\ gpuHeld = FALSE
  /\ active = FALSE /\ stopping = FALSE /\ reload = FALSE /\ running = FALSE
  /\ ids = {}
  /\ thread = NoThread
  /\ loop = [l \in Loops |-> "dead"]
  /\ cfg = [l \in Loops |-> {}]
  /\ call = [t \in Callers |-> "none"]
  /\ wanted = [t \in Callers |-> {}]
  /\ unserved = FALSE /\ missed = FALSE

ManagerNext ==
  \/ \E t \in Callers : EnterStart(t) \/ EnterStop(t) \/ EnterReload(t) \/ CallStep(t)
  \/ \E l \in Loops : LoopStep(l) \/ LoopDies(l) \/ Returns(l) \/ Crashes(l)
  \/ ExitProcess
  \/ \E cameras \in SUBSET Cameras : SetCameras(cameras)
  \/ \E held \in BOOLEAN : HoldGpu(held)

ManagerSpec == ManagerInit /\ [][ManagerNext]_managerVars

-----------------------------------------------------------------------------
(* Every variable has its type.                                            *)
ManagerTypeOK ==
  /\ enabled \subseteq Cameras
  /\ gpuHeld \in BOOLEAN
  /\ active \in BOOLEAN
  /\ stopping \in BOOLEAN
  /\ reload \in BOOLEAN
  /\ running \in BOOLEAN
  /\ ids \subseteq Cameras
  /\ thread \in Loops \cup {NoThread}
  /\ loop \in [Loops -> LoopPc]
  /\ cfg \in [Loops -> SUBSET Cameras]
  /\ call \in [Callers -> CallPc]
  /\ wanted \in [Callers -> SUBSET Cameras]
  /\ unserved \in BOOLEAN
  /\ missed \in BOOLEAN

(* However start, stop and reload overlap, there is one pipeline thread,   *)
(* and it is the one stop() joins.                                         *)
OneLoop == \A l \in Loops : Alive(l) => thread = l

(* A reload requested outside the set-up of a pipeline is never lost: a    *)
(* pipeline that plays on without the flag loaded its cameras after it.    *)
ReloadHeard ==
  \A l \in Loops : loop[l] = "pipeline" /\ unserved => reload

(* The cameras the status shows are the ones that play, unless a reload is *)
(* pending, being requested, or came during the set-up.                    *)
StatusShowsPlaying ==
  \A l \in Loops :
    loop[l] = "pipeline" /\ ~reload /\ ~missed
      /\ (\A t \in Callers : call[t] # "request")
    => ids = cfg[l]

-----------------------------------------------------------------------------
(* What makes the safety properties inductive (PipelineManagerProofs).     *)

(* The lock is held from the look at the thread to the start of a new one. *)
LaunchExclusive ==
  \A s, t \in Callers :
    call[t] = "launch" => (\A l \in Loops : ~Alive(l)) /\ (call[s] = "launch" => s = t)

LoopInv == OneLoop /\ LaunchExclusive

(* While the flag may still be cleared, no request counts on it.           *)
ReloadInv == (unserved => reload) /\ (SettingUp => ~unserved)

(* From the build on, what changed the cameras shown will be told by the   *)
(* flag; the flag itself tells nothing before it is cleared.               *)
ShownInv ==
  \A l \in Loops :
    loop[l] \in {"build", "play", "pipeline", "returned", "wait"} =>
      \/ ids = cfg[l]
      \/ missed
      \/ reload /\ loop[l] # "build"
      \/ \E t \in Callers : call[t] = "request"
============================================================================
