------------------------- MODULE VideoControlProofs -------------------------
(***************************************************************************)
(* Theorems about the manager of the pipeline (PipelineManager), and about *)
(* the process that drives it (VideoControl), for any number of request    *)
(* handlers, cameras and lab files.                                        *)
(***************************************************************************)
EXTENDS VideoControl, TLAPS

-----------------------------------------------------------------------------
(* The manager.                                                            *)

LEMMA TruncatedIsPart == enabled \subseteq Cameras => Truncated(enabled) \in SUBSET Cameras
  BY DEF Truncated

LEMMA ManagerTypeStep ==
  ManagerTypeOK /\ [ManagerNext]_managerVars => ManagerTypeOK'
<1> SUFFICES ASSUME ManagerTypeOK, [ManagerNext]_managerVars PROVE ManagerTypeOK'
  OBVIOUS
<1> USE DEF ManagerTypeOK, LoopPc, CallPc, flags, loopVars, calls, history
<1>1. ASSUME NEW t \in Callers, EnterStart(t) \/ EnterStop(t) \/ EnterReload(t)
      PROVE  ManagerTypeOK'
  BY <1>1 DEF EnterStart, EnterStop, EnterReload, EnterCall, Step
<1>2. ASSUME NEW t \in Callers, CheckGpu(t) \/ Activate(t)
      PROVE  ManagerTypeOK'
  BY <1>2 DEF CheckGpu, Activate, Step
<1>3. ASSUME NEW t \in Callers, Launch(t) PROVE ManagerTypeOK'
  BY <1>3 DEF Launch, Step, Goto
<1>4. ASSUME NEW t \in Callers, Deactivate(t) \/ Signal(t) \/ Join(t)
      PROVE  ManagerTypeOK'
  <2>1. CASE Deactivate(t)
    BY <2>1 DEF Deactivate, Step
  <2>2. CASE Signal(t)
    BY <2>2 DEF Signal, Step
  <2>3. CASE Join(t)
    BY <2>3 DEF Join, Step
  <2> QED
    BY <1>4, <2>1, <2>2, <2>3
<1>5. ASSUME NEW t \in Callers, ListCameras(t) PROVE ManagerTypeOK'
  BY <1>5, TruncatedIsPart DEF ListCameras, Step
<1>6. ASSUME NEW t \in Callers, ListFails(t) \/ ShowCameras(t) \/ RequestReload(t)
      PROVE  ManagerTypeOK'
  BY <1>6 DEF ListFails, ShowCameras, RequestReload, Step, SettingUp
<1>7. ASSUME NEW l \in Loops, LoadCameras(l) PROVE ManagerTypeOK'
  <2>1. CASE Available /\ enabled # {}
    <3>1. cfg' \in [Loops -> SUBSET Cameras]
      BY <1>7, <2>1, TruncatedIsPart DEF LoadCameras
    <3>2. loop' \in [Loops -> LoopPc]
      BY <1>7, <2>1 DEF LoadCameras, Goto
    <3> QED
      BY <1>7, <2>1, <3>1, <3>2 DEF LoadCameras
  <2>2. CASE ~(Available /\ enabled # {})
    BY <1>7, <2>2 DEF LoadCameras, Goto
  <2> QED
    BY <2>1, <2>2
<1>8. ASSUME NEW l \in Loops,
             LoopTop(l) \/ ShowLoaded(l) \/ ClearReload(l) \/ Play(l)
      PROVE  ManagerTypeOK'
  <2>1. CASE LoopTop(l)
    BY <2>1 DEF LoopTop, Goto
  <2>2. CASE ShowLoaded(l)
    BY <2>2 DEF ShowLoaded, Goto
  <2>3. CASE ClearReload(l) \/ Play(l)
    BY <2>3 DEF ClearReload, Play, Goto
  <2> QED
    BY <1>8, <2>1, <2>2, <2>3
<1>9. ASSUME NEW l \in Loops, HandleReturn(l) \/ EndWait(l) \/ Close(l)
      PROVE  ManagerTypeOK'
  <2>1. CASE HandleReturn(l)
    BY <2>1 DEF HandleReturn, Goto
  <2>2. CASE EndWait(l)
    BY <2>2 DEF EndWait, Goto
  <2>3. CASE Close(l)
    BY <2>3 DEF Close, Goto
  <2> QED
    BY <1>9, <2>1, <2>2, <2>3
<1>10. ASSUME NEW l \in Loops, LoopDies(l) \/ Returns(l) \/ Crashes(l)
       PROVE  ManagerTypeOK'
  BY <1>10 DEF LoopDies, Returns, Crashes, Goto
<1>11. CASE ExitProcess
  BY <1>11 DEF ExitProcess, Fresh
<1>12. CASE \E cameras \in SUBSET Cameras : SetCameras(cameras)
  BY <1>12 DEF SetCameras
<1>13. CASE \E held \in BOOLEAN : HoldGpu(held)
  BY <1>13 DEF HoldGpu
<1>14. CASE UNCHANGED managerVars
  BY <1>14 DEF managerVars
<1> QED
  BY <1>1, <1>2, <1>3, <1>4, <1>5, <1>6, <1>7, <1>8, <1>9, <1>10, <1>11, <1>12,
     <1>13, <1>14 DEF ManagerNext, CallStep, LoopStep

(* Type correctness of the manager.                                        *)
THEOREM ManagerTypeCorrect == ManagerSpec => []ManagerTypeOK
<1>1. ManagerInit => ManagerTypeOK
  BY DEF ManagerInit, ManagerTypeOK, LoopPc, CallPc
<1> QED
  BY <1>1, ManagerTypeStep, PTL DEF ManagerSpec

-----------------------------------------------------------------------------
(* A step that starts no thread and takes no lock keeps both exclusive.    *)
LEMMA LoopInvStays ==
  ASSUME LoopInv, thread' = thread,
         \A l \in Loops : Alive(l)' => Alive(l),
         \A t \in Callers : (call[t] = "launch")' => call[t] = "launch"
  PROVE  LoopInv'
  BY DEF LoopInv, OneLoop, LaunchExclusive

LEMMA LoopInvStep ==
  ManagerTypeOK /\ LoopInv /\ [ManagerNext]_managerVars => LoopInv'
<1> SUFFICES ASSUME ManagerTypeOK, LoopInv, [ManagerNext]_managerVars PROVE LoopInv'
  OBVIOUS
<1> USE DEF loopVars, calls
<1>1. ASSUME NEW t \in Callers, EnterStart(t) \/ EnterStop(t) \/ EnterReload(t)
      PROVE  LoopInv'
  BY <1>1, LoopInvStays
     DEF EnterStart, EnterStop, EnterReload, EnterCall, Step, Alive, ManagerTypeOK
<1>2. ASSUME NEW t \in Callers, CheckGpu(t) \/ Deactivate(t) \/ Signal(t) \/ Join(t)
      PROVE  LoopInv'
  BY <1>2, LoopInvStays
     DEF CheckGpu, Deactivate, Signal, Join, Step, Alive, ManagerTypeOK
<1>3. ASSUME NEW t \in Callers,
             ListCameras(t) \/ ListFails(t) \/ ShowCameras(t) \/ RequestReload(t)
      PROVE  LoopInv'
  BY <1>3, LoopInvStays
     DEF ListCameras, ListFails, ShowCameras, RequestReload, Step, Alive, ManagerTypeOK
<1>4. ASSUME NEW t \in Callers, Activate(t) PROVE LoopInv'
  <2>1. CASE ThreadAlive
    BY <1>4, <2>1, LoopInvStays DEF Activate, Step, Alive, ManagerTypeOK
  <2>2. CASE ~ThreadAlive
    <3>1. \A l \in Loops : ~Alive(l)
      BY <2>2, ManagerAssumption DEF ThreadAlive, LoopInv, OneLoop
    <3>2. UNCHANGED <<thread, loop>> /\ \A l \in Loops : ~Alive(l)'
      BY <1>4, <3>1 DEF Activate, Alive
    <3>3. \A s \in Callers : call'[s] = "launch" => s = t
      BY <1>4, <2>2 DEF Activate, LockFree, Step, ManagerTypeOK
    <3> QED
      BY <3>2, <3>3 DEF LoopInv, OneLoop, LaunchExclusive
  <2> QED
    BY <2>1, <2>2
<1>5. ASSUME NEW t \in Callers, Launch(t) PROVE LoopInv'
  <2>1. \A l \in Loops : ~Alive(l)
    BY <1>5 DEF Launch, Step, LoopInv, LaunchExclusive
  <2>2. \A s \in Callers : call'[s] # "launch"
    BY <1>5 DEF Launch, Step, LoopInv, LaunchExclusive, ManagerTypeOK
  <2>3. \A l \in Loops : Alive(l)' => thread' = l
    BY <1>5, <2>1 DEF Launch, Goto, Alive, ManagerTypeOK
  <2> QED
    BY <2>2, <2>3 DEF LoopInv, OneLoop, LaunchExclusive
<1>6. ASSUME NEW l \in Loops,
             LoopTop(l) \/ LoadCameras(l) \/ ShowLoaded(l) \/ ClearReload(l) \/ Play(l)
      PROVE  LoopInv'
  BY <1>6, LoopInvStays
     DEF LoopTop, LoadCameras, ShowLoaded, ClearReload, Play, Goto, Alive, ManagerTypeOK
<1>7. ASSUME NEW l \in Loops, HandleReturn(l) \/ EndWait(l) \/ Close(l)
      PROVE  LoopInv'
  BY <1>7, LoopInvStays DEF HandleReturn, EndWait, Close, Goto, Alive, ManagerTypeOK
<1>8. ASSUME NEW l \in Loops, LoopDies(l) \/ Returns(l) \/ Crashes(l)
      PROVE  LoopInv'
  BY <1>8, LoopInvStays DEF LoopDies, Returns, Crashes, Goto, Alive, ManagerTypeOK
<1>9. CASE ExitProcess
  BY <1>9 DEF ExitProcess, Fresh, LoopInv, OneLoop, LaunchExclusive, Alive
<1>10. CASE \/ \E cameras \in SUBSET Cameras : SetCameras(cameras)
            \/ \E held \in BOOLEAN : HoldGpu(held)
  BY <1>10, LoopInvStays DEF SetCameras, HoldGpu, Alive
<1>11. CASE UNCHANGED managerVars
  BY <1>11, LoopInvStays DEF managerVars, Alive
<1> QED
  BY <1>1, <1>2, <1>3, <1>4, <1>5, <1>6, <1>7, <1>8, <1>9, <1>10, <1>11
     DEF ManagerNext, CallStep, LoopStep

(* However calls of start(), stop() and request_reload() overlap, at most  *)
(* one ds-pipeline thread is alive, and it is self._thread.                *)
THEOREM OneLoopCorrect == ManagerSpec => []OneLoop
<1>1. ManagerInit => LoopInv
  BY DEF ManagerInit, LoopInv, OneLoop, LaunchExclusive, Alive
<1>2. LoopInv => OneLoop
  BY DEF LoopInv
<1> QED
  BY <1>1, <1>2, ManagerTypeCorrect, LoopInvStep, PTL DEF ManagerSpec

-----------------------------------------------------------------------------
LEMMA ReloadInvStep ==
  ManagerTypeOK /\ ReloadInv /\ [ManagerNext]_managerVars => ReloadInv'
<1> SUFFICES ASSUME ManagerTypeOK, ReloadInv, [ManagerNext]_managerVars
             PROVE  ReloadInv'
  OBVIOUS
<1> USE DEF ReloadInv, SettingUp, flags, loopVars, history
<1>1. ASSUME NEW t \in Callers, EnterStart(t) \/ EnterStop(t) \/ EnterReload(t)
      PROVE  ReloadInv'
  BY <1>1 DEF EnterStart, EnterStop, EnterReload, EnterCall
<1>2. ASSUME NEW t \in Callers,
             CheckGpu(t) \/ Activate(t) \/ Deactivate(t) \/ Signal(t) \/ Join(t)
      PROVE  ReloadInv'
  BY <1>2 DEF CheckGpu, Activate, Deactivate, Signal, Join
<1>3. ASSUME NEW t \in Callers, Launch(t) PROVE ReloadInv'
  BY <1>3 DEF Launch, Goto, ManagerTypeOK
<1>4. ASSUME NEW t \in Callers,
             ListCameras(t) \/ ListFails(t) \/ ShowCameras(t) \/ RequestReload(t)
      PROVE  ReloadInv'
  <2>1. CASE ListCameras(t) \/ ListFails(t) \/ ShowCameras(t)
    BY <2>1 DEF ListCameras, ListFails, ShowCameras
  <2>2. CASE RequestReload(t)
    <3>1. loop' = loop /\ reload' /\ (unserved' => unserved \/ ~SettingUp)
      BY <2>2 DEF RequestReload, ManagerTypeOK
    <3> QED
      BY <3>1 DEF ManagerTypeOK
  <2> QED
    BY <1>4, <2>1, <2>2
<1>5. ASSUME NEW l \in Loops, LoopTop(l) \/ LoadCameras(l) \/ ShowLoaded(l)
      PROVE  ReloadInv'
  BY <1>5 DEF LoopTop, LoadCameras, ShowLoaded, Goto, ManagerTypeOK
<1>6. ASSUME NEW l \in Loops, ClearReload(l) PROVE ReloadInv'
  BY <1>6 DEF ClearReload
<1>7. ASSUME NEW l \in Loops, Play(l) \/ HandleReturn(l) \/ EndWait(l) \/ Close(l)
      PROVE  ReloadInv'
  BY <1>7 DEF Play, HandleReturn, EndWait, Close, Goto, ManagerTypeOK
<1>8. ASSUME NEW l \in Loops, LoopDies(l) \/ Returns(l) \/ Crashes(l)
      PROVE  ReloadInv'
  BY <1>8 DEF LoopDies, Returns, Crashes, Goto, ManagerTypeOK
<1>9. CASE ExitProcess
  BY <1>9 DEF ExitProcess, Fresh
<1>10. CASE \/ \E cameras \in SUBSET Cameras : SetCameras(cameras)
            \/ \E held \in BOOLEAN : HoldGpu(held)
  BY <1>10 DEF SetCameras, HoldGpu
<1>11. CASE UNCHANGED managerVars
  BY <1>11 DEF managerVars
<1> QED
  BY <1>1, <1>2, <1>3, <1>4, <1>5, <1>6, <1>7, <1>8, <1>9, <1>10, <1>11
     DEF ManagerNext, CallStep, LoopStep

(* A reload requested outside the set-up of a pipeline interrupts the      *)
(* pipeline that plays, whoever else calls the manager meanwhile.          *)
THEOREM ReloadHeardCorrect == ManagerSpec => []ReloadHeard
<1>1. ManagerInit => ReloadInv
  BY DEF ManagerInit, ReloadInv, SettingUp
<1>2. ReloadInv => ReloadHeard
  BY DEF ReloadInv, ReloadHeard
<1> QED
  BY <1>1, <1>2, ManagerTypeCorrect, ReloadInvStep, PTL DEF ManagerSpec

-----------------------------------------------------------------------------
(* A step that moves no thread into the guarded phases keeps ShownInv when *)
(* it keeps what excuses a difference.                                     *)
LEMMA ShownInvStays ==
  ASSUME ShownInv, UNCHANGED <<ids, cfg>>,
         missed => missed', reload => reload',
         \A t \in Callers : call[t] = "request" => call'[t] = "request",
         \A l \in Loops :
           \/ loop'[l] = loop[l]
           \/ loop'[l] \notin {"build", "play", "pipeline", "returned", "wait"}
           \/ /\ loop[l] \in {"play", "pipeline", "returned", "wait"}
              /\ loop'[l] # "build"
  PROVE  ShownInv'
  BY DEF ShownInv

LEMMA ShownInvStep ==
  ManagerTypeOK /\ LoopInv /\ ShownInv /\ [ManagerNext]_managerVars => ShownInv'
<1> SUFFICES ASSUME ManagerTypeOK, LoopInv, ShownInv, [ManagerNext]_managerVars
             PROVE  ShownInv'
  OBVIOUS
<1> USE DEF flags, loopVars, calls, history
<1>1. ASSUME NEW t \in Callers, EnterStart(t) \/ EnterStop(t) \/ EnterReload(t)
      PROVE  ShownInv'
  BY <1>1, ShownInvStays DEF EnterStart, EnterStop, EnterReload, EnterCall, Step,
     ManagerTypeOK
<1>2. ASSUME NEW t \in Callers,
             \/ CheckGpu(t) \/ Activate(t) \/ Deactivate(t) \/ Signal(t) \/ Join(t)
             \/ ListCameras(t) \/ ListFails(t)
      PROVE  ShownInv'
  BY <1>2, ShownInvStays DEF CheckGpu, Activate, Deactivate, Signal, Join,
     ListCameras, ListFails, Step, ManagerTypeOK
<1>3. ASSUME NEW t \in Callers, Launch(t) PROVE ShownInv'
  <2>1. \A l \in Loops : loop'[l] \in {"dead", "top"}
    BY <1>3 DEF Launch, Step, Goto, LoopInv, LaunchExclusive, Alive, ManagerTypeOK
  <2> QED
    BY <2>1 DEF ShownInv
<1>4. ASSUME NEW t \in Callers, ShowCameras(t) PROVE ShownInv'
  <2>1. call'[t] = "request"
    BY <1>4 DEF ShowCameras, Step, ManagerTypeOK
  <2> QED
    BY <2>1 DEF ShownInv
<1>5. ASSUME NEW t \in Callers, RequestReload(t) PROVE ShownInv'
  <2>1. UNCHANGED <<loop, ids, cfg>> /\ reload'
    BY <1>5 DEF RequestReload
  <2>2. missed' = (missed \/ SettingUp)
    BY <1>5 DEF RequestReload
  <2>3. ASSUME NEW l \in Loops, loop[l] = "build" PROVE missed'
    BY <2>2, <2>3 DEF SettingUp
  <2> QED
    BY <2>1, <2>3 DEF ShownInv
<1>6. ASSUME NEW l \in Loops, LoadCameras(l) PROVE ShownInv'
  <2>1. \A k \in Loops : k # l => loop[k] = "dead"
    BY <1>6 DEF LoadCameras, LoopInv, OneLoop, Alive
  <2>2. loop'[l] \in {"loaded", "idle"} /\ \A k \in Loops \ {l} : loop'[k] = loop[k]
    BY <1>6 DEF LoadCameras, Goto, ManagerTypeOK
  <2> QED
    BY <2>1, <2>2 DEF ShownInv
<1>7. ASSUME NEW l \in Loops, ShowLoaded(l) PROVE ShownInv'
  <2>1. \A k \in Loops : k # l => loop[k] = "dead"
    BY <1>7 DEF ShowLoaded, LoopInv, OneLoop, Alive
  <2>2. ids' = cfg'[l] /\ \A k \in Loops \ {l} : loop'[k] = loop[k]
    BY <1>7 DEF ShowLoaded, Goto, ManagerTypeOK
  <2> QED
    BY <2>1, <2>2 DEF ShownInv
<1>8. ASSUME NEW l \in Loops, ClearReload(l) PROVE ShownInv'
  <2>1. \A k \in Loops : k # l => loop[k] = "dead"
    BY <1>8 DEF ClearReload, LoopInv, OneLoop, Alive
  <2>2. UNCHANGED <<ids, cfg, missed, call>>
    BY <1>8 DEF ClearReload
  <2>3. ids = cfg[l] \/ missed \/ \E t \in Callers : call[t] = "request"
    BY <1>8 DEF ClearReload, ShownInv
  <2>4. \A k \in Loops \ {l} : loop'[k] = loop[k]
    BY <1>8 DEF ClearReload, Goto, ManagerTypeOK
  <2> QED
    BY <2>1, <2>2, <2>3, <2>4 DEF ShownInv
<1>9. ASSUME NEW l \in Loops,
             \/ LoopTop(l) \/ Play(l) \/ HandleReturn(l) \/ EndWait(l) \/ Close(l)
             \/ LoopDies(l) \/ Returns(l) \/ Crashes(l)
      PROVE  ShownInv'
  BY <1>9, ShownInvStays DEF LoopTop, Play, HandleReturn, EndWait, Close, LoopDies,
     Returns, Crashes, Goto, ManagerTypeOK
<1>10. CASE ExitProcess
  BY <1>10 DEF ExitProcess, Fresh, ShownInv
<1>11. CASE \/ \E cameras \in SUBSET Cameras : SetCameras(cameras)
            \/ \E held \in BOOLEAN : HoldGpu(held)
  BY <1>11, ShownInvStays DEF SetCameras, HoldGpu
<1>12. CASE UNCHANGED managerVars
  BY <1>12, ShownInvStays DEF managerVars
<1> QED
  BY <1>1, <1>2, <1>3, <1>4, <1>5, <1>6, <1>7, <1>8, <1>9, <1>10, <1>11, <1>12
     DEF ManagerNext, CallStep, LoopStep

(* The camera list of the status is the one that plays, but for a reload   *)
(* that is under way or was missed by the set-up.                          *)
THEOREM StatusCorrect == ManagerSpec => []StatusShowsPlaying
<1>1. ManagerInit => LoopInv /\ ShownInv
  BY DEF ManagerInit, LoopInv, OneLoop, LaunchExclusive, Alive, ShownInv
<1>2. ShownInv => StatusShowsPlaying
  BY DEF ShownInv, StatusShowsPlaying
<1> QED
  BY <1>1, <1>2, ManagerTypeCorrect, LoopInvStep, ShownInvStep, PTL DEF ManagerSpec

-----------------------------------------------------------------------------
(* The process that drives it.                                             *)

LEMMA CallersKnown == Watch \in Callers /\ Lab \in Callers /\ Handlers \subseteq Callers
  BY ControlAssumption

(* Every step of the process is a step of the manager or leaves it alone.  *)
LEMMA ControlDrivesManager == [ControlNext]_vars => [ManagerNext]_managerVars
<1> SUFFICES ASSUME [ControlNext]_vars PROVE [ManagerNext]_managerVars
  OBVIOUS
<1>1. ASSUME NEW t \in Callers, Manager(CallStep(t)) PROVE ManagerNext
  BY <1>1 DEF Manager, ManagerNext
<1>2. ASSUME NEW l \in Loops, Manager(LoopStep(l) \/ Returns(l)) \/ LiveFault(l)
      PROVE  ManagerNext
  BY <1>2 DEF Manager, LiveFault, ManagerNext
<1>3. ASSUME NEW t \in Handlers, PostStart(t) \/ PostReload(t) \/ PostStop(t)
      PROVE  [ManagerNext]_managerVars
  BY <1>3, CallersKnown DEF PostStart, PostReload, PostStop, ManagerNext
<1>4. ASSUME NEW t \in Callers, ControlStep(t) PROVE [ManagerNext]_managerVars
  BY <1>4 DEF ControlStep, ReadLicence, LockRuntime, UnlockRuntime, AfterApply,
     Admitted, ManagerNext
<1>5. CASE WatchPoll \/ \E n \in 1 .. MaxFiles : StartLab(n)
  BY <1>5 DEF WatchPoll, StartLab
<1>6. CASE LabBegin \/ LabStopped \/ LabNext \/ LabPlayed \/ LabEnds \/ CancelLab
  BY <1>6 DEF LabBegin, LabStopped, LabNext, LabPlayed, LabEnds, CancelLab
<1>7. CASE LabAdmit \/ LabResume
  BY <1>7, CallersKnown DEF LabAdmit, LabResume, ManagerNext
<1>8. CASE LabHold \/ LabRelease
  BY <1>8 DEF LabHold, LabRelease, ManagerNext
<1>9. CASE \E verdict \in BOOLEAN : Recheck(verdict)
  BY <1>9 DEF Recheck
<1>10. CASE (\E cameras \in SUBSET Cameras : ChangeCameras(cameras)) \/ ExitVideo
  BY <1>10 DEF ChangeCameras, ExitVideo, ManagerNext
<1>11. CASE UNCHANGED vars
  BY <1>11 DEF vars
<1> QED
  BY <1>1, <1>2, <1>3, <1>4, <1>5, <1>6, <1>7, <1>8, <1>9, <1>10, <1>11
     DEF ControlNext, ThreadStep, LabStep

(* The video process implements the manager: all that endpoints, watch and *)
(* lab do to it is start(), stop() and request_reload().                   *)
THEOREM ControlImplementsManager == ControlSpec => DrivesManager
<1>1. ControlInit => ManagerInit
  BY DEF ControlInit
<1> QED
  BY <1>1, ControlDrivesManager, PTL DEF ControlSpec, ManagerSpec, DrivesManager

(* So the video process never has two threads that run the live pipeline.  *)
THEOREM ControlOneLoop == ControlSpec => []OneLoop
  BY ControlImplementsManager, OneLoopCorrect, PTL DEF DrivesManager

-----------------------------------------------------------------------------
LEMMA ControlTypeStep ==
  ControlTypeOK /\ [ControlNext]_vars => ControlTypeOK'
<1> SUFFICES ASSUME ControlTypeOK, [ControlNext]_vars PROVE ControlTypeOK'
  OBVIOUS
<1>0. ManagerTypeOK'
  BY ControlDrivesManager, ManagerTypeStep DEF ControlTypeOK
<1>a. enabled \in SUBSET Cameras
  BY DEF ControlTypeOK, ManagerTypeOK
<1> DEFINE Rest ==
  /\ valid \in BOOLEAN
  /\ fresh \in BOOLEAN
  /\ seen = NoConfig \/ seen \in SUBSET Cameras
  /\ locked \in BOOLEAN
  /\ ctl \in [Callers -> CtlPc]
  /\ reloadNext \in BOOLEAN
  /\ serving \in BOOLEAN
  /\ lab \in LabPc
  /\ files \in Nat
  /\ lab = "playing" => files > 0
  /\ wasRunning \in BOOLEAN
  /\ left \in [BudgetKinds -> Nat]
  /\ raced \in BOOLEAN
  /\ lab \in {"next", "playing"} => gpuHeld
  /\ gpuHeld => lab \in {"next", "playing", "finish"}
<1>b. Rest
  BY DEF ControlTypeOK
<1>c. SUFFICES Rest'
  BY <1>0 DEF ControlTypeOK
<1>d. ASSUME NEW kind \in BudgetKinds, Spend(kind)
      PROVE  left' \in [BudgetKinds -> Nat]
  BY <1>b, <1>d DEF Spend
<1>e. {"request", "lab", "change", "licence", "fault"} \subseteq BudgetKinds
  BY DEF BudgetKinds
<1> USE DEF CtlPc, LabPc, lockVars, labVars, controlVars
<1>1. ASSUME NEW t \in Callers, Manager(CallStep(t)) PROVE Rest'
  BY <1>1, <1>b DEF Manager, CallStep, CheckGpu, Activate, Launch, Deactivate,
     Signal, Join, ListCameras, ListFails, ShowCameras, RequestReload
<1>2. ASSUME NEW l \in Loops, Manager(LoopStep(l) \/ Returns(l)) PROVE Rest'
  BY <1>2, <1>b DEF Manager, LoopStep, Returns, LoopTop, LoadCameras, ShowLoaded,
     ClearReload, Play, HandleReturn, EndWait, Close
<1>3. ASSUME NEW l \in Loops, LiveFault(l) PROVE Rest'
  BY <1>3, <1>b, <1>d, <1>e DEF LiveFault, LoopDies, Crashes
<1>4. ASSUME NEW t \in Handlers, PostStart(t) \/ PostReload(t) \/ PostStop(t)
      PROVE  Rest'
  BY <1>4, <1>b, <1>d, <1>e DEF PostStart, PostReload, PostStop, Move, managerVars,
     EnterStop, EnterCall
<1>5. ASSUME NEW t \in Callers, ReadLicence(t) \/ AfterApply(t) PROVE Rest'
  <2>1. CASE ReadLicence(t)
    BY <1>b, <2>1 DEF ReadLicence, Move, managerVars
  <2>2. CASE AfterApply(t)
    <3>1. reloadNext' \in BOOLEAN /\ serving' \in BOOLEAN
      BY <2>2 DEF AfterApply
    <3>2. ctl' \in [Callers -> CtlPc]
      BY <1>b, <2>2 DEF AfterApply, Move
    <3> QED
      BY <1>b, <2>2, <3>1, <3>2 DEF AfterApply, managerVars
  <2> QED
    BY <1>5, <2>1, <2>2
<1>6. ASSUME NEW t \in Callers, LockRuntime(t) \/ UnlockRuntime(t) \/ Admitted(t)
      PROVE  Rest'
  <2>1. UNCHANGED gpuHeld
    BY <1>6 DEF LockRuntime, UnlockRuntime, Admitted, managerVars, EnterStart,
       EnterStop, EnterReload, EnterCall
  <2>2. ctl' \in [Callers -> CtlPc] /\ locked' \in BOOLEAN
    BY <1>6, <1>b DEF LockRuntime, UnlockRuntime, Admitted, Move
  <2> QED
    BY <1>6, <1>b, <2>1, <2>2 DEF LockRuntime, UnlockRuntime, Admitted
<1>7. CASE WatchPoll
  <2>1. reloadNext' \in BOOLEAN
    BY <1>7, <1>b DEF WatchPoll
  <2>2. ctl' \in [Callers -> CtlPc]
    BY <1>7, <1>b DEF WatchPoll, Move
  <2>3. seen' \in SUBSET Cameras /\ fresh' \in BOOLEAN
    BY <1>7, <1>a DEF WatchPoll
  <2>4. UNCHANGED <<gpuHeld, valid, locked, serving, lab, files, wasRunning, left, raced>>
    BY <1>7 DEF WatchPoll, managerVars
  <2> QED
    BY <1>b, <2>1, <2>2, <2>3, <2>4
<1>8. CASE \E n \in 1 .. MaxFiles : StartLab(n)
  <2>1. PICK n \in 1 .. MaxFiles : StartLab(n)
    BY <1>8
  <2>2. files' \in Nat
    BY <2>1, ControlAssumption DEF StartLab
  <2>3. left' \in [BudgetKinds -> Nat]
    BY <2>1, <1>d, <1>e DEF StartLab
  <2>4. UNCHANGED <<gpuHeld, valid, fresh, seen, locked, ctl, reloadNext, serving>>
    BY <2>1 DEF StartLab, managerVars, lockVars
  <2>5. lab = "none" /\ lab' = "begin" /\ wasRunning' = FALSE /\ raced' = FALSE
    BY <2>1 DEF StartLab
  <2> QED
    BY <1>b, <2>2, <2>3, <2>4, <2>5
<1>9. CASE LabBegin \/ LabAdmit
  <2>1. CASE LabBegin
    <3>1. wasRunning' \in BOOLEAN
      BY <2>1 DEF LabBegin, LiveRunning
    <3> QED
      BY <1>b, <2>1, <3>1 DEF LabBegin, managerVars
  <2>2. CASE LabAdmit
    BY <1>b, <2>2 DEF LabAdmit, managerVars, EnterStop, EnterCall
  <2> QED
    BY <1>9, <2>1, <2>2
<1>10. CASE LabStopped \/ LabHold \/ LabRelease
  <2>1. CASE LabStopped
    BY <1>b, <2>1 DEF LabStopped, managerVars
  <2>2. CASE LabHold
    <3>1. raced' \in BOOLEAN
      BY <2>2 DEF LabHold
    <3>2. gpuHeld' = TRUE
      BY <2>2 DEF LabHold, HoldGpu
    <3> QED
      BY <1>b, <2>2, <3>1, <3>2 DEF LabHold
  <2>3. CASE LabRelease
    BY <1>b, <2>3 DEF LabRelease, HoldGpu, managerVars
  <2> QED
    BY <1>10, <2>1, <2>2, <2>3
<1>11. CASE LabNext \/ LabPlayed \/ LabEnds \/ CancelLab
  BY <1>11, <1>b DEF LabNext, LabPlayed, LabEnds, CancelLab, managerVars
<1>12. CASE LabResume
  BY <1>12, <1>b DEF LabResume, managerVars, EnterStart, EnterCall
<1>13. CASE \E verdict \in BOOLEAN : Recheck(verdict)
  BY <1>13, <1>b, <1>d, <1>e DEF Recheck, managerVars
<1>14. CASE \E cameras \in SUBSET Cameras : ChangeCameras(cameras)
  BY <1>14, <1>b, <1>d, <1>e DEF ChangeCameras, SetCameras
<1>15. CASE ExitVideo
  BY <1>15, <1>b, <1>d, <1>e DEF ExitVideo, ExitProcess, Fresh
<1>16. CASE UNCHANGED vars
  BY <1>16, <1>b DEF vars, managerVars
<1> QED
  BY <1>1, <1>2, <1>3, <1>4, <1>5, <1>6, <1>7, <1>8, <1>9, <1>10, <1>11, <1>12,
     <1>13, <1>14, <1>15, <1>16 DEF ControlNext, ThreadStep, ControlStep, LabStep

(* Type correctness of the control of the video process.                   *)
THEOREM ControlTypeCorrect == ControlSpec => []ControlTypeOK
<1>1. ControlInit => ControlTypeOK
  <2> SUFFICES ASSUME ControlInit PROVE ControlTypeOK
    OBVIOUS
  <2>1. ManagerTypeOK
    BY DEF ControlInit, ManagerInit, ManagerTypeOK, LoopPc, CallPc
  <2>2. ctl \in [Callers -> CtlPc]
    BY DEF ControlInit, CtlPc
  <2>3. left \in [BudgetKinds -> Nat]
    BY ControlAssumption DEF ControlInit
  <2> QED
    BY <2>1, <2>2, <2>3 DEF ControlInit, ManagerInit, ControlTypeOK, LabPc
<1> QED
  BY <1>1, ControlTypeStep, PTL DEF ControlSpec

-----------------------------------------------------------------------------
(* A step that starts no thread, lets no start past the check and does not *)
(* touch the GPU.                                                          *)
LEMMA AloneStays ==
  ASSUME AloneInv, UNCHANGED <<gpuHeld, raced>>,
         \A l \in Loops : Alive(l)' => Alive(l),
         \A t \in Callers :
           gpuHeld /\ call'[t] \in {"lock", "launch"} => call[t] \in {"lock", "launch"}
  PROVE  AloneInv'
  BY DEF AloneInv

LEMMA AloneStep ==
  ControlTypeOK /\ AloneInv /\ [ControlNext]_vars => AloneInv'
<1> SUFFICES ASSUME ControlTypeOK, AloneInv, [ControlNext]_vars PROVE AloneInv'
  OBVIOUS
<1> USE DEF loopVars, calls, lockVars, labVars, controlVars, Alive
<1>t. /\ loop \in [Loops -> LoopPc]
      /\ call \in [Callers -> CallPc]
      /\ gpuHeld => lab \in {"next", "playing", "finish"}
  BY DEF ControlTypeOK, ManagerTypeOK
<1>e. ASSUME NEW t \in Callers,
             EnterStart(t) \/ EnterStop(t) \/ EnterReload(t) \/ UNCHANGED managerVars
      PROVE  /\ UNCHANGED <<gpuHeld, loop>>
             /\ \A s \in Callers :
                  call'[s] \in {"lock", "launch"} => call[s] \in {"lock", "launch"}
  BY <1>e, <1>t DEF EnterStart, EnterStop, EnterReload, EnterCall, Step, managerVars
<1>1. ASSUME NEW t \in Callers, Manager(CallStep(t)) PROVE AloneInv'
  <2>1. CASE CheckGpu(t)
    BY <1>1, <1>t, <2>1, AloneStays DEF Manager, CheckGpu, Step
  <2>2. CASE Activate(t) \/ Launch(t)
    <3>1. ~(gpuHeld /\ ~raced)
      BY <2>2 DEF Activate, Launch, Step, AloneInv
    <3> QED
      BY <1>1, <2>2, <3>1 DEF Manager, Activate, Launch, AloneInv
  <2>3. CASE \/ Deactivate(t) \/ Signal(t) \/ Join(t) \/ ListCameras(t)
             \/ ListFails(t) \/ ShowCameras(t) \/ RequestReload(t)
    BY <1>1, <1>t, <2>3, AloneStays DEF Manager, Deactivate, Signal, Join, ListCameras,
       ListFails, ShowCameras, RequestReload, Step
  <2> QED
    BY <1>1, <2>1, <2>2, <2>3 DEF Manager, CallStep
<1>2. ASSUME NEW l \in Loops, Manager(LoopStep(l) \/ Returns(l)) \/ LiveFault(l)
      PROVE  AloneInv'
  <2>1. Alive(l) /\ UNCHANGED <<gpuHeld, raced>>
    BY <1>2 DEF Manager, LiveFault, LoopStep, Returns, LoopTop, LoadCameras,
       ShowLoaded, ClearReload, Play, HandleReturn, EndWait, Close, LoopDies, Crashes
  <2> QED
    BY <2>1 DEF AloneInv
<1>3. ASSUME NEW t \in Handlers, PostStart(t) \/ PostReload(t) \/ PostStop(t)
      PROVE  AloneInv'
  BY <1>3, <1>e, CallersKnown, AloneStays DEF PostStart, PostReload, PostStop
<1>4. ASSUME NEW t \in Callers, ControlStep(t) PROVE AloneInv'
  BY <1>4, <1>e, AloneStays DEF ControlStep, ReadLicence, LockRuntime, UnlockRuntime,
     AfterApply, Admitted
<1>5. CASE WatchPoll \/ LabBegin \/ LabStopped \/ LabNext \/ LabPlayed \/ LabEnds \/ CancelLab
  BY <1>5, AloneStays DEF WatchPoll, LabBegin, LabStopped, LabNext, LabPlayed,
     LabEnds, CancelLab, managerVars
<1>6. CASE \E n \in 1 .. MaxFiles : StartLab(n)
  BY <1>6, <1>t DEF StartLab, managerVars, AloneInv
<1>7. CASE LabAdmit \/ LabResume
  BY <1>7, <1>e, CallersKnown, AloneStays DEF LabAdmit, LabResume
<1>8. CASE LabHold
  BY <1>8 DEF LabHold, HoldGpu, AloneInv
<1>9. CASE LabRelease
  BY <1>9 DEF LabRelease, HoldGpu, managerVars, AloneInv
<1>10. CASE \/ \E verdict \in BOOLEAN : Recheck(verdict)
            \/ \E cameras \in SUBSET Cameras : ChangeCameras(cameras)
  BY <1>10, AloneStays DEF Recheck, ChangeCameras, SetCameras, managerVars
<1>11. CASE ExitVideo
  BY <1>11 DEF ExitVideo, ExitProcess, Fresh, AloneInv
<1>12. CASE UNCHANGED vars
  BY <1>12, AloneStays DEF vars, managerVars
<1> QED
  BY <1>1, <1>2, <1>3, <1>4, <1>5, <1>6, <1>7, <1>8, <1>9, <1>10, <1>11, <1>12
     DEF ControlNext, ThreadStep, LabStep

(* The check of start() keeps the live pipeline away from the GPU for as   *)
(* long as the lab holds it, unless a start was past the check before.     *)
THEOREM LabAloneCorrect == ControlSpec => []LabAlone
<1>1. ControlInit => AloneInv
  BY DEF ControlInit, ManagerInit, AloneInv
<1>2. ControlTypeOK /\ AloneInv => LabAlone
  BY DEF ControlTypeOK, AloneInv, LabAlone, Alive
<1> QED
  BY <1>1, <1>2, ControlTypeCorrect, AloneStep, PTL DEF ControlSpec
=============================================================================
