-------------------------- MODULE RingBufferProofs --------------------------
(***************************************************************************)
(* Theorems about the ring-buffer, for any number of threads that call the *)
(* manager, of supervisors, cameras and addresses.                         *)
(***************************************************************************)
EXTENDS RingBuffer, TLAPS

USE RingAssumption

-----------------------------------------------------------------------------
(* What the operators on workers and rows return.                          *)

LEMMA StartedWorker == ASSUME NEW w \in Worker PROVE Started(w) \in Worker
<1>1. w.tried \cup {w.codec} \in SUBSET Codecs
  BY DEF Worker
<1> QED
  BY <1>1 DEF Started, Worker

LEMMA NewIsWorker == ASSUME NEW uri \in Uris PROVE NewWorker(uri) \in Worker
<1> DEFINE w == [uri |-> uri, state |-> "slow", timed |-> FALSE,
                 codec |-> DefaultCodec, tried |-> {}]
<1>1. w \in Worker
  BY DEF Worker
<1> QED
  BY <1>1, StartedWorker DEF NewWorker

LEMMA ScheduledWorker == ASSUME NEW w \in Worker PROVE Scheduled(w) \in Worker
<1> DEFINE codec == IF Flips(w) THEN CHOOSE codec \in Codecs : codec # w.codec
                    ELSE w.codec
           tried == IF w.state = "quick" THEN w.tried ELSE {w.codec}
<1>1. \E codec_1 \in Codecs : codec_1 # w.codec
  BY DEF Codecs
<1>2. codec \in Codecs
  BY <1>1 DEF Worker
<1>3. tried \in SUBSET Codecs
  BY DEF Worker
<1>4. Scheduled(w) = [w EXCEPT !.timed = TRUE, !.codec = codec, !.tried = tried]
  BY DEF Scheduled
<1> QED
  BY <1>2, <1>3, <1>4 DEF Worker

LEMMA HaltedWorker == ASSUME NEW w \in Worker PROVE Halted(w) \in Worker
<1>1. {w.codec} \in SUBSET Codecs
  BY DEF Worker
<1> QED
  BY <1>1 DEF Halted, Worker

LEMMA CheckedWorker == ASSUME NEW w \in Worker PROVE Checked(w) \in Worker
<1>1. {w.codec} \in SUBSET Codecs
  BY DEF Worker
<1>2. [w EXCEPT !.timed = FALSE, !.tried = {w.codec}] \in Worker
  BY <1>1 DEF Worker
<1> QED
  BY <1>2, ScheduledWorker DEF Checked

LEMMA StateChanged ==
  ASSUME NEW w \in Worker, NEW how \in {"up", "stalled", "quick", "slow"}
  PROVE  [w EXCEPT !.state = how] \in Worker
  BY DEF Worker

LEMMA LoadedRows ==
  rows \in [Cameras -> Uris \cup {NoUri}] =>
    Loaded \in [Cameras -> Uris \cup {NoUri}]
  BY DEF Loaded

LEMMA SetTypes ==
  ASSUME RingTypeOK, NEW s \in Supervisors, NEW c \in Cameras,
         NEW w \in Worker \cup {NoWorker}, SetWorker(s, c, w)
  PROVE  workers' \in [Supervisors -> [Cameras -> Worker \cup {NoWorker}]]
<1>1. workers[s] \in [Cameras -> Worker \cup {NoWorker}]
  BY DEF RingTypeOK
<1>2. [workers[s] EXCEPT ![c] = w] \in [Cameras -> Worker \cup {NoWorker}]
  BY <1>1
<1>3. workers' = [workers EXCEPT ![s] = [workers[s] EXCEPT ![c] = w]]
  BY DEF SetWorker
<1> QED
  BY <1>2, <1>3 DEF RingTypeOK

LEMMA SpendTypes ==
  ASSUME RingTypeOK, NEW kind \in BudgetKinds, Spend(kind)
  PROVE  left' \in [BudgetKinds -> Nat]
<1>1. left[kind] \in Nat /\ left[kind] > 0
  BY DEF RingTypeOK, Spend
<1>2. left[kind] - 1 \in Nat
  BY <1>1
<1> QED
  BY <1>2 DEF RingTypeOK, Spend

-----------------------------------------------------------------------------
(* Type correctness.                                                       *)

LEMMA RingTypeCalls ==
  ASSUME RingTypeOK, NEW t \in Callers,
         EnterCall(t) \/ CallStep(t) \/ JoinTimesOut(t)
  PROVE  RingTypeOK'
<1> USE DEF RingTypeOK, environment, threads, callers, manager
<1>1. CASE MakeSupervisor(t)
  <2>1. left' \in [BudgetKinds -> Nat]
    BY <1>1, SpendTypes DEF MakeSupervisor, BudgetKinds
  <2>2. CASE ThreadAlive
    BY <1>1, <2>1, <2>2 DEF MakeSupervisor
  <2>3. CASE ~ThreadAlive
    <3>1. PICK s \in Supervisors :
            /\ sup' = s
            /\ shutdown' = [shutdown EXCEPT ![s] = FALSE]
            /\ refresh' = [refresh EXCEPT ![s] = TRUE]
            /\ specs' = [specs EXCEPT ![s] = [c \in Cameras |-> NoUri]]
            /\ call' = [call EXCEPT ![t] = "launch"]
            /\ mine' = [mine EXCEPT ![t] = s]
            /\ UNCHANGED <<pc, todo, workers>>
      BY <1>1, <2>3 DEF MakeSupervisor
    <3>2. UNCHANGED <<rows, reach, thread, strayed>>
      BY <1>1 DEF MakeSupervisor
    <3>3. specs' \in [Supervisors -> [Cameras -> Uris \cup {NoUri}]]
      BY <3>1
    <3>4. call' \in [Callers -> CallPc]
      BY <3>1 DEF CallPc
    <3> QED
      BY <2>1, <3>1, <3>2, <3>3, <3>4
  <2> QED
    BY <2>2, <2>3
<1>2. CASE LaunchThread(t)
  <2>1. mine[t] \in Supervisors \cup {NoOne}
    OBVIOUS
  <2>2. pc' \in [Supervisors -> RingPc]
    BY <1>2 DEF LaunchThread, Goto, RingPc
  <2>3. call' \in [Callers -> CallPc]
    BY <1>2 DEF LaunchThread, CallPc
  <2>4. strayed' \in BOOLEAN
    BY <1>2 DEF LaunchThread
  <2> QED
    BY <1>2, <2>1, <2>2, <2>3, <2>4 DEF LaunchThread
<1>3. CASE RequestRefresh(t)
  <2>1. left' \in [BudgetKinds -> Nat]
    BY <1>3, SpendTypes DEF RequestRefresh, BudgetKinds
  <2> QED
    BY <1>3, <2>1 DEF RequestRefresh
<1>4. CASE TellSupervisor(t)
  <2>1. left' \in [BudgetKinds -> Nat]
    BY <1>4, SpendTypes DEF TellSupervisor, BudgetKinds
  <2>2. call' \in [Callers -> CallPc]
    BY <1>4 DEF TellSupervisor, CallPc
  <2>3. shutdown' \in [Supervisors -> BOOLEAN] /\ refresh' \in [Supervisors -> BOOLEAN]
    BY <1>4 DEF TellSupervisor
  <2> QED
    BY <1>4, <2>1, <2>2, <2>3 DEF TellSupervisor
<1>5. CASE ReadThread(t)
  <2>1. call' \in [Callers -> CallPc]
    BY <1>5 DEF ReadThread, CallPc
  <2> QED
    BY <1>5, <2>1 DEF ReadThread
<1>6. ASSUME Forget(t) PROVE left' \in [BudgetKinds -> Nat] => RingTypeOK'
  <2>1. call' \in [Callers -> CallPc]
    BY <1>6 DEF Forget, CallPc
  <2>2. strayed' \in BOOLEAN
    BY <1>6 DEF Forget
  <2> QED
    BY <1>6, <2>1, <2>2 DEF Forget
<1>7. CASE ForgetThread(t)
  BY <1>6, <1>7 DEF ForgetThread
<1>8. CASE JoinTimesOut(t)
  BY <1>6, <1>8, SpendTypes DEF JoinTimesOut, BudgetKinds
<1> QED
  BY <1>1, <1>2, <1>3, <1>4, <1>5, <1>7, <1>8 DEF EnterCall, CallStep

LEMMA RingTypeLoop ==
  ASSUME RingTypeOK, TickMeetsWorkers, NEW s \in Supervisors,
         LoopStep(s) \/ LoadFails(s)
  PROVE  RingTypeOK'
<1> USE DEF RingTypeOK, environment, callers, manager, UnchangedByLoop
<1>1. With(s) \in SUBSET Cameras
  BY DEF With
<1>2. ASSUME NEW place \in RingPc, Goto(s, place)
      PROVE  pc' \in [Supervisors -> RingPc]
  BY <1>2 DEF Goto
<1>3. CASE LoopEnds(s) \/ TickEnds(s)
  BY <1>2, <1>3 DEF LoopEnds, TickEnds, RingPc
<1>4. CASE Load(s)
  <2>1. pc' \in [Supervisors -> RingPc]
    BY <1>2, <1>4 DEF Load, RingPc
  <2>2. specs' \in [Supervisors -> [Cameras -> Uris \cup {NoUri}]]
    BY <1>4, LoadedRows DEF Load
  <2> QED
    BY <1>4, <2>1, <2>2 DEF Load
<1>5. CASE SkipLoad(s)
  BY <1>1, <1>2, <1>5 DEF SkipLoad, RingPc
<1>6. CASE LoadFails(s)
  <2>1. left' \in [BudgetKinds -> Nat]
    BY <1>6, SpendTypes DEF LoadFails, BudgetKinds
  <2>2. pc' \in [Supervisors -> RingPc]
    BY <1>2, <1>6 DEF LoadFails, RingPc
  <2> QED
    BY <1>6, <2>1, <2>2 DEF LoadFails
<1>7. CASE SyncEnds(s)
  <2>1. pc' \in [Supervisors -> RingPc]
    BY <1>2, <1>7 DEF SyncEnds, RingPc
  <2>2. specs' \in [Supervisors -> [Cameras -> Uris \cup {NoUri}]]
    BY <1>7 DEF SyncEnds
  <2> QED
    BY <1>1, <1>7, <2>1, <2>2 DEF SyncEnds
<1>8. CASE StopAllWorkers(s)
  <2>1. pc' \in [Supervisors -> RingPc]
    BY <1>2, <1>8 DEF StopAllWorkers, RingPc
  <2>2. workers' \in [Supervisors -> [Cameras -> Worker \cup {NoWorker}]]
    BY <1>8 DEF StopAllWorkers
  <2> QED
    BY <1>8, <2>1, <2>2 DEF StopAllWorkers
<1>9. ASSUME NEW c \in Cameras, SyncedCamera(s, c) PROVE RingTypeOK'
  <2>1. specs[s][c] \in Uris \cup {NoUri}
    OBVIOUS
  <2>2. workers' \in [Supervisors -> [Cameras -> Worker \cup {NoWorker}]]
    <3>1. CASE specs[s][c] = NoUri
      BY <1>9, <3>1, SetTypes DEF SyncedCamera
    <3>2. CASE specs[s][c] # NoUri /\ Keeps(s, c)
      BY <1>9, <3>2 DEF SyncedCamera
    <3>3. CASE specs[s][c] # NoUri /\ ~Keeps(s, c)
      <4>1. SetWorker(s, c, NewWorker(specs[s][c]))
        BY <1>9, <3>3 DEF SyncedCamera
      <4>2. NewWorker(specs[s][c]) \in Worker
        BY <2>1, <3>3, NewIsWorker
      <4> QED
        BY <4>1, <4>2, SetTypes
    <3> QED
      BY <3>1, <3>2, <3>3
  <2> QED
    BY <1>9, <2>2 DEF SyncedCamera, NextSynced
<1>10. ASSUME NEW c \in Cameras, Restart(s, c) \/ Check(s, c) PROVE RingTypeOK'
  <2>1. CheckedCamera(s, c) /\ UNCHANGED left
    BY <1>10 DEF Restart, Check
  <2>2. workers[s][c] \in Worker
    BY <2>1 DEF CheckedCamera, TickMeetsWorkers, With, Has
  <2>3. workers' \in [Supervisors -> [Cameras -> Worker \cup {NoWorker}]]
    <3>1. CASE Restart(s, c)
      <4>1. Started(Halted(workers[s][c])) \in Worker
        BY <2>2, HaltedWorker, StartedWorker
      <4> QED
        BY <3>1, <4>1, SetTypes DEF Restart
    <3>2. CASE Check(s, c)
      <4>1. Checked(workers[s][c]) \in Worker
        BY <2>2, CheckedWorker
      <4> QED
        BY <3>2, <4>1, SetTypes DEF Check
    <3> QED
      BY <1>10, <3>1, <3>2
  <2>4. todo' \in [Supervisors -> SUBSET Cameras]
    BY <2>1 DEF CheckedCamera
  <2> QED
    BY <2>1, <2>3, <2>4 DEF CheckedCamera
<1> QED
  BY <1>3, <1>4, <1>5, <1>6, <1>7, <1>8, <1>9, <1>10 DEF LoopStep

LEMMA RingTypeRest ==
  ASSUME RingTypeOK, TickMeetsWorkers, NEW s \in Supervisors, NEW c \in Cameras,
         \/ SyncFails(s, c) \/ RestartFails(s, c)
         \/ Dies(s, c) \/ Crashes(s, c) \/ Stalls(s, c)
  PROVE  RingTypeOK'
<1>1. ASSUME NEW how \in {"up", "stalled", "quick", "slow"}, Has(s, c),
             SetWorker(s, c, [workers[s][c] EXCEPT !.state = how])
      PROVE  workers' \in [Supervisors -> [Cameras -> Worker \cup {NoWorker}]]
  <2>1. workers[s][c] \in Worker
    BY <1>1 DEF Has, RingTypeOK
  <2>2. [workers[s][c] EXCEPT !.state = how] \in Worker
    BY <2>1, StateChanged
  <2> QED
    BY <1>1, <2>2, SetTypes
<1>2. CASE SyncFails(s, c)
  <2>1. left' \in [BudgetKinds -> Nat]
    BY <1>2, SpendTypes DEF SyncFails, BudgetKinds
  <2>2. workers' \in [Supervisors -> [Cameras -> Worker \cup {NoWorker}]]
    BY <1>2, SetTypes DEF SyncFails
  <2> QED
    BY <1>2, <2>1, <2>2
       DEF SyncFails, NextSynced, UnchangedByLoop, RingTypeOK, environment, manager,
           callers
<1>3. CASE RestartFails(s, c)
  <2>1. left' \in [BudgetKinds -> Nat]
    BY <1>3, SpendTypes DEF RestartFails, BudgetKinds
  <2>2. workers[s][c] \in Worker
    BY <1>3 DEF RestartFails, CheckedCamera, TickMeetsWorkers, With, Has, RingTypeOK
  <2>3. Halted(workers[s][c]) \in Worker
    BY <2>2, HaltedWorker
  <2>4. PICK how \in {Halted(workers[s][c]).state, "slow"} :
          SetWorker(s, c, [Halted(workers[s][c]) EXCEPT !.state = how])
    BY <1>3 DEF RestartFails
  <2>5. how \in {"up", "stalled", "quick", "slow"}
    BY <2>3 DEF Worker
  <2>6. [Halted(workers[s][c]) EXCEPT !.state = how] \in Worker
    BY <2>3, <2>5, StateChanged
  <2>7. workers' \in [Supervisors -> [Cameras -> Worker \cup {NoWorker}]]
    BY <2>4, <2>6, SetTypes
  <2> QED
    BY <1>3, <2>1, <2>7
       DEF RestartFails, CheckedCamera, UnchangedByLoop, RingTypeOK, environment,
           manager, callers
<1>4. CASE Dies(s, c)
  <2>1. workers' \in [Supervisors -> [Cameras -> Worker \cup {NoWorker}]]
    BY <1>1, <1>4 DEF Dies, Up
  <2> QED
    BY <1>4, <2>1
       DEF Dies, UnchangedOutside, RingTypeOK, environment, manager, callers, threads
<1>5. CASE Crashes(s, c)
  <2>1. left' \in [BudgetKinds -> Nat]
    BY <1>5, SpendTypes DEF Crashes, BudgetKinds
  <2>2. workers' \in [Supervisors -> [Cameras -> Worker \cup {NoWorker}]]
    BY <1>1, <1>5 DEF Crashes, Up
  <2> QED
    BY <1>5, <2>1, <2>2
       DEF Crashes, UnchangedOutside, RingTypeOK, environment, manager, callers, threads
<1>6. CASE Stalls(s, c)
  <2>1. left' \in [BudgetKinds -> Nat]
    BY <1>6, SpendTypes DEF Stalls, BudgetKinds, RingTypeOK
  <2>2. workers' \in [Supervisors -> [Cameras -> Worker \cup {NoWorker}]]
    BY <1>1, <1>6 DEF Stalls, Up
  <2> QED
    BY <1>6, <2>1, <2>2
       DEF Stalls, UnchangedOutside, RingTypeOK, environment, manager, callers, threads
<1> QED
  BY <1>2, <1>3, <1>4, <1>5, <1>6

LEMMA RingTypeStep ==
  RingTypeOK /\ TickMeetsWorkers /\ [RingNext]_ringVars => RingTypeOK'
<1> SUFFICES ASSUME RingTypeOK, TickMeetsWorkers, [RingNext]_ringVars
             PROVE  RingTypeOK'
  OBVIOUS
<1>1. CASE ChangeRows
  <2>1. left' \in [BudgetKinds -> Nat]
    BY <1>1, SpendTypes DEF ChangeRows, BudgetKinds
  <2> QED
    BY <1>1, <2>1
       DEF ChangeRows, UnchangedOutside, RingTypeOK, manager, callers, threads
<1>2. CASE ChangeReach
  <2>1. left' \in [BudgetKinds -> Nat]
    BY <1>2, SpendTypes DEF ChangeReach, BudgetKinds
  <2> QED
    BY <1>2, <2>1
       DEF ChangeReach, UnchangedOutside, RingTypeOK, manager, callers, threads
<1>3. CASE UNCHANGED ringVars
  BY <1>3 DEF ringVars, RingTypeOK
<1> QED
  BY <1>1, <1>2, <1>3, RingTypeCalls, RingTypeLoop, RingTypeRest DEF RingNext

-----------------------------------------------------------------------------
(* The pass of the health tick.  Only its supervisor removes a worker.     *)

LEMMA OneWorkerSet ==
  ASSUME RingTypeOK, NEW s \in Supervisors, NEW c \in Cameras, NEW w,
         SetWorker(s, c, w)
  PROVE  /\ w # NoWorker =>
              \A r \in Supervisors, d \in Cameras : Has(r, d) => Has(r, d)'
         /\ \A r \in Supervisors, d \in Cameras :
              r # s => workers'[r][d] = workers[r][d]
         /\ workers'[s][c] = w
         /\ \A d \in Cameras : d # c => workers'[s][d] = workers[s][d]
<1>1. workers'[s] = [workers[s] EXCEPT ![c] = w]
  BY DEF SetWorker, RingTypeOK
<1>2. \A r \in Supervisors : r # s => workers'[r] = workers[r]
  BY DEF SetWorker, RingTypeOK
<1>3. workers'[s][c] = w /\ \A d \in Cameras : d # c => workers'[s][d] = workers[s][d]
  BY <1>1 DEF RingTypeOK
<1> QED
  BY <1>2, <1>3 DEF Has

LEMMA TickStays ==
  ASSUME TickMeetsWorkers,
         \A r \in Supervisors : At(r, "health")' =>
           \/ todo'[r] = With(r)'
           \/ /\ At(r, "health") /\ todo'[r] \subseteq todo[r]
              /\ \A d \in Cameras : Has(r, d) => Has(r, d)'
  PROVE  TickMeetsWorkers'
  BY DEF TickMeetsWorkers, With

LEMMA TickStep ==
  RingTypeOK /\ TickMeetsWorkers /\ [RingNext]_ringVars => TickMeetsWorkers'
<1> SUFFICES ASSUME RingTypeOK, TickMeetsWorkers, [RingNext]_ringVars
             PROVE  TickMeetsWorkers'
  OBVIOUS
<1>1. ASSUME UNCHANGED <<todo, workers>>,
             \A r \in Supervisors : At(r, "health")' => At(r, "health")
      PROVE  TickMeetsWorkers'
  BY <1>1, TickStays DEF Has
<1>2. ASSUME NEW s \in Supervisors, NEW c \in Cameras, NEW w \in Worker,
             SetWorker(s, c, w), pc' = pc,
             todo' = todo \/ todo' = [todo EXCEPT ![s] = @ \ {c}]
      PROVE  TickMeetsWorkers'
  <2>1. \A r \in Supervisors, d \in Cameras : Has(r, d) => Has(r, d)'
    BY <1>2, OneWorkerSet
  <2>2. \A r \in Supervisors : todo'[r] \subseteq todo[r]
    BY <1>2 DEF RingTypeOK
  <2> QED
    BY <1>2, <2>1, <2>2, TickStays DEF At
<1>3. ASSUME NEW t \in Callers, EnterCall(t) \/ CallStep(t) \/ JoinTimesOut(t)
      PROVE  TickMeetsWorkers'
  <2>1. UNCHANGED <<todo, workers>>
    BY <1>3 DEF EnterCall, CallStep, MakeSupervisor, RequestRefresh, TellSupervisor,
       LaunchThread, ReadThread, ForgetThread, JoinTimesOut, Forget, threads
  <2>2. pc' = pc \/ pc' = [pc EXCEPT ![mine[t]] = "top"]
    BY <1>3 DEF EnterCall, CallStep, MakeSupervisor, RequestRefresh, TellSupervisor,
       LaunchThread, ReadThread, ForgetThread, JoinTimesOut, Forget, threads, Goto
  <2> QED
    BY <1>1, <2>1, <2>2 DEF At, RingTypeOK
<1>4. ASSUME NEW s \in Supervisors,
             LoopEnds(s) \/ TickEnds(s) \/ Load(s) \/ LoadFails(s)
      PROVE  TickMeetsWorkers'
  <2>1. workers' = workers /\ \A r \in Supervisors : r # s => todo'[r] = todo[r]
    BY <1>4 DEF LoopEnds, TickEnds, Load, LoadFails, RingTypeOK
  <2>2. PICK place \in RingPc \ {"health"} : Goto(s, place)
    BY <1>4 DEF LoopEnds, TickEnds, Load, LoadFails, RingPc
  <2>3. \A r \in Supervisors : At(r, "health")' => r # s /\ At(r, "health")
    BY <2>2 DEF Goto, At, RingTypeOK
  <2> QED
    BY <2>1, <2>3, TickStays DEF Has
<1>5. ASSUME NEW s \in Supervisors, SkipLoad(s) \/ SyncEnds(s)
      PROVE  TickMeetsWorkers'
  <2>1. workers' = workers /\ todo' = [todo EXCEPT ![s] = With(s)] /\ Goto(s, "health")
    BY <1>5 DEF SkipLoad, SyncEnds
  <2>2. todo'[s] = With(s)'
    BY <2>1 DEF With, Has, RingTypeOK
  <2>3. \A r \in Supervisors : r # s => todo'[r] = todo[r] /\ (At(r, "health")' => At(r, "health"))
    BY <2>1 DEF Goto, At, RingTypeOK
  <2> QED
    BY <2>1, <2>2, <2>3, TickStays DEF Has
<1>6. ASSUME NEW s \in Supervisors, StopAllWorkers(s) PROVE TickMeetsWorkers'
  <2>1. \A r \in Supervisors : At(r, "health")' => r # s /\ At(r, "health")
    BY <1>6 DEF StopAllWorkers, Goto, At, RingTypeOK
  <2>2. \A r \in Supervisors : r # s => workers'[r] = workers[r] /\ todo' = todo
    BY <1>6 DEF StopAllWorkers, RingTypeOK
  <2> QED
    BY <2>1, <2>2, TickStays DEF Has
<1>7. ASSUME NEW s \in Supervisors, NEW c \in Cameras,
             SyncedCamera(s, c) \/ SyncFails(s, c)
      PROVE  TickMeetsWorkers'
  <2>1. NextSynced(s, c)
    BY <1>7 DEF SyncedCamera, SyncFails
  <2>2. workers' = workers \/ \E w : SetWorker(s, c, w)
    BY <1>7 DEF SyncedCamera, SyncFails
  <2>3. \A r \in Supervisors : r # s => workers'[r] = workers[r]
    BY <2>2 DEF SetWorker, RingTypeOK
  <2>4. \A r \in Supervisors :
          At(r, "health")' => r # s /\ At(r, "health") /\ todo'[r] = todo[r]
    BY <2>1 DEF NextSynced, At, RingTypeOK
  <2> QED
    BY <2>3, <2>4, TickStays DEF Has
<1>8. ASSUME NEW s \in Supervisors, NEW c \in Cameras,
             Restart(s, c) \/ Check(s, c) \/ RestartFails(s, c)
      PROVE  TickMeetsWorkers'
  <2>1. CheckedCamera(s, c)
    BY <1>8 DEF Restart, Check, RestartFails
  <2>2. workers[s][c] \in Worker
    BY <2>1 DEF CheckedCamera, TickMeetsWorkers, With, Has, RingTypeOK
  <2>3. \E w \in Worker : SetWorker(s, c, w)
    <3>1. CASE Restart(s, c)
      BY <2>2, <3>1, HaltedWorker, StartedWorker DEF Restart
    <3>2. CASE Check(s, c)
      BY <2>2, <3>2, CheckedWorker DEF Check
    <3>3. CASE RestartFails(s, c)
      <4>1. Halted(workers[s][c]) \in Worker
        BY <2>2, HaltedWorker
      <4>2. PICK how \in {Halted(workers[s][c]).state, "slow"} :
              SetWorker(s, c, [Halted(workers[s][c]) EXCEPT !.state = how])
        BY <3>3 DEF RestartFails
      <4>3. how \in {"up", "stalled", "quick", "slow"}
        BY <4>1 DEF Worker
      <4> QED
        BY <4>1, <4>2, <4>3, StateChanged
    <3> QED
      BY <1>8, <3>1, <3>2, <3>3
  <2> QED
    BY <1>2, <2>1, <2>3 DEF CheckedCamera
<1>9. ASSUME NEW s \in Supervisors, NEW c \in Cameras,
             Dies(s, c) \/ Crashes(s, c) \/ Stalls(s, c)
      PROVE  TickMeetsWorkers'
  <2>1. workers[s][c] \in Worker
    BY <1>9 DEF Dies, Crashes, Stalls, Up, Has, RingTypeOK
  <2>2. PICK how \in {"up", "stalled", "quick", "slow"} :
          SetWorker(s, c, [workers[s][c] EXCEPT !.state = how])
    BY <1>9 DEF Dies, Crashes, Stalls
  <2>3. [workers[s][c] EXCEPT !.state = how] \in Worker
    BY <2>1, StateChanged
  <2>4. UNCHANGED <<pc, todo>>
    BY <1>9 DEF Dies, Crashes, Stalls, UnchangedOutside, threads
  <2> QED
    BY <1>2, <2>2, <2>3, <2>4
<1>10. CASE ChangeRows \/ ChangeReach \/ UNCHANGED ringVars
  BY <1>1, <1>10 DEF ChangeRows, ChangeReach, UnchangedOutside, threads, ringVars, At
<1> QED
  BY <1>3, <1>4, <1>5, <1>6, <1>7, <1>8, <1>9, <1>10 DEF RingNext, LoopStep

(* Type correctness of the ring-buffer; the pass of a health tick never    *)
(* meets a camera without a worker.                                        *)
THEOREM RingTypeCorrect == RingSpec => [](RingTypeOK /\ TickMeetsWorkers)
<1>1. RingInit => RingTypeOK /\ TickMeetsWorkers
  <2> SUFFICES ASSUME RingInit PROVE RingTypeOK /\ TickMeetsWorkers
    OBVIOUS
  <2>1. TickMeetsWorkers
    BY DEF RingInit, TickMeetsWorkers
  <2>2. pc \in [Supervisors -> RingPc] /\ call \in [Callers -> CallPc]
    BY DEF RingInit, RingPc, CallPc
  <2>3. /\ specs \in [Supervisors -> [Cameras -> Uris \cup {NoUri}]]
        /\ workers \in [Supervisors -> [Cameras -> Worker \cup {NoWorker}]]
        /\ todo \in [Supervisors -> SUBSET Cameras]
    BY DEF RingInit
  <2>4. left \in [BudgetKinds -> Nat]
    BY DEF RingInit
  <2> QED
    BY <2>1, <2>2, <2>3, <2>4 DEF RingInit, RingTypeOK
<1> QED
  BY <1>1, RingTypeStep, TickStep, PTL DEF RingSpec

-----------------------------------------------------------------------------
(* One recorder for each camera.                                           *)

(* The lock: one start() at a time is between its two steps.               *)
OneLaunch == /\ \A t, u \in Callers : call[t] = "launch" /\ call[u] = "launch" => t = u
             /\ \A t \in Callers : call[t] = "launch" => mine[t] \in Supervisors

(* Unless strayed, a supervisor that runs is the thread of the manager, no *)
(* other one is on its way, and a recorder belongs to one that runs.       *)
Kept == /\ \A s \in Supervisors :
             Running(s) => thread = s /\ \A t \in Callers : call[t] # "launch"
        /\ \A s \in Supervisors, c \in Cameras : Up(s, c) => Running(s)

RingInv == /\ RingTypeOK /\ TickMeetsWorkers
           /\ OneLaunch
           /\ ~strayed => Kept

LEMMA RingInvStays ==
  ASSUME RingInv, thread' = thread, call' = call, mine' = mine, strayed' = strayed,
         \A s \in Supervisors : Running(s)' <=> Running(s),
         \A s \in Supervisors, c \in Cameras : Up(s, c)' => Up(s, c) \/ Running(s)
  PROVE  OneLaunch' /\ (~strayed' => Kept')
<1>1. OneLaunch'
  BY DEF OneLaunch, RingInv
<1>2. ~strayed' => Kept'
  BY DEF Kept, RingInv
<1> QED
  BY <1>1, <1>2

LEMMA RingInvCalls ==
  ASSUME RingInv, NEW t \in Callers, EnterCall(t) \/ CallStep(t) \/ JoinTimesOut(t)
  PROVE  OneLaunch' /\ (~strayed' => Kept')
<1> USE DEF environment, threads, callers, manager
<1>1. workers' = workers /\ \A s \in Supervisors, c \in Cameras : Up(s, c)' <=> Up(s, c)
  <2>1. workers' = workers
    BY DEF EnterCall, CallStep, MakeSupervisor, RequestRefresh, TellSupervisor,
       LaunchThread, ReadThread, ForgetThread, JoinTimesOut, Forget
  <2> QED
    BY <2>1 DEF Up, Has
<1>2. CASE MakeSupervisor(t)
  <2>1. pc' = pc /\ thread' = thread /\ strayed' = strayed
    BY <1>2 DEF MakeSupervisor
  <2>2. \A s \in Supervisors : Running(s)' <=> Running(s)
    BY <2>1 DEF Running
  <2>3. CASE ThreadAlive
    <3>1. call' = call /\ mine' = mine
      BY <1>2, <2>3 DEF MakeSupervisor
    <3> QED
      BY <1>1, <2>1, <2>2, <3>1, RingInvStays
  <2>4. CASE ~ThreadAlive
    <3>1. PICK s \in Supervisors : /\ call' = [call EXCEPT ![t] = "launch"]
                                   /\ mine' = [mine EXCEPT ![t] = s]
      BY <1>2, <2>4 DEF MakeSupervisor
    <3>2. \A u \in Callers : call[u] # "launch"
      BY <1>2 DEF MakeSupervisor, LockFree
    <3>3. \A u \in Callers : call'[u] = "launch" => u = t
      BY <3>1, <3>2 DEF RingInv, RingTypeOK
    <3>4. mine'[t] \in Supervisors
      BY <3>1 DEF RingInv, RingTypeOK
    <3>5. OneLaunch'
      BY <3>3, <3>4 DEF OneLaunch
    <3>6. ASSUME ~strayed PROVE \A r \in Supervisors : ~Running(r)
      BY <2>4, <3>6 DEF RingInv, Kept, ThreadAlive, RingAssumption
    <3>7. ~strayed' => Kept'
      BY <1>1, <2>1, <2>2, <3>6 DEF RingInv, Kept
    <3> QED
      BY <3>5, <3>7
  <2> QED
    BY <2>3, <2>4
<1>3. CASE LaunchThread(t)
  <2>1. mine[t] \in Supervisors /\ call[t] = "launch"
    BY <1>3 DEF LaunchThread, RingInv, OneLaunch
  <2>2. \A u \in Callers : call'[u] # "launch"
    BY <1>3, <2>1 DEF LaunchThread, RingInv, OneLaunch, RingTypeOK
  <2>3. ASSUME ~strayed' PROVE Kept'
    <3>1. ~strayed /\ Kept
      BY <1>3, <2>3 DEF LaunchThread, RingInv
    <3>2. \A r \in Supervisors : ~Running(r)
      BY <2>1, <3>1 DEF Kept
    <3>3. pc' = [pc EXCEPT ![mine[t]] = "top"] /\ thread' = mine[t]
      BY <1>3 DEF LaunchThread, Goto
    <3>4. \A r \in Supervisors : Running(r)' => r = mine[t]
      BY <3>2, <3>3 DEF Running, RingInv, RingTypeOK
    <3>5. \A s \in Supervisors, c \in Cameras : ~Up(s, c)
      BY <3>1, <3>2 DEF Kept
    <3> QED
      BY <1>1, <2>2, <3>3, <3>4, <3>5 DEF Kept
  <2>4. OneLaunch'
    BY <2>2 DEF OneLaunch
  <2> QED
    BY <2>3, <2>4
<1>4. CASE RequestRefresh(t)
  <2>1. UNCHANGED <<pc, thread, call, mine, strayed>>
    BY <1>4 DEF RequestRefresh
  <2> QED
    BY <1>1, <2>1, RingInvStays DEF Running
<1>5. ASSUME call[t] # "launch", NEW place \in {"none", "read", "join"},
             call' = [call EXCEPT ![t] = place],
             mine' = mine \/ \E m : mine' = [mine EXCEPT ![t] = m]
      PROVE  /\ OneLaunch'
             /\ \A u \in Callers : call'[u] = "launch" => call[u] = "launch"
  <2>1. \A u \in Callers : call'[u] = "launch" => u # t /\ call[u] = "launch"
    BY <1>5 DEF RingInv, RingTypeOK
  <2>2. \A u \in Callers : u # t => mine'[u] = mine[u]
    BY <1>5 DEF RingInv, RingTypeOK
  <2> QED
    BY <2>1, <2>2 DEF RingInv, OneLaunch
<1>6. CASE TellSupervisor(t) \/ ReadThread(t)
  <2>1. UNCHANGED <<pc, thread, strayed>>
    BY <1>6 DEF TellSupervisor, ReadThread
  <2>2. OneLaunch' /\ \A u \in Callers : call'[u] = "launch" => call[u] = "launch"
    <3>1. CASE TellSupervisor(t)
      BY <1>5, <3>1 DEF TellSupervisor
    <3>2. CASE ReadThread(t)
      BY <1>5, <3>2 DEF ReadThread
    <3> QED
      BY <1>6, <3>1, <3>2
  <2>3. ~strayed' => Kept'
    BY <1>1, <2>1, <2>2 DEF Kept, Running, RingInv
  <2> QED
    BY <2>2, <2>3
<1>7. CASE Forget(t)
  <2>1. OneLaunch' /\ \A u \in Callers : call'[u] = "launch" => call[u] = "launch"
    BY <1>5, <1>7 DEF Forget
  <2>2. ASSUME ~strayed' PROVE Kept'
    <3>1. ~strayed /\ ~ThreadAlive /\ pc' = pc
      BY <1>7, <2>2 DEF Forget
    <3>2. \A s \in Supervisors : ~Running(s)
      BY <3>1 DEF RingInv, Kept, ThreadAlive, RingAssumption
    <3> QED
      BY <1>1, <3>1, <3>2 DEF RingInv, Kept, Running
  <2> QED
    BY <2>1, <2>2
<1> QED
  BY <1>2, <1>3, <1>4, <1>6, <1>7 DEF EnterCall, CallStep, ForgetThread, JoinTimesOut

LEMMA RingInvLoop ==
  ASSUME RingInv, NEW s \in Supervisors, LoopStep(s) \/ LoadFails(s)
  PROVE  OneLaunch' /\ (~strayed' => Kept')
<1> USE DEF environment, callers, manager, UnchangedByLoop
<1>1. pc \in [Supervisors -> RingPc]
  BY DEF RingInv, RingTypeOK
<1>2. ASSUME NEW place \in {"top", "sync", "health", "stopping"}, Running(s),
             Goto(s, place)
      PROVE  \A r \in Supervisors : Running(r)' <=> Running(r)
  BY <1>1, <1>2 DEF Running, Goto
<1>3. CASE LoopEnds(s) \/ Load(s) \/ SkipLoad(s) \/ SyncEnds(s) \/ TickEnds(s)
  <2>1. UNCHANGED <<thread, call, mine, strayed, workers>>
    BY <1>3 DEF LoopEnds, Load, SkipLoad, SyncEnds, TickEnds
  <2>2. PICK place \in {"top", "sync", "health", "stopping"} : Goto(s, place)
    BY <1>3 DEF LoopEnds, Load, SkipLoad, SyncEnds, TickEnds
  <2>3. Running(s)
    BY <1>3 DEF LoopEnds, Load, SkipLoad, SyncEnds, TickEnds, At, Running
  <2>4. \A r \in Supervisors : Running(r)' <=> Running(r)
    BY <1>2, <2>2, <2>3
  <2>5. \A r \in Supervisors, c \in Cameras : Up(r, c)' => Up(r, c)
    BY <2>1 DEF Up, Has
  <2> QED
    BY <2>1, <2>4, <2>5, RingInvStays
<1>4. CASE LoadFails(s)
  BY <1>4 DEF LoadFails, RingInv, OneLaunch
<1>5. CASE StopAllWorkers(s)
  <2>1. UNCHANGED <<thread, call, mine, strayed>>
    BY <1>5 DEF StopAllWorkers
  <2>2. pc' = [pc EXCEPT ![s] = "none"]
    BY <1>5 DEF StopAllWorkers, Goto
  <2>3. \A c \in Cameras : ~Up(s, c)'
    BY <1>5 DEF StopAllWorkers, Up, Has, RingInv, RingTypeOK
  <2>4. \A r \in Supervisors, c \in Cameras : Up(r, c)' => r # s /\ Up(r, c)
    BY <1>5, <2>3 DEF StopAllWorkers, Up, Has, RingInv, RingTypeOK
  <2>5. \A r \in Supervisors : Running(r)' => r # s /\ Running(r)
    BY <1>1, <2>2 DEF Running
  <2>6. \A r \in Supervisors : r # s /\ Running(r) => Running(r)'
    BY <1>1, <2>2 DEF Running
  <2>7. OneLaunch'
    BY <2>1 DEF RingInv, OneLaunch
  <2>8. ~strayed' => Kept'
    BY <2>1, <2>4, <2>5, <2>6 DEF RingInv, Kept
  <2> QED
    BY <2>7, <2>8
<1>6. ASSUME NEW c \in Cameras, SyncedCamera(s, c) \/ Restart(s, c) \/ Check(s, c)
      PROVE  OneLaunch' /\ (~strayed' => Kept')
  <2>1. UNCHANGED <<pc, thread, call, mine, strayed>>
    BY <1>6 DEF SyncedCamera, NextSynced, Restart, Check, CheckedCamera
  <2>2. Running(s)
    BY <1>6 DEF SyncedCamera, NextSynced, Restart, Check, CheckedCamera, At, Running
  <2>3. workers' = workers \/ \E w : SetWorker(s, c, w)
    BY <1>6 DEF SyncedCamera, Restart, Check
  <2>4. \A r \in Supervisors : r # s => workers'[r] = workers[r]
    BY <2>3 DEF SetWorker, RingInv, RingTypeOK
  <2>5. \A r \in Supervisors, d \in Cameras : Up(r, d)' => Up(r, d) \/ Running(r)
    BY <2>2, <2>4 DEF Up, Has
  <2> QED
    BY <2>1, <2>5, RingInvStays DEF Running
<1> QED
  BY <1>3, <1>4, <1>5, <1>6 DEF LoopStep

LEMMA RingInvRest ==
  ASSUME RingInv, NEW s \in Supervisors, NEW c \in Cameras,
         \/ SyncFails(s, c) \/ RestartFails(s, c)
         \/ Dies(s, c) \/ Crashes(s, c) \/ Stalls(s, c)
  PROVE  OneLaunch' /\ (~strayed' => Kept')
<1>1. UNCHANGED <<pc, thread, call, mine, strayed>>
  BY DEF SyncFails, NextSynced, RestartFails, CheckedCamera, Dies, Crashes, Stalls,
     UnchangedByLoop, UnchangedOutside, manager, threads, callers
<1>2. Running(s) \/ Up(s, c)
  BY DEF SyncFails, NextSynced, RestartFails, CheckedCamera, Dies, Crashes, Stalls,
     At, Running
<1>3. \E w : SetWorker(s, c, w)
  BY DEF SyncFails, RestartFails, Dies, Crashes, Stalls
<1>4. \A r \in Supervisors, d \in Cameras :
        r # s \/ d # c => workers'[r][d] = workers[r][d]
  BY <1>3, OneWorkerSet DEF RingInv
<1>5. \A r \in Supervisors, d \in Cameras : Up(r, d)' => Up(r, d) \/ Running(r)
  BY <1>2, <1>4 DEF Up, Has
<1> QED
  BY <1>1, <1>5, RingInvStays DEF Running

LEMMA RingInvStep == RingInv /\ [RingNext]_ringVars => RingInv'
<1> SUFFICES ASSUME RingInv, [RingNext]_ringVars PROVE RingInv'
  OBVIOUS
<1>1. RingTypeOK' /\ TickMeetsWorkers'
  BY RingTypeStep, TickStep DEF RingInv
<1>2. CASE ChangeRows \/ ChangeReach \/ UNCHANGED ringVars
  <2>1. UNCHANGED <<pc, thread, call, mine, strayed, workers>>
    BY <1>2 DEF ChangeRows, ChangeReach, UnchangedOutside, ringVars, manager, threads,
       callers
  <2> QED
    BY <1>1, <2>1, RingInvStays DEF Running, Up, Has, RingInv
<1> QED
  BY <1>1, <1>2, RingInvCalls, RingInvLoop, RingInvRest DEF RingNext, RingInv

LEMMA RingInvAlways == RingSpec => []RingInv
<1>1. RingInit => OneLaunch /\ (~strayed => Kept)
  BY DEF RingInit, OneLaunch, Kept, Running, Up, Has
<1>2. RingSpec => [](RingTypeOK /\ TickMeetsWorkers)
  BY RingTypeCorrect
<1>3. RingInit /\ RingTypeOK /\ TickMeetsWorkers => RingInv
  BY <1>1 DEF RingInv
<1> QED
  BY <1>2, <1>3, RingInvStep, PTL DEF RingSpec

(* No camera has two recorders, whatever the threads do to the manager,    *)
(* as long as it forgot no running supervisor and none died.               *)
THEOREM RingOneRecorder == RingSpec => []OneRecorder
<1>1. RingInv => OneRecorder
  BY DEF RingInv, Kept, OneRecorder
<1> QED
  BY <1>1, RingInvAlways, PTL

(* A stop() that returns in time, and forgets no running thread, leaves no *)
(* recorder behind.                                                        *)
THEOREM RingStopSilences == RingSpec => StopSilences
<1>1. RingInv /\ [RingNext]_ringVars =>
        [\A t \in Callers : ForgetThread(t) /\ ~strayed' =>
            \A s \in Supervisors, c \in Cameras : ~Up(s, c)]_ringVars
  <2> SUFFICES ASSUME RingInv, NEW t \in Callers, ForgetThread(t), ~strayed',
                      NEW s \in Supervisors, NEW c \in Cameras
               PROVE  ~Up(s, c)
    OBVIOUS
  <2>1. ~strayed /\ ~ThreadAlive
    BY DEF ForgetThread, Forget
  <2> QED
    BY <2>1 DEF RingInv, Kept, ThreadAlive, RingAssumption
<1> QED
  BY <1>1, RingInvAlways, PTL DEF RingSpec, StopSilences
=============================================================================
