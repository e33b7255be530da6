------------------------------ MODULE RingBuffer ------------------------------
(***************************************************************************)
(* The incident ring-buffer of the video process (app/ds/ring_worker.py,   *)
(* ring_supervisor.py, ring_config.py): one gst-launch recorder for each   *)
(* camera, a supervisor thread that starts, checks and restarts them, and  *)
(* the manager whose start(), stop() and request_refresh() any thread may  *)
(* call.  A recorder is a process: it outlives the thread that started it. *)
(* Clocks are left out: the minute of a refresh, a back-off and the time   *)
(* of a stall may end at any tick.  gst-launch is installed, and cameras   *)
(* keep their names.                                                       *)
(***************************************************************************)
EXTENDS Naturals, FiniteSets

CONSTANTS
  Callers,      (* threads that call the manager                           *)
  Supervisors,  (* supervisors, each with its thread                       *)
  Cameras,      (* numbered in the order of list_cameras                   *)
  Uris,         (* addresses of RTSP streams                               *)
  NoUri,        (* nothing to record: disabled, not RTSP, or clips are off *)
  Coding,       (* the codec of each stream                                *)
  MaxStreams,   (* settings.max_streams                                    *)
  DefaultCodec, (* NEXUS_DS_RING_DEFAULT_CODEC                             *)
  QuickDeaths,  (* a recorder with the right codec may die within the 8 s  *)
                (* of maybe_flip_codec_after_crash                         *)
  NoOne,        (* self._supervisor, self._thread are None                 *)
  NoWorker,     (* the supervisor has no worker for the camera             *)
  Budgets       (* BOUND: calls, and events: changes of the rows or of the *)
                (* streams that answer, and faults                         *)

Codecs == {"h264", "h265"}
BudgetKinds == {"call", "event"}

(* A worker: its recorder, and what the supervisor remembers of it.  A     *)
(* recorder is up, up without a new segment for the stall time, or dead,   *)
(* found 8 s after its start at most (quick) or later (slow).              *)
Worker == [uri   : Uris,
           state : {"up", "stalled", "quick", "slow"},
           timed : BOOLEAN,                      (* next_restart_at > 0    *)
           codec : Codecs,
           tried : SUBSET Codecs]

ASSUME RingAssumption ==
  /\ Cameras \subseteq Nat
  /\ NoUri \notin Uris
  /\ Coding \in [Uris -> Codecs]
  /\ MaxStreams \in Nat \ {0}
  /\ DefaultCodec \in Codecs
  /\ QuickDeaths \in BOOLEAN
  /\ NoOne \notin Supervisors
  /\ NoWorker \notin Worker
  /\ Budgets \subseteq [BudgetKinds -> Nat]

VARIABLES
  rows,      (* the store: what there is to record for each camera         *)
  reach,     (* the streams that answer                                    *)
  sup,       (* self._supervisor                                           *)
  thread,    (* self._thread, named by its supervisor                      *)
  pc,        (* where each supervisor thread is                            *)
  shutdown,  (* _shutdown                                                  *)
  refresh,   (* _refresh_now                                               *)
  specs,     (* what the supervisor loaded, until _sync_workers is done    *)
  todo,      (* cameras left in the pass of the supervisor                 *)
  workers,   (* _workers                                                   *)
  call,      (* where each caller is in start() or stop()                  *)
  mine,      (* the supervisor a start() made, the thread a stop() joins   *)
  left,      (* what is left of one of Budgets                             *)
  strayed    (* history: the manager forgot a supervisor that runs or is   *)
             (* about to, or a supervisor thread died of an exception      *)

environment == <<rows, reach>>
manager     == <<sup, thread>>
threads     == <<pc, shutdown, refresh, specs, todo>>
callers     == <<call, mine>>
ringVars    == <<rows, reach, sup, thread, pc, shutdown, refresh, specs, todo, workers,
                 call, mine, left, strayed>>

RingPc == {"none", "top", "sync", "health", "stopping", "died"}
CallPc == {"none", "launch", "read", "join"}

Spend(kind) == left[kind] > 0 /\ left' = [left EXCEPT ![kind] = @ - 1]
At(s, place) == pc[s] = place
Goto(s, place) == pc' = [pc EXCEPT ![s] = place]
Running(s) == pc[s] \in {"top", "sync", "health", "stopping"}
ThreadAlive == thread # NoOne /\ Running(thread)

Alive(w) == w.state \in {"up", "stalled"}
Has(s, c) == workers[s][c] # NoWorker
Up(s, c) == Has(s, c) /\ Alive(workers[s][c])
With(s) == {c \in Cameras : Has(s, c)}
SetWorker(s, c, w) == workers' = [workers EXCEPT ![s][c] = w]

-----------------------------------------------------------------------------
(* load_rtsp_cameras(): one camera for each address, the first ones.       *)
FirstOfUri == {c \in Cameras :
                 rows[c] # NoUri /\ \A d \in Cameras : d < c => rows[d] # rows[c]}
Recorded == {c \in FirstOfUri : Cardinality({d \in FirstOfUri : d < c}) < MaxStreams}
OnlyRecorded == [c \in Recorded |-> rows[c]]                      (* mutant *)
Loaded   == [c \in Cameras |-> IF c \in Recorded THEN rows[c] ELSE NoUri]

(* IncidentRingBufferWorker.__init__, start()                              *)
Started(w) == [w EXCEPT !.state = "up", !.timed = FALSE,
                        !.tried = @ \cup {w.codec}]
NewWorker(uri) == Started([uri |-> uri, state |-> "slow", timed |-> FALSE,
                           codec |-> DefaultCodec, tried |-> {}])

(* maybe_flip_codec_after_crash: a quick death, and a codec not tried yet. *)
FlipsNever(w) == w.tried = {}                                     (* mutant *)
Flips(w) == w.state = "quick" /\ Codecs \ w.tried # {}

(* schedule_restart                                                        *)
Scheduled(w) ==
  [w EXCEPT !.timed = TRUE,
            !.codec = IF Flips(w) THEN CHOOSE codec \in Codecs : codec # @ ELSE @,
            !.tried = IF w.state = "quick" THEN @ ELSE {w.codec}]

-----------------------------------------------------------------------------
(* RingBufferManager                                                       *)

LockFree == \A t \in Callers : call[t] # "launch"

(* start(), in the lock: the constructor, then the thread.                 *)
MakeSupervisor(t) ==
  /\ call[t] = "none"
  /\ LockFree
  /\ Spend("call")
  /\ IF ThreadAlive
     THEN UNCHANGED <<sup, threads, workers, callers>>
     ELSE \E s \in Supervisors :
            /\ At(s, "none") /\ With(s) = {}       (* BOUND: of Supervisors *)
            /\ sup' = s
            /\ shutdown' = [shutdown EXCEPT ![s] = FALSE]
            /\ refresh' = [refresh EXCEPT ![s] = TRUE]
            /\ specs' = [specs EXCEPT ![s] = [c \in Cameras |-> NoUri]]
            /\ call' = [call EXCEPT ![t] = "launch"]
            /\ mine' = [mine EXCEPT ![t] = s]
            /\ UNCHANGED <<pc, todo, workers>>
  /\ UNCHANGED <<environment, thread, strayed>>

LaunchThread(t) ==
  /\ call[t] = "launch"
  /\ thread' = mine[t]
  /\ Goto(mine[t], "top")
  /\ call' = [call EXCEPT ![t] = "none"]
  /\ mine' = [mine EXCEPT ![t] = NoOne]
  /\ strayed' = (strayed \/ sup # mine[t])
  /\ UNCHANGED <<environment, sup, shutdown, refresh, specs, todo, workers, left>>

RequestRefresh(t) ==
  /\ call[t] = "none"
  /\ Spend("call")
  /\ sup # NoOne
  /\ refresh' = [refresh EXCEPT ![sup] = TRUE]
  /\ UNCHANGED <<environment, manager, pc, shutdown, specs, todo, workers, callers,
                 strayed>>

(* stop(), without the lock: tells the supervisor, reads the thread, joins *)
(* it for 30 s, forgets both.                                              *)
TellSupervisor(t) ==
  /\ call[t] = "none"
  /\ Spend("call")
  /\ call' = [call EXCEPT ![t] = "read"]
  /\ IF sup = NoOne
     THEN UNCHANGED <<shutdown, refresh>>
     ELSE /\ shutdown' = [shutdown EXCEPT ![sup] = TRUE]
          /\ refresh' = [refresh EXCEPT ![sup] = TRUE]
  /\ UNCHANGED <<environment, manager, pc, specs, todo, workers, mine, strayed>>

ReadThread(t) ==
  /\ call[t] = "read"
  /\ call' = [call EXCEPT ![t] = "join"]
  /\ mine' = [mine EXCEPT ![t] = thread]
  /\ UNCHANGED <<environment, manager, threads, workers, left, strayed>>

JoinEnds(t) == mine[t] \notin {s \in Supervisors : Running(s) /\ shutdown[s]}

Forget(t) ==
  /\ call[t] = "join"
  /\ call' = [call EXCEPT ![t] = "none"]
  /\ mine' = [mine EXCEPT ![t] = NoOne]
  /\ thread' = NoOne
  /\ sup' = NoOne
  /\ strayed' = (strayed \/ ThreadAlive)
  /\ UNCHANGED <<environment, threads, workers>>

(* A thread that nobody told to stop uses up the 30 s, and one that was    *)
(* told may: it is a fault.                                                *)
ForgetThread(t) == JoinEnds(t) /\ Forget(t) /\ UNCHANGED left
JoinTimesOut(t) == ~JoinEnds(t) /\ Forget(t) /\ Spend("event")

CallStep(t) == LaunchThread(t) \/ ReadThread(t) \/ ForgetThread(t)
EnterCall(t) == MakeSupervisor(t) \/ RequestRefresh(t) \/ TellSupervisor(t)

-----------------------------------------------------------------------------
(* IncidentRingBufferSupervisor.run_forever()                              *)

UnchangedByLoop == UNCHANGED <<environment, manager, shutdown, callers, strayed>>

LoopEnds(s) ==
  /\ At(s, "top") /\ shutdown[s]
  /\ Goto(s, "stopping")
  /\ UnchangedByLoop /\ UNCHANGED <<refresh, specs, todo, workers, left>>

(* The refresh was requested or its minute is over.                        *)
Load(s) ==
  /\ At(s, "top") /\ ~shutdown[s]
  /\ refresh' = [refresh EXCEPT ![s] = FALSE]
  /\ specs' = [specs EXCEPT ![s] = Loaded]
  /\ todo' = [todo EXCEPT ![s] = Cameras]
  /\ Goto(s, "sync")
  /\ UnchangedByLoop /\ UNCHANGED <<workers, left>>

SkipLoad(s) ==
  /\ At(s, "top") /\ ~shutdown[s] /\ ~refresh[s]
  /\ todo' = [todo EXCEPT ![s] = With(s)]
  /\ Goto(s, "health")
  /\ UnchangedByLoop /\ UNCHANGED <<refresh, specs, workers, left>>

(* The store fails: nothing catches it, and the recorders go on.           *)
LoadFails(s) ==
  /\ At(s, "top") /\ ~shutdown[s]
  /\ Spend("event")
  /\ Goto(s, "died")
  /\ strayed' = TRUE
  /\ UNCHANGED <<environment, manager, shutdown, refresh, specs, todo, workers, callers>>

(* _sync_workers: first the cameras no longer wanted, then the wanted ones *)
(* in their order; a start may fail, and the camera then has no worker.    *)
Dropped(s) == {c \in todo[s] : Has(s, c) /\ specs[s][c] = NoUri}

NextSynced(s, c) ==
  /\ At(s, "sync") /\ c \in todo[s]
  /\ IF Dropped(s) # {} THEN c \in Dropped(s) ELSE \A d \in todo[s] : c <= d
  /\ todo' = [todo EXCEPT ![s] = @ \ {c}]
  /\ UnchangedByLoop /\ UNCHANGED <<pc, refresh, specs>>

HasAny(s, c) == Has(s, c)                                         (* mutant *)
Keeps(s, c) == Has(s, c) /\ workers[s][c].uri = specs[s][c]

SyncedCamera(s, c) ==
  /\ NextSynced(s, c)
  /\ IF specs[s][c] = NoUri THEN SetWorker(s, c, NoWorker)
     ELSE IF Keeps(s, c) THEN UNCHANGED workers
     ELSE SetWorker(s, c, NewWorker(specs[s][c]))
  /\ UNCHANGED left

SyncFails(s, c) ==
  /\ NextSynced(s, c)
  /\ specs[s][c] # NoUri /\ ~Keeps(s, c)
  /\ Spend("event")
  /\ SetWorker(s, c, NoWorker)

SyncEnds(s) ==
  /\ At(s, "sync") /\ todo[s] = {}
  /\ todo' = [todo EXCEPT ![s] = With(s)]
  /\ specs' = [specs EXCEPT ![s] = [c \in Cameras |-> NoUri]]
  /\ Goto(s, "health")
  /\ UnchangedByLoop /\ UNCHANGED <<refresh, workers, left>>

(* _health_tick: restarts a recorder whose back-off is over, or which is   *)
(* stalled, after a kill.  A start that fails is left to the next tick.    *)
Restarts(w) == w.state = "stalled" \/ (~Alive(w) /\ w.timed)
Halted(w) == IF w.state = "stalled"
             THEN [w EXCEPT !.state = "slow", !.tried = {w.codec}]
             ELSE [w EXCEPT !.timed = FALSE]
Checked(w) ==
  CASE w.state = "up"        -> [w EXCEPT !.timed = FALSE, !.tried = {w.codec}]
    [] ~Alive(w) /\ ~w.timed -> Scheduled(w)
    [] OTHER                 -> w                              (* too early *)

CheckedCamera(s, c) ==
  /\ At(s, "health") /\ c \in todo[s]
  /\ todo' = [todo EXCEPT ![s] = @ \ {c}]
  /\ UnchangedByLoop /\ UNCHANGED <<pc, refresh, specs>>

Restart(s, c) ==
  /\ CheckedCamera(s, c)
  /\ Restarts(workers[s][c])
  /\ SetWorker(s, c, Started(Halted(workers[s][c])))
  /\ UNCHANGED left

RestartFails(s, c) ==
  /\ CheckedCamera(s, c)
  /\ Restarts(workers[s][c])
  /\ Spend("event")
  /\ \E how \in {Halted(workers[s][c]).state, "slow"} :         (* by then *)
       SetWorker(s, c, [Halted(workers[s][c]) EXCEPT !.state = how])

Check(s, c) ==
  /\ CheckedCamera(s, c)
  /\ workers[s][c].state # "stalled"
  /\ SetWorker(s, c, Checked(workers[s][c]))
  /\ UNCHANGED left

TickEnds(s) ==
  /\ At(s, "health") /\ todo[s] = {}
  /\ Goto(s, "top")
  /\ UnchangedByLoop /\ UNCHANGED <<refresh, specs, todo, workers, left>>

(* _stop_all_workers, and the thread ends.                                 *)
ForgetWorkers(s) ==                                               (* mutant *)
  /\ At(s, "stopping")
  /\ Goto(s, "none")
  /\ UnchangedByLoop /\ UNCHANGED <<refresh, specs, todo, workers, left>>
StopAllWorkers(s) ==
  /\ At(s, "stopping")
  /\ workers' = [workers EXCEPT ![s] = [c \in Cameras |-> NoWorker]]
  /\ Goto(s, "none")
  /\ UnchangedByLoop /\ UNCHANGED <<refresh, specs, todo, left>>

LoopStep(s) ==
  \/ LoopEnds(s) \/ Load(s) \/ SkipLoad(s) \/ SyncEnds(s) \/ TickEnds(s)
  \/ StopAllWorkers(s)
  \/ \E c \in Cameras : SyncedCamera(s, c) \/ Restart(s, c) \/ Check(s, c)

-----------------------------------------------------------------------------
(* Recorders, time and the operators                                       *)

Fits(w) == w.uri \in reach /\ w.codec = Coding[w.uri]

UnchangedOutside == UNCHANGED <<manager, threads, callers, strayed>>

(* The wrong codec ends a recorder at once, and the supervisor sees it in  *)
(* the 8 s; no answer ends it too, later unless QuickDeaths.               *)
Dies(s, c) ==
  /\ Up(s, c) /\ ~Fits(workers[s][c])
  /\ \E how \in IF workers[s][c].uri \in reach THEN {"quick"}
                ELSE {"slow"} \cup (IF QuickDeaths THEN {"quick"} ELSE {}) :
       SetWorker(s, c, [workers[s][c] EXCEPT !.state = how])
  /\ UnchangedOutside /\ UNCHANGED <<environment, left>>

(* Any recorder may die of a fault.                                        *)
Crashes(s, c) ==
  /\ Up(s, c)
  /\ Spend("event")
  /\ \E how \in {"slow"} \cup (IF QuickDeaths THEN {"quick"} ELSE {}) :
       SetWorker(s, c, [workers[s][c] EXCEPT !.state = how])
  /\ UnchangedOutside /\ UNCHANGED environment

(* No segment for stall_after seconds.                                     *)
Stalls(s, c) ==
  /\ Up(s, c) /\ workers[s][c].state = "up"
  /\ IF workers[s][c].uri \notin reach THEN UNCHANGED left ELSE Spend("event")
  /\ SetWorker(s, c, [workers[s][c] EXCEPT !.state = "stalled"])
  /\ UnchangedOutside /\ UNCHANGED environment

ChangeRows ==
  /\ Spend("event")
  /\ rows' \in [Cameras -> Uris \cup {NoUri}]
  /\ UNCHANGED <<reach, workers>> /\ UnchangedOutside

ChangeReach ==
  /\ Spend("event")
  /\ reach' \in SUBSET Uris
  /\ UNCHANGED <<rows, workers>> /\ UnchangedOutside

-----------------------------------------------------------------------------
RingInit ==
  /\ rows \in [Cameras -> Uris \cup {NoUri}]
  /\ reach \in SUBSET Uris
  /\ sup = NoOne
  /\ thread = NoOne
  /\ pc = [s \in Supervisors |-> "none"]
  /\ shutdown = [s \in Supervisors |-> FALSE]
  /\ refresh = [s \in Supervisors |-> FALSE]
  /\ specs = [s \in Supervisors |-> [c \in Cameras |-> NoUri]]
  /\ todo = [s \in Supervisors |-> {}]
  /\ workers = [s \in Supervisors |-> [c \in Cameras |-> NoWorker]]
  /\ call = [t \in Callers |-> "none"]
  /\ mine = [t \in Callers |-> NoOne]
  /\ left \in Budgets
  /\ strayed = FALSE

RingNext ==
  \/ \E t \in Callers : EnterCall(t) \/ CallStep(t) \/ JoinTimesOut(t)
  \/ \E s \in Supervisors :
       \/ LoopStep(s) \/ LoadFails(s)
       \/ \E c \in Cameras :
            \/ SyncFails(s, c) \/ RestartFails(s, c)
            \/ Dies(s, c) \/ Crashes(s, c) \/ Stalls(s, c)
  \/ ChangeRows \/ ChangeReach

RingSpec == RingInit /\ [][RingNext]_ringVars

(* The threads run on; a minute and a back-off end at some tick each time; *)
(* a recorder that cannot record ends.                                     *)
RingFairSpec ==
  /\ RingSpec
  /\ \A t \in Callers : WF_ringVars(CallStep(t))
  /\ \A s \in Supervisors : WF_ringVars(LoopStep(s)) /\ SF_ringVars(Load(s))
  /\ \A s \in Supervisors, c \in Cameras :
       SF_ringVars(Restart(s, c)) /\ WF_ringVars(Dies(s, c))

-----------------------------------------------------------------------------
(* Types.                                                                  *)
RingTypeOK ==
  /\ rows \in [Cameras -> Uris \cup {NoUri}]
  /\ reach \in SUBSET Uris
  /\ sup \in Supervisors \cup {NoOne}
  /\ thread \in Supervisors \cup {NoOne}
  /\ pc \in [Supervisors -> RingPc]
  /\ shutdown \in [Supervisors -> BOOLEAN]
  /\ refresh \in [Supervisors -> BOOLEAN]
  /\ specs \in [Supervisors -> [Cameras -> Uris \cup {NoUri}]]
  /\ todo \in [Supervisors -> SUBSET Cameras]
  /\ workers \in [Supervisors -> [Cameras -> Worker \cup {NoWorker}]]
  /\ call \in [Callers -> CallPc]
  /\ mine \in [Callers -> Supervisors \cup {NoOne}]
  /\ left \in [BudgetKinds -> Nat]
  /\ strayed \in BOOLEAN

(* The pass of a health tick meets the workers it listed: nothing else     *)
(* removes one meanwhile.                                                  *)
TickMeetsWorkers == \A s \in Supervisors : At(s, "health") => todo[s] \subseteq With(s)

(* As long as the manager forgot no running supervisor and none died, no   *)
(* camera has two recorders, which would write the same segment files,     *)
(* whatever the order of start(), stop() and refreshes.                    *)
OneRecorder ==
  ~strayed => \A c \in Cameras, r, s \in Supervisors : Up(r, c) /\ Up(s, c) => r = s

(* A stop() that returns in time, and forgets no running thread, leaves no *)
(* recorder behind, though it takes no lock and a start() may be half way. *)
StopSilences ==
  [][\A t \in Callers : ForgetThread(t) /\ ~strayed' =>
        \A s \in Supervisors, c \in Cameras : ~Up(s, c)]_ringVars

Quiet == \A t \in Callers : call[t] = "none"
Serving == sup # NoOne /\ sup = thread /\ Running(sup) /\ ~shutdown[sup]

(* A stop() that no start() follows ends every recorder, also one whose    *)
(* camera was being added, restarted or killed at that moment.             *)
RingStops ==
  <>[](Quiet /\ sup = NoOne /\ ~strayed) =>
    <>[](\A s \in Supervisors, c \in Cameras : ~Up(s, c))

(* After the last change of the cameras the supervisor that serves has a   *)
(* worker for every camera to record, with its address, and no other one,  *)
(* though refreshes coincide and starts fail.                              *)
RingConverges ==
  <>[]Serving =>
    <>[](Serving => \A c \in Cameras :
           IF Loaded[c] = NoUri THEN ~Has(sup, c)
           ELSE Has(sup, c) /\ workers[sup][c].uri = Loaded[c])

Records(s, c) == Up(s, c) /\ workers[s][c].state = "up" /\ Fits(workers[s][c])

(* README: the ring-buffer runs 24/7 for enabled RTSP cameras.  A camera   *)
(* to record that answers again for good is recorded again for good, with  *)
(* the codec it has.                                                       *)
RecordsAgain ==
  \A c \in Cameras :
    <>[](Serving /\ Loaded[c] \in reach) => <>[](Serving => Records(sup, c))
=============================================================================
