--------------------------- MODULE CameraRegistry ---------------------------
(***************************************************************************)
(* The table of cameras, the list of them that every process caches        *)
(* (class Store of storage.py), the requests of the API and of the CLI     *)
(* that change cameras (services/cameras.py, api/cameras.py,               *)
(* cli/cameras.py), and the wait of a removal for the live pipeline.       *)
(*                                                                         *)
(* A transaction is one step.  A thread that lists the cameras looks at    *)
(* the cache under the lock of its Store, reads the table without it and   *)
(* fills the cache under it again.  There is no clock: a cached list may   *)
(* expire (NEXUS_DS_CAMERA_CACHE_MS) and a wait may end at any time.       *)
(* The pipeline thread of the video process (PipelineManager) is Loop; the *)
(* ring supervisor lists cameras through the Store of the same process,    *)
(* and is a viewer here.                                                   *)
(***************************************************************************)
EXTENDS SettingsFile

CONSTANTS
  Ids,         (* cameras, numbered in the order of the list               *)
  ApiThreads,  (* threads of the API process, numbered                     *)
  RingThread,  (* the ring supervisor                                      *)
  Loop,        (* the pipeline thread                                      *)
  MaxStreams,  (* settings.max_streams                                     *)
  CameraCalls  (* BOUND: requests, lists, failures of video; a          *)
               (* behaviour has one of these budgets                       *)

Requesters == ApiThreads \cup Commands
Threads    == Requesters \cup {RingThread, Loop}
Stores     == Procs        (* every process has one                        *)

ASSUME RegistryAssumption ==
  /\ Ids \subseteq Nat \ {0} /\ IsFiniteSet(Ids)
  /\ MaxStreams \in Nat \ {0}
  /\ ApiThreads \subseteq Nat /\ ApiThreads \cap Commands = {}
  /\ Loop # RingThread /\ {Loop, RingThread} \cap (ApiThreads \cup Commands) = {}
  /\ CameraCalls \subseteq [{"request", "view", "ring", "fault"} -> Nat]

VARIABLES
  table,     (* the cameras table: absent, or [on, uri]                    *)
  version,   (* how many transactions have changed it                      *)
  changed,   (* history: the version that changed each row last            *)
  inserted,  (* history: the version that inserted a row last              *)
  cache,     (* Store._cameras: None, or [rows, version]                   *)
  req,       (* the request that each thread runs                          *)
  video,     (* the pipeline of the video process                          *)
  budget     (* what is left of CameraCalls                                *)

registryVars == <<table, version, changed, inserted, cache, req, video, budget>>

-----------------------------------------------------------------------------
Row    == [on: BOOLEAN, uri: Nat]
Absent == [on |-> FALSE, uri |-> 0]   (* rows have addresses above 0       *)
Exists(rows) == {i \in Ids : rows[i] # Absent}
Live(rows) ==                         (* enabled, and the first of them    *)
  LET on == {i \in Ids : rows[i].on}
  IN  {i \in on : Cardinality({j \in on : j < i}) < MaxStreams}

Adds    == {"put", "add", "batch", "import"}
Patches == {"disable", "edit"}   (* edit: any column but enabled         *)
Ops     == Adds \cup Patches \cup {"delete", "view", "build", "none"}
Removes == {"disable", "delete"}
Pcs     == {"idle", "exists", "look", "fetch", "fill", "get", "write", "invalidate",
            "notify", "raise", "poll", "start"}
Thens   == {"plan", "guard", "view", "build"}

Idle == [pc |-> "idle", op |-> "none", then |-> "view", ids |-> {}, rows |-> [i \in Ids |-> Absent],
         looked |-> 0, listed |-> 0]

StoreOf(t) == IF t \in ApiThreads THEN Api ELSE IF t \in Commands THEN t ELSE Video

Set(t, r)   == req' = [req EXCEPT ![t] = r]
Move(t, pc) == Set(t, [req[t] EXCEPT !.pc = pc])
Done(t)     == Set(t, Idle)
At(t, pc)   == req[t].pc = pc
Spend(kind) == budget[kind] > 0 /\ budget' = [budget EXCEPT ![kind] = @ - 1]

tables == <<table, version, changed, inserted>>

RegistryInit ==
  /\ \E rows \in SUBSET (Ids \cap {1}) :
       /\ table = [i \in Ids |-> IF i \in rows THEN [on |-> TRUE, uri |-> 1] ELSE Absent]
       /\ video = [shown |-> rows, flag |-> FALSE, playing |-> rows, missed |-> FALSE]
  /\ version = 0
  /\ changed = [i \in Ids |-> 0] /\ inserted = 0
  /\ cache = [s \in Stores |-> None]
  /\ req = [t \in Threads |-> Idle]
  /\ budget \in CameraCalls

-----------------------------------------------------------------------------
(* Requests.                                                               *)

(* Threads of a pool are interchangeable: the first one that is free.      *)
Begin(t, op, ids, pc, then) ==
  /\ At(t, "idle")
  /\ t \in ApiThreads => \A u \in ApiThreads : u < t => ~At(u, "idle")
  /\ Set(t, [Idle EXCEPT !.op = op, !.ids = ids, !.pc = pc, !.then = then])
  /\ UNCHANGED <<tables, cache, video>>

(* The Store of a command is new: nothing is cached in it.                 *)
Request(t) ==
  /\ t \in Requesters /\ Spend("request")
  /\ \/ \E i \in Ids :
          \/ t \in ApiThreads /\ Begin(t, "put", {i}, "look", "guard")
          \/ t \in Commands /\ Begin(t, "add", {i}, "exists", "guard")
          \/ \E op \in Patches : Begin(t, op, {i}, "get", "view")
          \/ Begin(t, "delete", {i}, "write", "view")
     \/ /\ t \in ApiThreads
        /\ \E op \in {"batch", "import"} : Begin(t, op, {}, "look", "plan")

(* A list for its own sake: the console, the ring supervisor.              *)
View(t) ==
  /\ \/ t \in ApiThreads /\ Spend("view")
     \/ t = RingThread /\ Spend("ring")
  /\ Begin(t, "view", {}, "look", "view")

(* `cameras add --id`: the command stops when the id is taken.             *)
CheckExists(t) ==
  /\ At(t, "exists")
  /\ IF \E i \in req[t].ids : table[i] # Absent
     THEN Done(t)
     ELSE Set(t, [req[t] EXCEPT !.pc = "look", !.looked = version])
  /\ UNCHANGED <<tables, cache, video, budget>>

-----------------------------------------------------------------------------
(* list_cameras().                                                         *)

(* guard_capacity.                                                         *)
ExistingOnly(existing, new) == Cardinality(existing) <= MaxStreams  (* mutant *)
Fits(existing, new) == Cardinality(existing \cup new) <= MaxStreams

(* alloc_test_ids takes the first free numbers; the id of an imported      *)
(* camera is a fresh UUID, which is in no table and in no other request.   *)
NewIds(t, existing) ==
  IF req[t].op = "batch"
  THEN {i \in Ids \ existing : Cardinality({j \in Ids \ existing : j < i}) < 1}
  ELSE LET free == {i \in Ids \ existing : table[i] = Absent /\ \A u \in Threads : i \notin req[u].ids}
       IN  {i \in free : \A j \in free : j >= i}

(* What the caller of list_cameras does with the list.                     *)
Use(t, rows, ver) ==
  LET r   == req[t]
      new == NewIds(t, Exists(rows))
  IN  \/ /\ r.then = "plan"
         /\ IF new = {} \/ ~Fits(Exists(rows), new)
            THEN Done(t)
            ELSE Set(t, [r EXCEPT !.pc = "look", !.then = "guard", !.ids = new, !.looked = ver])
         /\ UNCHANGED video
      \/ /\ r.then = "guard"
         /\ IF Fits(Exists(rows), r.ids)
            THEN Set(t, [r EXCEPT !.pc = "write", !.listed = ver])
            ELSE Done(t)
         /\ UNCHANGED video
      \/ /\ r.then = "build"
         /\ video' = [video EXCEPT !.shown = Live(rows)]
         /\ Set(t, [r EXCEPT !.pc = "start", !.ids = Live(rows)])
      \/ r.then = "view" /\ Done(t) /\ UNCHANGED video

Look(t) ==
  /\ At(t, "look")
  /\ LET cached == cache[StoreOf(t)]
     IN  \/ cached # None /\ Use(t, cached.rows, cached.version)
         \/ Move(t, "fetch") /\ UNCHANGED video
  /\ UNCHANGED <<tables, cache, budget>>

Fetch(t) ==
  /\ At(t, "fetch")
  /\ Set(t, [req[t] EXCEPT !.pc = "fill", !.rows = table, !.listed = version])
  /\ UNCHANGED <<tables, cache, video, budget>>

(* The cache is filled even when it was invalidated since the table was    *)
(* read.                                                                   *)
Fill(t) ==
  /\ At(t, "fill")
  /\ cache' = [cache EXCEPT ![StoreOf(t)] = [rows |-> req[t].rows, version |-> req[t].listed]]
  /\ Use(t, req[t].rows, req[t].listed)
  /\ UNCHANGED <<tables, budget>>

-----------------------------------------------------------------------------
(* patch_camera() reads the row in one transaction and writes all of its   *)
(* columns in another.                                                     *)

Get(t) ==
  /\ At(t, "get")
  /\ \E i \in req[t].ids :
       IF table[i] = Absent
       THEN Done(t)
       ELSE Set(t, [req[t] EXCEPT !.pc = "write", !.rows[i] = table[i], !.looked = version])
  /\ UNCHANGED <<tables, cache, video, budget>>

NewUri == version + 2
Written(t, i) ==
  CASE req[t].op \in Adds    -> [on |-> TRUE, uri |-> NewUri]
    [] req[t].op = "disable" -> [req[t].rows[i] EXCEPT !.on = FALSE]
    [] req[t].op = "edit"    -> [req[t].rows[i] EXCEPT !.uri = NewUri]
    [] req[t].op = "delete"  -> Absent

(* upsert_many() and delete_camera(): one transaction.                     *)
WriteRows(t) ==
  /\ At(t, "write")
  /\ LET ids == req[t].ids
     IN  IF req[t].op = "delete" /\ \A i \in ids : table[i] = Absent
         THEN Done(t) /\ UNCHANGED tables
         ELSE /\ table' = [i \in Ids |-> IF i \in ids THEN Written(t, i) ELSE table[i]]
              /\ version' = version + 1
              /\ changed' = [i \in Ids |-> IF i \in ids THEN version' ELSE changed[i]]
              /\ inserted' = IF Exists(table') \subseteq Exists(table) THEN inserted ELSE version'
              /\ Move(t, "invalidate")
  /\ UNCHANGED <<cache, video, budget>>

Invalidate(t) ==
  /\ At(t, "invalidate")
  /\ cache' = [cache EXCEPT ![StoreOf(t)] = None]
  /\ Move(t, "notify")
  /\ UNCHANGED <<tables, video, budget>>

-----------------------------------------------------------------------------
(* notify_reload() and reload_pipeline_drop_camera().                      *)

(* request_reload() in the video process drops the cache, lists the        *)
(* cameras and writes those it wants into the status; the flag comes after.*)
Notify(t) ==
  /\ At(t, "notify")
  /\ cache' = [cache EXCEPT ![Video] = [rows |-> table, version |-> version]]
  /\ video' = [video EXCEPT !.shown = Live(table)]
  /\ Move(t, "raise")
  /\ UNCHANGED <<tables, budget>>

Raise(t) ==
  /\ At(t, "raise")
  /\ video' = [video EXCEPT !.flag = TRUE, !.missed = @ \/ req[Loop].op = "build"]
  /\ IF req[t].op \in Removes
     THEN Set(t, [Idle EXCEPT !.op = req[t].op, !.ids = req[t].ids, !.pc = "poll"])
     ELSE Done(t)
  /\ UNCHANGED <<tables, cache, budget>>

(* The video process does not answer.                                      *)
VideoFails(t) ==
  /\ At(t, "notify") /\ Spend("fault")
  /\ Done(t)
  /\ UNCHANGED <<tables, cache, video>>

OutOfStatus(t) == req[t].ids \cap video.shown = {}  (* mutant *)
Left(t) == req[t].ids \cap video.shown = {} /\ ~video.flag

PollStatus(t) ==
  /\ At(t, "poll") /\ Left(t)
  /\ Done(t)
  /\ UNCHANGED <<tables, cache, video, budget>>

(* After 15 s, or when the status cannot be read: it names no camera then. *)
StopWaiting(t) ==
  /\ At(t, "poll") /\ Done(t)
  /\ UNCHANGED <<tables, cache, video, budget>>

(* PipelineManager._loop: the flag ends the flow, the cameras are listed,  *)
(* and the flag is cleared when the next flow starts.  Without cameras it  *)
(* stays, and the loop goes round.                                         *)
Reload ==
  /\ At(Loop, "idle") /\ video.flag
  /\ video' = [video EXCEPT !.playing = {}, !.missed = FALSE]
  /\ cache' = [cache EXCEPT ![Video] = None]
  /\ Set(Loop, [Idle EXCEPT !.op = "build", !.pc = "look", !.then = "build"])
  /\ UNCHANGED <<tables, budget>>

StartFlow ==
  /\ At(Loop, "start")
  /\ video' = [video EXCEPT !.playing = req[Loop].ids, !.flag = @ /\ req[Loop].ids = {}]
  /\ Done(Loop)
  /\ UNCHANGED <<tables, cache, budget>>

RegistryStep(t) ==
  \/ CheckExists(t) \/ Look(t) \/ Fetch(t) \/ Fill(t)
  \/ Get(t) \/ WriteRows(t) \/ Invalidate(t)
  \/ Notify(t) \/ Raise(t) \/ VideoFails(t) \/ PollStatus(t) \/ StopWaiting(t)

RegistryNext ==
  \/ \E t \in Threads : Request(t) \/ View(t) \/ RegistryStep(t)
  \/ Reload \/ StartFlow

RegistrySpec == RegistryInit /\ [][RegistryNext]_registryVars

-----------------------------------------------------------------------------
Requests ==
  [pc: Pcs, op: Ops, then: Thens, ids: SUBSET Ids, rows: [Ids -> Row],
   looked: Nat, listed: Nat]
Lists == [rows: [Ids -> Row], version: Nat]

(* Types.                                                                  *)
RegistryTypeOK ==
  /\ table \in [Ids -> Row] /\ version \in Nat
  /\ changed \in [Ids -> Nat] /\ inserted \in Nat
  /\ \A s \in Stores : cache[s] = None \/ cache[s] \in Lists
  /\ req \in [Threads -> Requests]
  /\ video \in [shown: SUBSET Ids, flag: BOOLEAN, playing: SUBSET Ids, missed: BOOLEAN]
  /\ budget \in [{"request", "view", "ring", "fault"} -> Nat]

(* A write of a request is right by what the request has seen.  PATCH      *)
(* keeps the other column and brings no deleted camera back, and a test    *)
(* batch, an import and `cameras add` overwrite nothing, unless the row    *)
(* has changed since they looked (patch_camera, upsert_many).  And         *)
(* max_streams (guard_capacity) is exceeded only when another camera was   *)
(* inserted after the list, which may be an old one, was read.             *)
WritesAsSeen ==
  [][ \A t \in Requesters :
        At(t, "write") /\ req'[t].pc = "invalidate" =>
          /\ \A i \in req[t].ids : changed[i] <= req[t].looked =>
               /\ req[t].op = "edit" => table[i] # Absent /\ table'[i].on = table[i].on
               /\ req[t].op = "disable" => table[i] # Absent /\ table'[i].uri = table[i].uri
               /\ req[t].op \in {"add", "batch", "import"} => table[i] = Absent
          /\ (/\ req[t].op \in Adds /\ inserted <= req[t].listed
              /\ Cardinality(Exists(table')) > Cardinality(Exists(table)))
             => Cardinality(Exists(table')) <= MaxStreams ]_registryVars

(* The API tells that a camera has left the pipeline (status without it,   *)
(* no reload pending) when it plays no more, unless a reload came while a  *)
(* pipeline was being set up (StartFlow clears the flag of that one too),  *)
(* or another request is between the two halves of its own.                *)
DropMeansGone ==
  \A t \in Requesters :
    At(t, "poll") /\ Left(t) /\ ~video.missed /\ (\A u \in Requesters : ~At(u, "raise"))
      => req[t].ids \cap video.playing = {}
=============================================================================
