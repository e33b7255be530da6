---------------------------- MODULE SettingsFile ----------------------------
(***************************************************************************)
(* settings.json and the copy that every process keeps of it (class Store  *)
(* of storage.py).  The API process and a command of the CLI change it:    *)
(* they re-read it when its mtime differs from the one they remember,      *)
(* patch their copy and publish the whole of it through settings.json.tmp, *)
(* whose path all of them share.  The video process re-reads it in its     *)
(* loop.  A process that finds no file writes the defaults, and one that   *)
(* finds an obsolete detector model writes the file back normalised.       *)
(*                                                                         *)
(* The lock of a Store keeps the threads of one process apart, so a        *)
(* process runs one request at a time here.  A file is an inode: opening   *)
(* the temporary file truncates the one that is there, and a writer that   *)
(* has opened it goes on writing into it after another has renamed it.     *)
(***************************************************************************)
EXTENDS Integers, FiniteSets

CONSTANTS
  Api, Video,   (* the processes that stay                                 *)
  Commands,     (* commands of the CLI, each a process of its own          *)
  Fields,       (* the settings                                            *)
  None,         (* no file                                                 *)
  SettingsCalls (* BOUND: changes and crashes of a behaviour that begins   *)
                (* with both processes up, and of one that begins with     *)
                (* them starting                                           *)

Residents == {Api, Video}
Pollers   == {Video}                (* it only reads the settings          *)
Procs     == Residents \cup Commands

ASSUME SettingsAssumption ==
  /\ Api # Video /\ Residents \cap Commands = {} /\ IsFiniteSet(Commands)
  /\ SettingsCalls \in [{"up", "starting"} -> Nat] /\ None \notin Nat

VARIABLES
  inodes,   (* what the files hold: [text, whole, mtime]                   *)
  path,     (* the inode that settings.json names                          *)
  tmp,      (* the inode that settings.json.tmp names                      *)
  memory,   (* Store._settings and Store._settings_mtime of each process   *)
  step,     (* where the request of each process is                        *)
  phase,    (* the method of Store it is in                                *)
  patch,    (* the fields it changes                                       *)
  text,     (* the settings it has read or is about to write               *)
  fd,       (* the temporary file it has opened                            *)
  ticks,    (* the clock of mtimes and of new values                       *)
  calls,    (* what is left of SettingsCalls                               *)
  met,      (* history: another process wrote during a request of this one *)
            (* since it last began to read the file                        *)
  clashed   (* history: two processes had the temporary file open at once  *)

files        == <<inodes, path, tmp, ticks>>
settingsVars == <<inodes, path, tmp, memory, step, phase, patch, text, fd,
                  ticks, calls, met, clashed>>

-----------------------------------------------------------------------------
(* The field legacy stands for a detector_model that is used no more.      *)
Texts    == [val: [Fields -> Nat], legacy: BOOLEAN]
Defaults == [val |-> [f \in Fields |-> 0], legacy |-> FALSE]
Unknown  == [text |-> Defaults, mtime |-> 0]
Blank    == [text |-> Defaults, whole |-> FALSE, mtime |-> 0]

Steps   == {"off", "idle", "stat", "load", "stamp", "merge", "open", "write", "rename", "settle"}
Writing == {"write", "rename"}
Phases  == {"make", "get", "update"}  (* Store(), get_settings, update_settings *)

Mtime == IF path = None THEN 0 ELSE inodes[path].mtime
File  == inodes[path].text

Resting(p) == IF p \in Residents THEN "idle" ELSE "off"

(* Others whose request is under way miss what p writes.                   *)
MetBy(p) == [q \in Procs |-> met[q] \/ (q # p /\ step[q] \notin {"off", "idle"})]

(* Either the residents have loaded the file, or they are about to start   *)
(* and find a file with a legacy model, or none.                           *)
SettingsInit ==
  /\ \E there \in BOOLEAN, legacy \in BOOLEAN :
       LET file == [text |-> [Defaults EXCEPT !.legacy = legacy], whole |-> TRUE, mtime |-> 1]
           up   == there /\ ~legacy
       IN  /\ inodes = [n \in IF there THEN {1} ELSE {} |-> file]
           /\ calls = SettingsCalls[IF up THEN "up" ELSE "starting"]
           /\ path = IF there THEN 1 ELSE None
           /\ memory = [p \in Procs |-> IF up /\ p \in Residents
                                        THEN [text |-> Defaults, mtime |-> 1] ELSE Unknown]
           /\ step = [p \in Procs |-> IF up THEN Resting(p) ELSE "off"]
           /\ phase = [p \in Procs |-> IF up /\ p \in Residents THEN "get" ELSE "make"]
  /\ tmp = None
  /\ patch = [p \in Procs |-> {}]
  /\ text = [p \in Procs |-> Defaults]
  /\ fd = [p \in Procs |-> None]
  /\ ticks = 1
  /\ met = [p \in Procs |-> FALSE]
  /\ clashed = FALSE

-----------------------------------------------------------------------------
(* Where a method of Store returns to: the constructor to get_settings of  *)
(* the same command, get_settings to update_settings of a change.          *)
Forget(p) == text' = [text EXCEPT ![p] = Defaults]
Keep(p, m) == memory' = [memory EXCEPT ![p] = m]

Return(p, m) ==
  /\ Forget(p)
  /\ IF patch[p] = {} \/ phase[p] = "update"
     THEN /\ step' = [step EXCEPT ![p] = Resting(p)]
          /\ phase' = [phase EXCEPT ![p] = IF p \in Residents THEN "get" ELSE "make"]
          /\ patch' = [patch EXCEPT ![p] = {}]
          /\ Keep(p, IF p \in Residents THEN m ELSE Unknown)
     ELSE /\ step' = [step EXCEPT ![p] = IF phase[p] = "make" THEN "stat" ELSE "merge"]
          /\ phase' = [phase EXCEPT ![p] = IF @ = "make" THEN "get" ELSE "update"]
          /\ Keep(p, m)
          /\ UNCHANGED patch

Goto(p, s) == step' = [step EXCEPT ![p] = s] /\ UNCHANGED <<phase, patch>>

(* An exception: the request fails, and a process that was starting ends.  *)
Fail(p) ==
  /\ step' = [step EXCEPT ![p] = IF phase[p] = "make" THEN "off" ELSE Resting(p)]
  /\ phase' = [phase EXCEPT ![p] = IF step'[p] = "off" THEN "make" ELSE "get"]
  /\ patch' = [patch EXCEPT ![p] = {}]
  /\ Forget(p) /\ (IF step'[p] = "off" THEN Keep(p, Unknown) ELSE UNCHANGED memory)

StartLoad(p) == met' = [met EXCEPT ![p] = FALSE]

(* get_store() of a process that starts.                                   *)
Boot(p) ==
  /\ p \in Residents /\ step[p] = "off"
  /\ Goto(p, "load") /\ StartLoad(p)
  /\ UNCHANGED <<files, memory, text, fd, calls, clashed>>

(* get_settings() for its own sake: the loop of the pipeline.              *)
Poll(p) ==
  /\ p \in Pollers /\ step[p] = "idle"
  /\ Goto(p, "stat")
  /\ UNCHANGED <<files, memory, text, fd, calls, met, clashed>>

(* PUT and PATCH /api/v1/settings; `settings set` of the CLI.              *)
Change(p, fields) ==
  /\ calls > 0 /\ p \notin Pollers /\ step[p] = Resting(p)
  /\ calls' = calls - 1
  /\ patch' = [patch EXCEPT ![p] = fields]
  /\ step' = [step EXCEPT ![p] = IF p \in Residents THEN "stat" ELSE "load"]
  /\ met' = [met EXCEPT ![p] = @ /\ p \in Residents]
  /\ UNCHANGED <<files, memory, phase, text, fd, clashed>>

(* A process dies, whatever it was doing.                                  *)
Crash(p) ==
  /\ calls > 0 /\ step[p] # "off"
  /\ calls' = calls - 1
  /\ step' = [step EXCEPT ![p] = "off"]
  /\ phase' = [phase EXCEPT ![p] = "make"]
  /\ patch' = [patch EXCEPT ![p] = {}]
  /\ Forget(p) /\ Keep(p, Unknown)
  /\ fd' = [fd EXCEPT ![p] = None]
  /\ UNCHANGED <<files, met, clashed>>

-----------------------------------------------------------------------------
(* get_settings() and _load_settings().                                    *)

NeverReloads(p) == FALSE  (* mutant *)
MustReload(p) == Mtime # memory[p].mtime

Stat(p) ==
  /\ step[p] = "stat"
  /\ IF MustReload(p)
     THEN Goto(p, "load") /\ StartLoad(p) /\ UNCHANGED <<text, memory>>
     ELSE Return(p, memory[p]) /\ UNCHANGED met
  /\ UNCHANGED <<files, fd, calls, clashed>>

Load(p) ==
  /\ step[p] = "load"
  /\ IF path = None
     THEN text' = [text EXCEPT ![p] = Defaults] /\ Goto(p, "open") /\ UNCHANGED memory
     ELSE IF inodes[path].whole
     THEN text' = [text EXCEPT ![p] = File] /\ Goto(p, "stamp") /\ UNCHANGED memory
     ELSE Fail(p)
  /\ UNCHANGED <<files, fd, calls, met, clashed>>

Loaded(p) == [text |-> text[p], mtime |-> Mtime]

(* The mtime is taken after the text was read.                             *)
Stamp(p) ==
  /\ step[p] = "stamp"
  /\ IF text[p].legacy
     THEN /\ text' = [text EXCEPT ![p].legacy = FALSE]
          /\ Keep(p, [memory[p] EXCEPT !.mtime = Mtime])
          /\ Goto(p, "open")
     ELSE Return(p, Loaded(p))
  /\ UNCHANGED <<files, fd, calls, met, clashed>>

-----------------------------------------------------------------------------
(* update_settings() and _write_json().                                    *)

(* The copy in memory is patched, not the file.                            *)
Patched(p) == [val    |-> [f \in Fields |-> IF f \in patch[p] THEN ticks + 1
                                                              ELSE memory[p].text.val[f]],
               legacy |-> FALSE]

Merge(p) ==
  /\ step[p] = "merge"
  /\ text' = [text EXCEPT ![p] = Patched(p)]
  /\ Keep(p, [memory[p] EXCEPT !.text = Patched(p)])
  /\ ticks' = ticks + 1
  /\ Goto(p, "open")
  /\ UNCHANGED <<inodes, path, tmp, fd, calls, met, clashed>>

(* A file that no name and no writer holds is no more.                     *)
Held  == ({path, tmp} \cup {fd[p] : p \in Procs}) \ {None}
Fresh == CHOOSE n \in 1..(Cardinality(Held) + 1) : n \notin Held

Open(p) ==
  /\ step[p] = "open"
  /\ ticks' = ticks + 1
  /\ LET new == IF tmp = None THEN Fresh ELSE tmp
     IN  /\ inodes' = [n \in DOMAIN inodes \cup {new} |->
                         IF n = new THEN [Blank EXCEPT !.mtime = ticks'] ELSE inodes[n]]
         /\ tmp' = new
         /\ fd' = [fd EXCEPT ![p] = new]
  /\ Goto(p, "write")
  /\ met' = MetBy(p)
  /\ clashed' = (clashed \/ \E q \in Procs \ {p} : step[q] \in Writing)
  /\ UNCHANGED <<path, memory, text, calls>>

(* Into a file that another has filled since, a shorter text leaves a tail.*)
Write(p) ==
  /\ step[p] = "write"
  /\ ticks' = ticks + 1
  /\ \E whole \in BOOLEAN :
       /\ ~whole => inodes[fd[p]].text # Defaults \/ inodes[fd[p]].whole
       /\ inodes' = [inodes EXCEPT ![fd[p]] = [text |-> text[p], whole |-> whole, mtime |-> ticks']]
  /\ Goto(p, "rename")
  /\ met' = MetBy(p)
  /\ UNCHANGED <<path, tmp, memory, text, fd, calls, clashed>>

(* replace() moves whatever the shared name holds, or finds it gone.       *)
Rename(p) ==
  /\ step[p] = "rename"
  /\ fd' = [fd EXCEPT ![p] = None]
  /\ IF tmp = None
     THEN Fail(p) /\ UNCHANGED <<path, tmp, met>>
     ELSE /\ path' = tmp /\ tmp' = None
          /\ met' = MetBy(p)
          /\ Goto(p, "settle")
          /\ UNCHANGED <<text, memory>>
  /\ UNCHANGED <<inodes, ticks, calls, clashed>>

Settle(p) ==
  /\ step[p] = "settle"
  /\ Return(p, Loaded(p))
  /\ UNCHANGED <<files, fd, calls, met, clashed>>

SettingsStep(p) ==
  \/ Stat(p) \/ Load(p) \/ Stamp(p) \/ Merge(p)
  \/ Open(p) \/ Write(p) \/ Rename(p) \/ Settle(p)

SettingsNext ==
  \E p \in Procs :
    \/ Boot(p) \/ Poll(p) \/ Crash(p) \/ SettingsStep(p)
    \/ \E f \in Fields : Change(p, {f})

(* Threads run; processes are restarted and the loop of video goes on      *)
(* reading.                                                                *)
SettingsFairness ==
  \A p \in Procs : /\ WF_settingsVars(SettingsStep(p))
                   /\ p \in Residents => WF_settingsVars(Boot(p))
                   /\ p \in Pollers => WF_settingsVars(Poll(p))

SettingsSpec == SettingsInit /\ [][SettingsNext]_settingsVars /\ SettingsFairness

-----------------------------------------------------------------------------
(* Types.                                                                  *)
SettingsTypeOK ==
  /\ \A n \in DOMAIN inodes : inodes[n] \in [text: Texts, whole: BOOLEAN, mtime: Nat]
  /\ {path, tmp} \subseteq DOMAIN inodes \cup {None}
  /\ memory \in [Procs -> [text: Texts, mtime: Nat]]
  /\ step \in [Procs -> Steps] /\ phase \in [Procs -> Phases]
  /\ patch \in [Procs -> SUBSET Fields]
  /\ text \in [Procs -> Texts]
  /\ fd \in [Procs -> DOMAIN inodes \cup {None}]
  /\ ticks \in Nat /\ calls \in Nat
  /\ met \in [Procs -> BOOLEAN] /\ clashed \in BOOLEAN

(* What a process publishes differs from what was there in the fields it   *)
(* was asked to change, unless another process wrote since it read the     *)
(* file: update_settings() patches the copy in memory.                     *)
ChangesSurvive ==
  [][ \A p \in Procs :
        (/\ step[p] = "rename" /\ step'[p] = "settle"
         /\ path # None /\ ~met[p])
        => \A f \in Fields \ patch[p] :
             inodes'[path'].text.val[f] = inodes[path].text.val[f] ]_settingsVars

(* Once nobody changes settings any more the video process has those of    *)
(* the file, unless another process wrote while it was reading them        *)
(* (docs/cli.html:412, "the video process re-reads the configuration").    *)
PollersHear ==
  \A p \in Pollers : <>[](met[p] \/ clashed \/ (path # None /\ memory[p].text = File))
=============================================================================
