-------------------------------- MODULE LabRun --------------------------------
(***************************************************************************)
(* The record of a run of the scenario lab (app/scenario_lab_run.py,       *)
(* app/scenario_lab.py): the thread that replays incident clips through    *)
(* the detector, run.json, which the console reads, and the verdicts.      *)
(* What the run does to the live pipeline is in VideoControl.              *)
(***************************************************************************)
EXTENDS Naturals

CONSTANTS
  Clips,    (* incidents with a clip in the history                        *)
  KindOf,   (* of each clip: its scenario has a model, none, or is silence *)
  LabCalls  (* BOUND: starts, cancels and faults                           *)

ClipKinds == {"ready", "no_model", "stream_silent"}

ASSUME LabAssumption ==
  /\ KindOf \in [Clips -> ClipKinds]
  /\ LabCalls \in [{"start", "cancel", "fault"} -> Nat]

Unjudged == "none"

(* judge() of what the detector has found in a clip.                       *)
Judged(c) == CASE KindOf[c] = "ready"         -> {"hit", "miss"}
               [] KindOf[c] = "no_model"      -> {"hit", "no_model"}
               [] KindOf[c] = "stream_silent" -> {"file_skip"}

(* A clip that is missing, empty or too large, or does not play.           *)
Unplayable == {"error"}

(* What a request may find in the history: clips, or none (refused).       *)
Selections == (SUBSET Clips) \ {{}}

LabVerdicts == {"hit", "miss", "no_model", "file_skip", "cancelled", "error",
                Unjudged}
RunStates   == {"idle", "running", "done", "cancelled", "error"}

VARIABLES
  run,       (* run.json: [status, results]                                *)
  chosen,    (* clips of the run                                           *)
  starting,  (* clips of a request between running() and _cancel.clear()   *)
  labThread, (* [at, todo, playing, results]: the thread and its own copy  *)
  cancelled, (* _cancel                                                    *)
  labUp,     (* the process: up, stopping (_shutdown) or down              *)
  unwritten, (* history: not even the error of a run could be written      *)
  pressed    (* what is left of LabCalls                                   *)

labVars == <<run, chosen, starting, labThread, cancelled, labUp, unwritten, pressed>>

NoLabThread == [at |-> "none", todo |-> {}, playing |-> Unjudged,
                results |-> [c \in Clips |-> Unjudged]]

LabInit ==
  /\ run = [status |-> "idle", results |-> NoLabThread.results]
  /\ chosen = {} /\ starting = {}
  /\ labThread = NoLabThread
  /\ cancelled = FALSE /\ labUp = "up" /\ unwritten = FALSE
  /\ pressed = LabCalls

Press(kind) == pressed[kind] > 0 /\ pressed' = [pressed EXCEPT ![kind] = @ - 1]
LabAt(pc)   == labUp # "down" /\ labThread.at = pc

-----------------------------------------------------------------------------
(* start_run(), which holds _lock: refused while a thread is alive or when *)
(* there is no clip.                                                       *)
StartChecks ==
  /\ labUp = "up" /\ starting = {} /\ labThread.at = "none"
  /\ Press("start")
  /\ starting' \in Selections
  /\ UNCHANGED <<run, chosen, labThread, cancelled, labUp, unwritten>>

(* Verdicts of the chosen clips are forgotten, the others stay.            *)
StartRuns ==
  /\ labUp = "up" /\ starting # {}
  /\ starting' = {} /\ chosen' = starting
  /\ cancelled' = FALSE
  /\ run' = [status  |-> "running",
             results |-> [c \in Clips |-> IF c \in starting THEN Unjudged ELSE run.results[c]]]
  /\ labThread' = [NoLabThread EXCEPT !.at = "begin", !.todo = starting]
  /\ UNCHANGED <<labUp, unwritten, pressed>>

CancelRun ==
  /\ labUp = "up" /\ ~cancelled
  /\ Press("cancel")
  /\ cancelled' = TRUE
  /\ UNCHANGED <<run, chosen, starting, labThread, labUp, unwritten>>

-----------------------------------------------------------------------------
(* _loop().  _finish() writes a status; the thread then resumes the live   *)
(* pipeline and is alive until it has done so.                             *)
Finishes(status) ==
  /\ run' = [status |-> status, results |-> labThread.results]
  /\ labThread' = [labThread EXCEPT !.at = "resume", !.playing = Unjudged]

(* No licence, no DeepStream, or a live pipeline that does not stop.       *)
BeginRun ==
  /\ LabAt("begin")
  /\ \/ /\ labThread' = [labThread EXCEPT !.at = "next", !.results = run.results]
        /\ UNCHANGED run
     \/ /\ run' = [run EXCEPT !.status = "error"]
        /\ labThread' = [labThread EXCEPT !.at = "resume"]
  /\ UNCHANGED <<chosen, starting, cancelled, labUp, unwritten, pressed>>

Ending     == IF cancelled THEN "cancelled" ELSE "done"

NextClip ==
  /\ LabAt("next")
  /\ IF labThread.todo = {}
     THEN Finishes(Ending)
     ELSE IF cancelled
     THEN Finishes("cancelled")
     ELSE /\ \E c \in labThread.todo :
               labThread' = [labThread EXCEPT !.at = "play", !.playing = c, !.todo = @ \ {c}]
          /\ UNCHANGED run
  /\ UNCHANGED <<chosen, starting, cancelled, labUp, unwritten, pressed>>

(* _play_one(): the file is missing or does not play, the run has been     *)
(* cancelled, the clip is longer than the limit, or it is judged.          *)
PlayedClip ==
  /\ LabAt("play")
  /\ \E v \in Unplayable \cup (IF cancelled THEN {"cancelled"} ELSE Judged(labThread.playing)) :
       labThread' = [labThread EXCEPT !.at = "write", !.results[labThread.playing] = v]
  /\ UNCHANGED <<run, chosen, starting, cancelled, labUp, unwritten, pressed>>

WriteResult ==
  /\ LabAt("write")
  /\ run' = [run EXCEPT !.results = labThread.results]
  /\ labThread' = [labThread EXCEPT !.at = "next", !.playing = Unjudged]
  /\ UNCHANGED <<chosen, starting, cancelled, labUp, unwritten, pressed>>

(* run.json cannot be written: the run ends with this error.  When that    *)
(* cannot be written either, or when it was the first write of the thread, *)
(* which is outside its try (scenario_lab_run.py:175), the record stays.   *)
WriteFails ==
  /\ labUp # "down" /\ Press("fault")
  /\ \/ /\ labThread.at \in {"begin", "next", "write"}
        /\ labThread' = [labThread EXCEPT !.at = "failed"]
        /\ UNCHANGED unwritten
     \/ /\ labThread.at = "failed"
        /\ labThread' = [labThread EXCEPT !.at = "resume"]
        /\ unwritten' = TRUE
     \/ /\ labThread.at = "begin"
        /\ labThread' = NoLabThread
        /\ unwritten' = TRUE
  /\ UNCHANGED <<run, chosen, starting, cancelled, labUp>>

WriteError ==
  /\ LabAt("failed")
  /\ Finishes("error")
  /\ UNCHANGED <<chosen, starting, cancelled, labUp, unwritten, pressed>>

ResumeLive ==
  /\ LabAt("resume")
  /\ labThread' = NoLabThread
  /\ UNCHANGED <<run, chosen, starting, cancelled, labUp, unwritten, pressed>>

-----------------------------------------------------------------------------
(* shutdown_run(): the thread has 8 s to end, and may be killed after.     *)
ShutdownRun ==
  /\ labUp = "up" /\ starting = {}
  /\ Press("fault")
  /\ labUp' = "stopping" /\ cancelled' = TRUE
  /\ UNCHANGED <<run, chosen, starting, labThread, unwritten>>

(* The end of a shutdown, or an exit at any point (a hung pipeline).       *)
VideoEnds ==
  /\ \/ labUp = "stopping" /\ UNCHANGED pressed
     \/ labUp = "up" /\ Press("fault")
  /\ labUp' = "down" /\ cancelled' = FALSE
  /\ starting' = {} /\ labThread' = NoLabThread
  /\ UNCHANGED <<run, chosen, unwritten>>

(* "A restarted video process cannot still be inside a lab pipeline."      *)
NeverStale == FALSE  (* mutant *)
StaleRun   == run.status = "running"

MarkStaleRun ==
  /\ labUp = "down"
  /\ labUp' = "up"
  /\ run' = IF StaleRun THEN [run EXCEPT !.status = "error"] ELSE run
  /\ UNCHANGED <<chosen, starting, labThread, cancelled, unwritten, pressed>>

LabThreadStep ==
  \/ BeginRun \/ NextClip \/ PlayedClip \/ WriteResult \/ WriteError \/ ResumeLive

LabRunNext ==
  \/ StartChecks \/ StartRuns \/ CancelRun \/ WriteFails
  \/ LabThreadStep
  \/ ShutdownRun \/ VideoEnds \/ MarkStaleRun

(* The thread runs; a clip ends, at the latest by the limit of a file or   *)
(* by the watch that ends a hung pipeline; compose starts video again.     *)
LabFairness == WF_labVars(LabThreadStep) /\ WF_labVars(StartRuns)
               /\ WF_labVars(VideoEnds) /\ WF_labVars(MarkStaleRun)

LabSpec == LabInit /\ [][LabRunNext]_labVars /\ LabFairness

-----------------------------------------------------------------------------
(* Types.                                                                  *)
LabRunTypeOK ==
  /\ run \in [status: RunStates, results: [Clips -> LabVerdicts]]
  /\ chosen \subseteq Clips /\ starting \subseteq Clips
  /\ labThread.todo \subseteq Clips /\ labThread.results \in [Clips -> LabVerdicts]
  /\ labUp \in {"up", "stopping", "down"}

DoneMeansJudged ==
  run.status = "done" => \A c \in chosen : run.results[c] \notin {Unjudged, "cancelled"}

(* A run that says done has a verdict about every chosen clip, and none of *)
(* them because somebody had cancelled it: a request that starts another   *)
(* run and a cancel at the last clip do not mix with the run under way     *)
(* (scenario_lab_run.py:203, :289).  And the console does not show a run   *)
(* under way for ever: it ends, or the restart of the process that was     *)
(* inside it says so, unless not even its error could be written.          *)
RunEndsJudged == []DoneMeansJudged /\ <>[](run.status # "running" \/ unwritten)
=============================================================================
