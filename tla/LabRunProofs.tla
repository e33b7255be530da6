---------------------------- MODULE LabRunProofs ----------------------------
(***************************************************************************)
(* Theorems about the record of a lab run, for any clips and any number of *)
(* starts, cancels and faults.                                             *)
(***************************************************************************)
EXTENDS LabRun, TLAPS

USE LabAssumption

(* Where the thread is in a run, and which of its places have a clip.      *)
LabPlaces == {"none", "begin", "next", "play", "write", "failed", "resume"}
InRun     == {"begin", "next", "play", "write"}
WithClip  == {"play", "write"}

LabTypes ==
  /\ LabRunTypeOK
  /\ labThread \in [at : LabPlaces, todo : SUBSET Clips, playing : Clips \cup {Unjudged},
                    results : [Clips -> LabVerdicts]]
  /\ labThread.at \in WithClip => labThread.playing \in Clips
  /\ {cancelled, unwritten} \subseteq BOOLEAN
  /\ pressed \in [{"start", "cancel", "fault"} -> Nat]

-----------------------------------------------------------------------------
(* What a clip can be judged to be is a verdict of the record.             *)
LEMMA JudgedIsVerdict ==
  ASSUME NEW c \in Clips
  PROVE  /\ Judged(c) \subseteq LabVerdicts
         /\ Judged(c) \cap {Unjudged, "cancelled"} = {}
<1>1. KindOf[c] \in ClipKinds
  OBVIOUS
<1>2. CASE KindOf[c] = "ready"
  BY <1>2 DEF Judged, LabVerdicts, Unjudged
<1>3. CASE KindOf[c] = "no_model"
  BY <1>3 DEF Judged, LabVerdicts, Unjudged
<1>4. CASE KindOf[c] = "stream_silent"
  BY <1>4 DEF Judged, LabVerdicts, Unjudged
<1> QED
  BY <1>1, <1>2, <1>3, <1>4 DEF ClipKinds

-----------------------------------------------------------------------------
(* Types.                                                                  *)
LEMMA LabInitTypes == LabInit => LabTypes
<1> SUFFICES ASSUME LabInit PROVE LabTypes
  OBVIOUS
<1>1. NoLabThread \in [at : LabPlaces, todo : SUBSET Clips, playing : Clips \cup {Unjudged},
                       results : [Clips -> LabVerdicts]]
  BY DEF NoLabThread, LabPlaces, LabVerdicts
<1>2. run \in [status : RunStates, results : [Clips -> LabVerdicts]]
  BY <1>1 DEF LabInit, NoLabThread, RunStates, LabVerdicts
<1> QED
  BY <1>1, <1>2 DEF LabInit, LabTypes, LabRunTypeOK, NoLabThread, WithClip

LEMMA LabNextTypes == LabTypes /\ [LabRunNext]_labVars => LabTypes'
<1> SUFFICES ASSUME LabTypes, [LabRunNext]_labVars PROVE LabTypes'
  OBVIOUS
<1> USE DEF LabTypes, LabRunTypeOK, LabPlaces, WithClip, RunStates
<1>0. NoLabThread \in [at : LabPlaces, todo : SUBSET Clips, playing : Clips \cup {Unjudged},
                       results : [Clips -> LabVerdicts]]
  BY DEF NoLabThread, LabVerdicts
<1>1. ASSUME NEW kind \in {"start", "cancel", "fault"}, Press(kind)
      PROVE  pressed' \in [{"start", "cancel", "fault"} -> Nat]
  BY <1>1 DEF Press
<1>2. CASE StartChecks
  BY <1>1, <1>2 DEF StartChecks, Selections
<1>3. CASE StartRuns
  <2>1. [c \in Clips |-> IF c \in starting THEN Unjudged ELSE run.results[c]]
          \in [Clips -> LabVerdicts]
    BY DEF LabVerdicts
  <2>2. labThread' \in [at : LabPlaces, todo : SUBSET Clips, playing : Clips \cup {Unjudged},
                        results : [Clips -> LabVerdicts]]
    BY <1>0, <1>3 DEF StartRuns
  <2>3. labThread'.at = "begin"
    BY <1>0, <1>3 DEF StartRuns
  <2> QED
    BY <1>3, <2>1, <2>2, <2>3 DEF StartRuns
<1>4. CASE CancelRun
  BY <1>1, <1>4 DEF CancelRun
<1>5. ASSUME NEW status \in RunStates, Finishes(status)
      PROVE  /\ run' \in [status : RunStates, results : [Clips -> LabVerdicts]]
             /\ labThread' \in [at : LabPlaces, todo : SUBSET Clips, playing : Clips \cup {Unjudged},
                                results : [Clips -> LabVerdicts]]
             /\ labThread'.at = "resume"
  BY <1>5 DEF Finishes
<1>6. CASE BeginRun
  BY <1>6 DEF BeginRun, LabAt
<1>7. CASE NextClip
  <2>1. CASE Finishes(Ending) \/ Finishes("cancelled")
    BY <1>5, <1>7, <2>1 DEF NextClip, Ending
  <2>2. CASE /\ UNCHANGED run
             /\ \E c \in labThread.todo :
                  labThread' = [labThread EXCEPT !.at = "play", !.playing = c, !.todo = @ \ {c}]
    <3>1. PICK c \in labThread.todo :
            labThread' = [labThread EXCEPT !.at = "play", !.playing = c,
                                           !.todo = labThread.todo \ {c}]
      BY <2>2
    <3>2. labThread.todo \ {c} \in SUBSET Clips /\ c \in Clips
      OBVIOUS
    <3>3. /\ labThread' \in [at : LabPlaces, todo : SUBSET Clips, playing : Clips \cup {Unjudged},
                            results : [Clips -> LabVerdicts]]
          /\ labThread'.at = "play" /\ labThread'.playing = c
      BY <3>1, <3>2
    <3> QED
      BY <1>7, <2>2, <3>2, <3>3 DEF NextClip
  <2> QED
    BY <1>7, <2>1, <2>2 DEF NextClip
<1>8. CASE PlayedClip
  <2>1. PICK v \in Unplayable \cup (IF cancelled THEN {"cancelled"} ELSE Judged(labThread.playing)) :
              labThread' = [labThread EXCEPT !.at = "write", !.results[labThread.playing] = v]
    BY <1>8 DEF PlayedClip
  <2>2. labThread.playing \in Clips
    BY <1>8 DEF PlayedClip, LabAt
  <2>3. v \in LabVerdicts
    BY <2>1, <2>2, JudgedIsVerdict DEF Unplayable, LabVerdicts
  <2> QED
    BY <1>8, <2>1, <2>2, <2>3 DEF PlayedClip
<1>9. CASE WriteResult
  BY <1>9 DEF WriteResult
<1>10. CASE WriteFails
  BY <1>0, <1>1, <1>10 DEF WriteFails, NoLabThread
<1>11. CASE WriteError
  BY <1>5, <1>11 DEF WriteError
<1>12. CASE ResumeLive
  BY <1>0, <1>12 DEF ResumeLive, NoLabThread
<1>13. CASE ShutdownRun
  BY <1>1, <1>13 DEF ShutdownRun
<1>14. CASE VideoEnds
  BY <1>0, <1>1, <1>14 DEF VideoEnds, NoLabThread
<1>15. CASE MarkStaleRun
  BY <1>15 DEF MarkStaleRun
<1>16. CASE UNCHANGED labVars
  BY <1>16 DEF labVars
<1> QED
  BY <1>2, <1>3, <1>4, <1>6, <1>7, <1>8, <1>9, <1>10, <1>11, <1>12, <1>13, <1>14, <1>15, <1>16
     DEF LabRunNext, LabThreadStep

(* The fields of the record, of the thread and of the process keep their   *)
(* types in every behaviour.                                               *)
THEOREM LabTypeCorrect == LabSpec => []LabRunTypeOK
<1>1. LabTypes => LabRunTypeOK
  BY DEF LabTypes
<1> QED
  BY LabInitTypes, LabNextTypes, <1>1, PTL DEF LabSpec

-----------------------------------------------------------------------------
(* Done means judged.                                                      *)

(* A clip of the run that is not to be played any more, nor playing, has a *)
(* verdict; that it is "cancelled" is seen at the end of the run.          *)
AtPlay == IF labThread.at = "play" THEN {labThread.playing} ELSE {}
Covered ==
  \A c \in chosen \ (labThread.todo \cup AtPlay) :
    /\ labThread.results[c] # Unjudged
    /\ labThread.results[c] = "cancelled" => cancelled

RunInv ==
  /\ labThread.at \in InRun => run.status = "running"
  /\ labUp = "down" => labThread.at = "none"
  /\ labThread.at = "begin" => labThread.todo = chosen
  /\ labThread.at \in {"next", "play", "write"} => Covered
  /\ DoneMeansJudged

LEMMA RunInit == LabInit => RunInv
  BY DEF LabInit, RunInv, NoLabThread, InRun, DoneMeansJudged

LEMMA RunNext == LabTypes /\ RunInv /\ [LabRunNext]_labVars => RunInv'
<1> SUFFICES ASSUME LabTypes, RunInv, [LabRunNext]_labVars PROVE RunInv'
  OBVIOUS
<1> USE DEF LabTypes, LabRunTypeOK, RunInv, InRun
<1>2. CASE StartChecks
  BY <1>2 DEF StartChecks, Covered, AtPlay, DoneMeansJudged
<1>3. CASE StartRuns
  BY <1>3 DEF StartRuns, NoLabThread, DoneMeansJudged
<1>4. CASE CancelRun
  BY <1>4 DEF CancelRun, Covered, AtPlay, DoneMeansJudged
<1>6. CASE BeginRun
  BY <1>6 DEF BeginRun, LabAt, Covered, AtPlay, DoneMeansJudged
<1>7. CASE NextClip
  <2>1. CASE labThread.todo = {} /\ Finishes(Ending)
    BY <1>7, <2>1 DEF NextClip, LabAt, Finishes, Ending, Covered, AtPlay, DoneMeansJudged
  <2>2. CASE Finishes("cancelled")
    BY <1>7, <2>2 DEF NextClip, LabAt, Finishes, DoneMeansJudged
  <2>3. CASE /\ UNCHANGED run
             /\ \E c \in labThread.todo :
                  labThread' = [labThread EXCEPT !.at = "play", !.playing = c, !.todo = @ \ {c}]
    <3>1. PICK c \in labThread.todo :
            labThread' = [labThread EXCEPT !.at = "play", !.playing = c,
                                           !.todo = labThread.todo \ {c}]
      BY <2>3
    <3>2. /\ labThread'.at = "play" /\ labThread'.playing = c
          /\ labThread'.todo = labThread.todo \ {c} /\ labThread'.results = labThread.results
      BY <3>1
    <3>3. labThread.at = "next" /\ UNCHANGED <<run, chosen, cancelled, labUp>>
      BY <1>7, <2>3 DEF NextClip, LabAt
    <3>4. Covered'
      BY <3>2, <3>3 DEF Covered, AtPlay
    <3> QED
      BY <1>7, <3>2, <3>3, <3>4 DEF NextClip, LabAt, DoneMeansJudged
  <2> QED
    BY <1>7, <2>1, <2>2, <2>3 DEF NextClip
<1>8. CASE PlayedClip
  <2>1. PICK v \in Unplayable \cup (IF cancelled THEN {"cancelled"} ELSE Judged(labThread.playing)) :
              labThread' = [labThread EXCEPT !.at = "write", !.results[labThread.playing] = v]
    BY <1>8 DEF PlayedClip
  <2>2. labThread.playing \in Clips /\ labThread.at = "play"
    BY <1>8 DEF PlayedClip, LabAt, WithClip
  <2>3. v # Unjudged /\ (v = "cancelled" => cancelled)
    BY <2>1, <2>2, JudgedIsVerdict DEF Unplayable, Unjudged
  <2>4. Covered'
    BY <1>8, <2>1, <2>2, <2>3 DEF PlayedClip, Covered, AtPlay
  <2> QED
    BY <1>8, <2>1, <2>2, <2>4 DEF PlayedClip, DoneMeansJudged
<1>9. CASE WriteResult
  BY <1>9 DEF WriteResult, LabAt, Covered, AtPlay, DoneMeansJudged
<1>10. CASE WriteFails
  BY <1>10 DEF WriteFails, NoLabThread, DoneMeansJudged
<1>11. CASE WriteError
  BY <1>11 DEF WriteError, LabAt, Finishes, DoneMeansJudged
<1>12. CASE ResumeLive
  BY <1>12 DEF ResumeLive, LabAt, NoLabThread, DoneMeansJudged
<1>13. CASE ShutdownRun
  BY <1>13 DEF ShutdownRun, Covered, AtPlay, DoneMeansJudged
<1>14. CASE VideoEnds
  BY <1>14 DEF VideoEnds, NoLabThread, DoneMeansJudged
<1>15. CASE MarkStaleRun
  BY <1>15 DEF MarkStaleRun, StaleRun, DoneMeansJudged
<1>16. CASE UNCHANGED labVars
  BY <1>16 DEF labVars, Covered, AtPlay, DoneMeansJudged
<1> QED
  BY <1>2, <1>3, <1>4, <1>6, <1>7, <1>8, <1>9, <1>10, <1>11, <1>12, <1>13, <1>14, <1>15, <1>16
     DEF LabRunNext, LabThreadStep

(* A run whose record says done has a verdict about each of its clips, and *)
(* none of them is "cancelled": starts, cancels, failing writes, shutdowns *)
(* and restarts (scenario_lab_run.py:203, :289) do not mix two runs.       *)
THEOREM DoneMeansJudgedCorrect == LabSpec => []DoneMeansJudged
<1>1. RunInv => DoneMeansJudged
  BY DEF RunInv
<1> QED
  BY LabInitTypes, LabNextTypes, RunInit, RunNext, <1>1, PTL DEF LabSpec
=============================================================================
