--------------------------- MODULE Administration ---------------------------
(***************************************************************************)
(* What the people who run a node do with it: settings (SettingsFile),     *)
(* cameras (CameraRegistry), logins (ConsoleAccess), lists (HistoryPages), *)
(* the state of the cameras (CameraHealth), runs of the lab (LabRun), and  *)
(* what Billing does with it (Licence, Teardown).  These parts share no    *)
(* state that their properties tell apart: a request is admitted by        *)
(* ConsoleAccess and then goes on in one of the others.                    *)
(*                                                                         *)
(* BOUND: one part moves in a behaviour, chosen at its beginning; the      *)
(* others stay in one of their initial states.                             *)
(***************************************************************************)
EXTENDS CameraRegistry, ConsoleAccess, HistoryPages, CameraHealth, Licence, Teardown,
        LabRun

VARIABLE part  (* the part that moves                                      *)

Parts == {"settings", "cameras", "console", "pages", "health", "licence",
          "teardown", "lab"}

adminVars == <<settingsVars, registryVars, consoleVars, pagesVars, healthVars,
               licenceVars, teardownVars, labVars, part>>

(* At rest: the settings are loaded, there are no cameras, no users and no *)
(* rows, nobody has asked for a report, and the licence is in order.       *)
AdminInit ==
  /\ part \in Parts
  /\ SettingsInit /\ (part = "settings" \/ (path # None /\ ~File.legacy))
  /\ RegistryInit /\ (part = "cameras" \/ (Exists(table) = {} /\ budget = CHOOSE b \in CameraCalls : TRUE))
  /\ ConsoleInit /\ (part = "console" \/ (~sso /\ users = {} /\ quota = CHOOSE q \in ConsoleCalls : TRUE))
  /\ IF part = "pages"
     THEN PagesInit
     ELSE /\ list = "users" /\ limit = (CHOOSE n \in Limits : TRUE) /\ edits = 0 /\ cursor = End
          /\ rows = [i \in RowIds |-> 0] /\ shown = rows /\ steady = {}
  /\ IF part = "health"
     THEN HealthInit
     ELSE /\ camera = [enabled |-> TRUE, uri |-> "rtsp"] /\ listed = [enabled |-> TRUE, first |-> TRUE]
          /\ health = NoAnswer /\ report = NoReport
  /\ LicenceInit /\ (part = "licence" \/ (license = "ok" /\ means = CHOOSE c \in LicenceCalls : TRUE))
  /\ TeardownInit
  /\ LabInit

SettingsMove(A) ==
  /\ part = "settings" /\ A
  /\ UNCHANGED <<registryVars, consoleVars, pagesVars, healthVars, licenceVars, teardownVars, labVars, part>>
LicenceMove(A) ==
  /\ part = "licence" /\ A
  /\ UNCHANGED <<settingsVars, registryVars, consoleVars, pagesVars, healthVars, teardownVars, labVars, part>>
TeardownMove(A) ==
  /\ part = "teardown" /\ A
  /\ UNCHANGED <<settingsVars, registryVars, consoleVars, pagesVars, healthVars, licenceVars, labVars, part>>
LabMove(A) ==
  /\ part = "lab" /\ A
  /\ UNCHANGED <<settingsVars, registryVars, consoleVars, pagesVars, healthVars, licenceVars, teardownVars, part>>

AdminNext ==
  \/ SettingsMove(SettingsNext)
  \/ LicenceMove(LicenceNext)
  \/ TeardownMove(TeardownNext)
  \/ LabMove(LabRunNext)
  \/ /\ part = "cameras" /\ RegistryNext
     /\ UNCHANGED <<settingsVars, consoleVars, pagesVars, healthVars, licenceVars, teardownVars, labVars, part>>
  \/ /\ part = "console" /\ ConsoleNext
     /\ UNCHANGED <<settingsVars, registryVars, pagesVars, healthVars, licenceVars, teardownVars, labVars, part>>
  \/ /\ part = "pages" /\ PagesNext
     /\ UNCHANGED <<settingsVars, registryVars, consoleVars, healthVars, licenceVars, teardownVars, labVars, part>>
  \/ /\ part = "health" /\ Describe
     /\ UNCHANGED <<settingsVars, registryVars, consoleVars, pagesVars, licenceVars, teardownVars, labVars, part>>

(* SettingsFairness, LicenceFairness, TeardownFairness and LabFairness,    *)
(* each for the behaviours in which its part moves.                        *)
AdminFairness ==
  /\ \A p \in Procs : /\ WF_adminVars(SettingsMove(SettingsStep(p)))
                      /\ p \in Residents => WF_adminVars(SettingsMove(Boot(p)))
                      /\ p \in Pollers => WF_adminVars(SettingsMove(Poll(p)))
  /\ WF_adminVars(LicenceMove(WatchRechecks)) /\ WF_adminVars(LicenceMove(PollFingerprint))
  /\ WF_adminVars(LicenceMove(WatchLocks))
  /\ \A t \in Asking : /\ WF_adminVars(LicenceMove(LicenceStep(t)))
                       /\ WF_adminVars(LicenceMove(LifespanChecks(t)))
  /\ \A s \in Destroyers : /\ WF_adminVars(TeardownMove(TeardownStep(s)))
                           /\ WF_adminVars(TeardownMove(ScheduleTeardown(s)))
  /\ WF_adminVars(LabMove(LabThreadStep)) /\ WF_adminVars(LabMove(StartRuns))
  /\ WF_adminVars(LabMove(VideoEnds)) /\ WF_adminVars(LabMove(MarkStaleRun))

AdminSpec == AdminInit /\ [][AdminNext]_adminVars
FairAdminSpec == AdminSpec /\ AdminFairness

(* Types.                                                                  *)
AdminTypeOK ==
  /\ part \in Parts
  /\ SettingsTypeOK /\ RegistryTypeOK /\ ConsoleTypeOK /\ PagesTypeOK
  /\ LicenceTypeOK /\ LabRunTypeOK
=============================================================================
