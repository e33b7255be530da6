------------------------------- MODULE Licence -------------------------------
(***************************************************************************)
(* The verdict of Billing about the key of the node                        *)
(* (app/billing/validate.py, state.py, runtime_lock.py).  The API, the     *)
(* video process and commands of the CLI ask Billing and publish the       *)
(* answer in license.json through license.json.tmp; each keeps a copy that *)
(* it re-reads when the mtime of the file differs from the one it          *)
(* remembers.  What the runtime lock does to the pipeline is in            *)
(* VideoControl; here it is a flag of each process.  What it does when the *)
(* answer has destroy set is in Teardown.                                  *)
(*                                                                         *)
(* A thread that has opened the temporary file goes on writing into it     *)
(* after another has renamed it.  checked_at makes every check that is     *)
(* read another one for the fingerprint of the video process.              *)
(***************************************************************************)
EXTENDS Integers

CONSTANTS
  Askers,      (* threads of the API that serve settings and validations   *)
  Checkers,    (* commands of the CLI                                      *)
  LicenceCalls (* BOUND: requests, changes at Billing, faults, and checks  *)
               (* that begin while another is under way (the watch of the  *)
               (* API waits 300 s between two)                             *)

Sites    == {"api", "video"}
Recheck  == "billing-recheck"        (* the lifespan of the API, then its  *)
WatchDog == "video-config-watch"     (* watch thread; likewise for video   *)
Asking   == Askers \cup Checkers \cup {Recheck, WatchDog}

LicenceKinds == {"ask", "change", "fault", "overlap"}

ASSUME LicenceAssumption ==
  /\ Askers \cap Checkers = {} /\ {Recheck, WatchDog} \cap (Askers \cup Checkers) = {}
  /\ \A c \in LicenceCalls : c \in [LicenceKinds -> Nat]

Verdicts == {"ok", "refused"}
KeyKinds == {"none", "admin", "client"}
Torn     == "torn"
Nothing  == "none"

VARIABLES
  key,      (* the key of the settings                                     *)
  verdict,  (* what Billing says of it when it is the key of a client      *)
  license,  (* license.json: a verdict, Torn or Nothing                    *)
  spool,    (* license.json.tmp                                            *)
  asking,   (* what each thread does: [at, about, check, stamped, file],   *)
            (* file is what the temporary file it has opened is now        *)
  known,    (* state._last of each process                                 *)
  current,  (* state._last_mtime is the mtime of license.json              *)
  print,    (* the fingerprint the video process remembers                 *)
  running,  (* off, starting or on                                         *)
  shut,     (* runtime_lock._runtime_locked                                *)
  means     (* what is left of LicenceCalls                                *)

paper       == <<license, spool>>
licenceVars == <<key, verdict, paper, asking, known, current, print, running,
                 shut, means>>

SiteOf(t)  == IF t \in Checkers THEN "cli" ELSE IF t = WatchDog THEN "video" ELSE "api"
Resident(t) == SiteOf(t) \in Sites
Free       == [at |-> "idle", about |-> Nothing, check |-> "refused", stamped |-> FALSE, file |-> Nothing]
Costs(kind) == means[kind] > 0 /\ means' = [means EXCEPT ![kind] = @ - 1]
In(t, pc)  == asking[t].at = pc
To(t, pc)  == asking' = [asking EXCEPT ![t].at = pc]
Valid(v)   == v = "ok"

(* What a validation of the key of the settings finds when Billing answers.*)
Truth == CASE key = "none"   -> "refused"
           [] key = "admin"  -> "ok"
           [] key = "client" -> verdict

(* Up with a valid key, or about to start for the first time with any.     *)
LicenceInit ==
  /\ \E first \in BOOLEAN :
       /\ running = [s \in Sites |-> IF first THEN "off" ELSE "on"]
       /\ license = (IF first THEN Nothing ELSE "ok")
       /\ known = [s \in Sites |-> IF first THEN Nothing ELSE "ok"]
       /\ current = [s \in Sites |-> ~first]
       /\ shut = [s \in Sites |-> first]
  /\ print = "none"
  /\ key = "client" /\ (verdict = "ok" \/ (running["api"] = "off" /\ verdict \in Verdicts))
  /\ spool = Nothing
  /\ asking = [t \in Asking |-> Free]
  /\ means \in LicenceCalls

-----------------------------------------------------------------------------
(* last_billing_check(): the copy, unless the mtime of the file differs    *)
(* and the file can be read.                                               *)
Whole == license \in Verdicts

NeverReads(s)  == FALSE  (* mutant *)
MustRead(s)    == ~current[s]
Reads(s)       == MustRead(s) /\ Whole
LastCheck(s)   == IF Reads(s) THEN license ELSE known[s]
Refresh(s)     == /\ known' = [known EXCEPT ![s] = LastCheck(s)]
                  /\ current' = [current EXCEPT ![s] = @ \/ Reads(s)]

(* license_ok() of a request.                                              *)
Consult(s) ==
  /\ running[s] = "on" /\ Reads(s)
  /\ Refresh(s)
  /\ print' = IF s = "video" /\ print = "current" THEN "old" ELSE print
  /\ UNCHANGED <<key, verdict, paper, asking, running, shut, means>>

-----------------------------------------------------------------------------
(* validate_billing_key().                                                 *)

(* About the key of the settings, or one given for this check; asks is 1   *)
(* for a request.                                                          *)
Checking(t) == asking[t].at \notin {"idle", "lock"}

StartCheck(t, about, asks) ==
  LET overlaps == IF \E u \in Asking \ {t} : Checking(u) THEN 1 ELSE 0
  IN  /\ means.ask >= asks /\ means.overlap >= overlaps
      /\ means' = [means EXCEPT !.ask = @ - asks, !.overlap = @ - overlaps]
      /\ asking' = [asking EXCEPT ![t] = [Free EXCEPT !.at = "ask", !.about = about]]

LifespanChecks(t) ==
  /\ t \in {Recheck, WatchDog} /\ running[SiteOf(t)] = "off"
  /\ running' = [running EXCEPT ![SiteOf(t)] = "starting"]
  /\ StartCheck(t, key, 0)
  /\ UNCHANGED <<key, verdict, paper, known, current, print, shut>>

WatchRechecks ==
  /\ running["api"] = "on" /\ In(Recheck, "idle")
  /\ (\A s \in Sites : running[s] # "off") \/ means.overlap > 0
  /\ StartCheck(Recheck, key, 0)
  /\ UNCHANGED <<key, verdict, paper, known, current, print, running, shut>>

Validate(t) ==
  /\ t \in Askers \cup Checkers /\ In(t, "idle")
  /\ Resident(t) => running[SiteOf(t)] = "on"
  /\ \/ \E about \in {key, "given"} : StartCheck(t, about, 1) /\ UNCHANGED key
     \/ \E k \in KeyKinds \ {key} : key' = k /\ StartCheck(t, k, 1)
  /\ UNCHANGED <<verdict, paper, known, current, print, running, shut>>

(* Billing answers, or cannot be reached.                                  *)
Found(about) == CASE about = "none"   -> {"refused"}
                  [] about = "admin"  -> {"ok"}
                  [] about = "client" -> {verdict}
                  [] about = "given"  -> Verdicts

BillingSays(t) ==
  /\ In(t, "ask")
  /\ \/ /\ \E v \in Found(asking[t].about) :
             asking' = [asking EXCEPT ![t] = [Free EXCEPT !.at = "open", !.check = v]]
        /\ UNCHANGED means
     \/ /\ asking[t].about \in {"client", "given"} /\ Costs("fault")
        /\ asking' = [asking EXCEPT ![t] = [Free EXCEPT !.at = "open"]]
  /\ UNCHANGED <<key, verdict, paper, known, current, print, running, shut>>

-----------------------------------------------------------------------------
(* remember() and persist().                                               *)

(* The mtime of license.json is another one.                               *)
NewMtime == current' = [s \in Sites |-> FALSE]
Renamed(a) == [t \in Asking |-> [a[t] EXCEPT !.file = IF @ = "spool" THEN "license"
                                                       ELSE IF @ = "license" THEN "gone" ELSE @]]
Unstamp(a) == [t \in Asking |-> [a[t] EXCEPT !.stamped = FALSE]]

(* Open truncates the temporary file that is there.                        *)
OpenSpool(t) ==
  /\ In(t, "open")
  /\ spool' = Torn
  /\ asking' = [asking EXCEPT ![t].at = "write", ![t].file = "spool"]
  /\ UNCHANGED <<key, verdict, license, known, current, print, running, shut, means>>

(* Over what another has written since, a shorter text leaves a tail.      *)
Overwrites(t, old) == {asking[t].check} \cup (IF old = Torn THEN {} ELSE {Torn})

WriteCheck(t) ==
  /\ In(t, "write")
  /\ \/ /\ asking[t].file = "spool"
        /\ spool' \in Overwrites(t, spool) /\ To(t, "rename")
        /\ UNCHANGED <<license, current>>
     \/ /\ asking[t].file = "license"
        /\ license' \in Overwrites(t, license) /\ NewMtime
        /\ asking' = Unstamp([asking EXCEPT ![t].at = "rename"])
        /\ UNCHANGED spool
     \/ /\ asking[t].file = "gone"
        /\ To(t, "rename") /\ UNCHANGED <<license, spool, current>>
  /\ UNCHANGED <<key, verdict, known, print, running, shut, means>>

(* replace() moves what the shared name holds, or raises when it is gone.  *)
(* An exception ends a request or a round of a watch, and the lifespan of  *)
(* a process that starts, so that it is started again.                     *)
RenameCheck(t) ==
  /\ In(t, "rename")
  /\ IF spool = Nothing
     THEN /\ asking' = [asking EXCEPT ![t] = Free]
          /\ running' = [s \in Sites |-> IF s = SiteOf(t) /\ running[s] = "starting"
                                         THEN "off" ELSE running[s]]
          /\ UNCHANGED <<license, spool, current>>
     ELSE /\ license' = spool /\ spool' = Nothing
          /\ NewMtime
          /\ asking' = Unstamp(Renamed([asking EXCEPT ![t].at = "stat", ![t].file = Nothing]))
          /\ UNCHANGED running
  /\ UNCHANGED <<key, verdict, known, print, shut, means>>

StatCheck(t) ==
  /\ In(t, "stat")
  /\ asking' = [asking EXCEPT ![t].at = "remember", ![t].stamped = TRUE]
  /\ UNCHANGED <<key, verdict, paper, known, current, print, running, shut, means>>

Remember(t) ==
  /\ In(t, "remember")
  /\ To(t, "apply")
  /\ IF Resident(t)
     THEN /\ known' = [known EXCEPT ![SiteOf(t)] = asking[t].check]
          /\ current' = [current EXCEPT ![SiteOf(t)] = asking[t].stamped]
     ELSE UNCHANGED <<known, current>>
  /\ UNCHANGED <<key, verdict, paper, print, running, shut, means>>

-----------------------------------------------------------------------------
(* apply_runtime_lock(): the flag.                                         *)
Locks(s, v) == shut' = [shut EXCEPT ![s] = ~Valid(v)]

(* With the answer of this thread, be it the last one or not.              *)
ApplyCheck(t) ==
  /\ In(t, "apply")
  /\ asking' = [asking EXCEPT ![t] = Free]
  /\ IF Resident(t)
     THEN /\ Locks(SiteOf(t), asking[t].check)
          /\ running' = [running EXCEPT ![SiteOf(t)] = "on"]
     ELSE UNCHANGED <<shut, running>>
  /\ UNCHANGED <<key, verdict, paper, known, current, print, means>>

(* _watch_config: every 2 s, the licence part of the fingerprint.          *)
NewPrint == print # "none" /\ (print = "old" \/ Reads("video"))

PollFingerprint ==
  /\ running["video"] = "on" /\ In(WatchDog, "idle")
  /\ Refresh("video")
  /\ print' = "current"
  /\ (IF NewPrint THEN To(WatchDog, "lock") ELSE UNCHANGED asking)
  /\ UNCHANGED <<key, verdict, paper, running, shut, means>>

(* With the last check, read again.                                        *)
WatchLocks ==
  /\ In(WatchDog, "lock")
  /\ To(WatchDog, "idle")
  /\ Refresh("video")
  /\ print' = IF Reads("video") THEN "old" ELSE print
  /\ Locks("video", LastCheck("video"))
  /\ UNCHANGED <<key, verdict, paper, running, means>>

(* A process ends and is started again.                                    *)
ProcessEnds(s) ==
  /\ running[s] # "off" /\ Costs("fault")
  /\ running' = [running EXCEPT ![s] = "off"]
  /\ asking' = [t \in Asking |-> IF SiteOf(t) = s THEN Free ELSE asking[t]]
  /\ known' = [known EXCEPT ![s] = Nothing]
  /\ current' = [current EXCEPT ![s] = FALSE]
  /\ shut' = [shut EXCEPT ![s] = TRUE]
  /\ print' = (IF s = "video" THEN "none" ELSE print)
  /\ UNCHANGED <<key, verdict, paper>>

(* Billing changes its mind about the key.                                 *)
VerdictChanges ==
  /\ Costs("change")
  /\ verdict' \in Verdicts \ {verdict}
  /\ UNCHANGED <<key, paper, asking, known, current, print, running, shut>>

LicenceStep(t) ==
  \/ BillingSays(t) \/ OpenSpool(t) \/ WriteCheck(t) \/ RenameCheck(t)
  \/ StatCheck(t) \/ Remember(t) \/ ApplyCheck(t)

LicenceNext ==
  \/ VerdictChanges \/ WatchRechecks \/ PollFingerprint \/ WatchLocks
  \/ \E t \in Asking : Validate(t) \/ LifespanChecks(t) \/ LicenceStep(t)
  \/ \E s \in Sites : Consult(s) \/ ProcessEnds(s)

(* Threads run, both watches come round, and compose starts a process that *)
(* ended again (docker-compose.yml, restart).                              *)
LicenceFairness ==
  /\ WF_licenceVars(WatchRechecks) /\ WF_licenceVars(PollFingerprint) /\ WF_licenceVars(WatchLocks)
  /\ \A t \in Asking : WF_licenceVars(LicenceStep(t)) /\ WF_licenceVars(LifespanChecks(t))

LicenceSpec == LicenceInit /\ [][LicenceNext]_licenceVars /\ LicenceFairness

-----------------------------------------------------------------------------
(* Types.                                                                  *)
LicenceTypeOK ==
  /\ key \in KeyKinds /\ verdict \in Verdicts
  /\ {license, spool} \subseteq Verdicts \cup {Torn, Nothing}
  /\ \A t \in Asking : /\ asking[t].check \in Verdicts
                       /\ asking[t].file \in {Nothing, "spool", "license", "gone"}
  /\ known \in [Sites -> Verdicts \cup {Nothing}] /\ current \in [Sites -> BOOLEAN]
  /\ print \in {"none", "old", "current"}
  /\ running \in [Sites -> {"off", "starting", "on"}] /\ shut \in [Sites -> BOOLEAN]

(* Once the key and what Billing says of it stay as they are, both         *)
(* processes end up with that verdict and with the runtime locked or not   *)
(* accordingly, whatever older answers, torn files and stale copies there  *)
(* were (README.md:186, "If the key is missing or invalid, the node locks").*)
LicenceFollows ==
  \A s \in Sites :
    <>[](running[s] = "on" /\ LastCheck(s) = Truth /\ shut[s] = ~Valid(Truth))
=============================================================================
