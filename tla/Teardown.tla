------------------------------- MODULE Teardown -------------------------------
(***************************************************************************)
(* What follows an answer of Billing with destroy=true                     *)
(* (app/docker_destroy.py): the API and the video process, which both      *)
(* mount the socket of docker (docker-compose.yml:121, 193), each have a   *)
(* thread that removes every container of the compose project, its own the *)
(* last.                                                                   *)
(*                                                                         *)
(* EXTERNAL: docker goes on with a removal when the process that asked for *)
(* it is gone, and refuses to remove what it is removing already.          *)
(***************************************************************************)
EXTENDS Naturals

CONSTANTS
  Bystanders, (* the other containers of the project                       *)
  Mishaps     (* BOUND: errors of docker, and ends of the two processes    *)

Destroyers == {"api", "video"}

ASSUME TeardownAssumption == Bystanders \cap Destroyers = {} /\ Mishaps \in Nat

NoContainer == "none"
Unasked     == [at |-> "none", todo |-> {}]

VARIABLES
  there,    (* the containers of the project                               *)
  teardown, (* the thread of each process: [at, todo]; at is none until    *)
            (* _started is set, and done after the thread has ended        *)
  removing, (* what docker is removing for each process                    *)
  mishaps,
  marred,   (* history: docker has listed or removed nothing when asked to *)
  crossed   (* history: each process has been removed by the other         *)

teardownVars == <<there, teardown, removing, mishaps, marred, crossed>>

Peer(s) == CHOOSE p \in Destroyers : p # s

TeardownInit ==
  /\ there = Destroyers \cup Bystanders
  /\ teardown = [s \in Destroyers |-> Unasked]
  /\ removing = [s \in Destroyers |-> NoContainer]
  /\ mishaps = 0
  /\ marred = FALSE /\ crossed = FALSE

Alive(s)  == s \in there
Mishap    == mishaps < Mishaps /\ mishaps' = mishaps + 1

-----------------------------------------------------------------------------
(* maybe_destroy_project() with a check whose destroy is set: the first    *)
(* one in this process starts the thread (a command of the CLI is gone     *)
(* before the delay of its thread is over).                                *)
ScheduleTeardown(s) ==
  /\ Alive(s) /\ teardown[s].at = "none"
  /\ teardown' = [teardown EXCEPT ![s].at = "due"]
  /\ UNCHANGED <<there, removing, mishaps, marred, crossed>>

(* _list_target_containers(), after the delay; an error ends the thread.   *)
ListContainers(s) ==
  /\ Alive(s) /\ teardown[s].at = "due"
  /\ \/ /\ teardown' = [teardown EXCEPT ![s] = [at |-> "remove", todo |-> there]]
        /\ UNCHANGED <<mishaps, marred>>
     \/ /\ Mishap /\ marred' = TRUE
        /\ teardown' = [teardown EXCEPT ![s].at = "done"]
  /\ UNCHANGED <<there, removing, crossed>>

(* "Remove self last so the destroy can finish."                           *)
AnyOrder(s, todo)   == todo  (* mutant *)
SelfLast(s, todo)   == IF todo = {s} THEN todo ELSE todo \ {s}

AskRemoval(s) ==
  /\ Alive(s) /\ teardown[s].at = "remove" /\ removing[s] = NoContainer
  /\ \E c \in SelfLast(s, teardown[s].todo) :
       /\ removing' = [removing EXCEPT ![s] = c]
       /\ teardown' = [teardown EXCEPT ![s] = [at |-> "wait", todo |-> @.todo \ {c}]]
       /\ crossed' = (crossed \/ (c = Peer(s) /\ removing[c] = s))
  /\ UNCHANGED <<there, mishaps, marred>>

Killed(c) == [s \in Destroyers |-> IF s = c THEN Unasked ELSE teardown[s]]
Resume(s) == /\ removing' = [removing EXCEPT ![s] = NoContainer]
             /\ teardown' = [Killed(removing[s]) EXCEPT
                              ![s].at = IF @ = "wait" THEN "remove" ELSE @]

DockerRemoves(s) ==
  /\ removing[s] \in there
  /\ there' = there \ {removing[s]}
  /\ Resume(s)
  /\ UNCHANGED <<mishaps, marred, crossed>>

(* Not there any more (404, taken for a success), being removed for the    *)
(* other process, or refused or late: the thread goes on with the next.    *)
DockerDoesNot(s) ==
  /\ removing[s] # NoContainer
  /\ \/ /\ removing[s] \notin there \/ removing[Peer(s)] = removing[s]
        /\ UNCHANGED <<mishaps, marred>>
     \/ /\ Mishap /\ marred' = TRUE
  /\ removing' = [removing EXCEPT ![s] = NoContainer]
  /\ teardown' = [teardown EXCEPT ![s].at = IF @ = "wait" THEN "remove" ELSE @]
  /\ UNCHANGED <<there, crossed>>

EndTeardown(s) ==
  /\ Alive(s) /\ teardown[s] = [at |-> "remove", todo |-> {}] /\ removing[s] = NoContainer
  /\ teardown' = [teardown EXCEPT ![s].at = "done"]
  /\ UNCHANGED <<there, removing, mishaps, marred, crossed>>

(* A process ends by itself, and is started again by compose; docker       *)
(* finishes what it was removing for it.                                   *)
EndsByItself(s) ==
  /\ Alive(s) /\ teardown[s].at # "none" /\ Mishap
  /\ there' = there \ {removing[s]}
  /\ teardown' = [Killed(removing[s]) EXCEPT ![s] = Unasked]
  /\ removing' = [removing EXCEPT ![s] = NoContainer]
  /\ UNCHANGED <<marred, crossed>>

-----------------------------------------------------------------------------
TeardownStep(s) ==
  ListContainers(s) \/ AskRemoval(s) \/ DockerRemoves(s) \/ DockerDoesNot(s) \/ EndTeardown(s)

TeardownNext ==
  \E s \in Destroyers : ScheduleTeardown(s) \/ TeardownStep(s) \/ EndsByItself(s)

(* Billing is asked at each start of a process and goes on answering so;   *)
(* the threads run and docker answers.                                     *)
TeardownFairness ==
  \A s \in Destroyers : /\ WF_teardownVars(TeardownStep(s))
                        /\ WF_teardownVars(ScheduleTeardown(s))

TeardownSpec == TeardownInit /\ [][TeardownNext]_teardownVars /\ TeardownFairness

Begun == \E s \in Destroyers : ~Alive(s) \/ teardown[s].at # "none"

(* A teardown that has begun leaves no container of the project behind     *)
(* (README.md:190), even when one of the two processes ends and begins     *)
(* again, unless docker has failed once (the thread does not come back) or *)
(* the two processes have asked docker for each other at the same time.    *)
TeardownFinishes == <>[](Begun => there = {} \/ marred \/ crossed)
=============================================================================
