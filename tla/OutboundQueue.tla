--------------------------- MODULE OutboundQueue ---------------------------
(***************************************************************************)
(* The outbound webhook queue: table outbound_jobs in Postgres, the        *)
(* enqueue/resend/retry operations (app/webhooks/queue.py), the claim and  *)
(* delivery of a job (app/webhooks/delivery.py) and the worker threads of  *)
(* the API and the video process that share the table                      *)
(* (app/webhooks/worker.py).                                               *)
(*                                                                         *)
(* Time is relative: rows[j].due is the time left until next_attempt_at    *)
(* (negative when overdue), postLeft[w] the time left before the HTTP      *)
(* client of worker w gives up.  Tick lets one unit pass for everybody.    *)
(***************************************************************************)
EXTENDS Integers, FiniteSets

CONSTANTS
  Workers,      (* processes running an OutboundWorker: API and video      *)
  Jobs,         (* identities of rows of outbound_jobs                     *)
  Events,       (* trigger events                                          *)
  Hooks,        (* webhook rows, numbered in the order list_webhooks gives *)
  Urls,         (* addresses a webhook can have                            *)
  NoRow,        (* the value of an identity that is not in the table yet   *)
  NoEvent,      (* the value of an event that has not happened yet         *)
  NoJob,        (* the job of a worker that processes none                 *)
  BatchLimit,   (* claim_jobs(limit=8)                                     *)
  Lease,        (* max(30, VIDEO_POST_TIMEOUT_S + 15)                      *)
  PostMax,      (* longest POST, VIDEO_POST_TIMEOUT_S                      *)
  MaxBackoff,   (* MAX_BACKOFF_S                                           *)
  MaxAttempts,  (* Webhook.max_attempts, copied into the row               *)
  OverdueCap,   (* BOUND: an overdue row does not get older than this      *)
  SharedMinio,  (* NEXUS_DS_SHARED_MINIO                                   *)
  Prompt,       (* whether only POSTs and waiting take time, or every step *)
  Payloads,     (* what the payloads of the events say about their clips   *)
  InitialHooks, (* contents of the webhook table at the start              *)
  Budget        (* BOUND: how many faults, operator requests and           *)
                (* configuration changes a behaviour has                   *)

BudgetKinds == {"fault", "operator", "config"}
Status == {"pending", "retrying", "ok", "dead"}
Row    == [event: Events, hook: Hooks, url: Urls, attempts: Nat, due: Int,
           status: Status, error: {"none", "failed", "skipped"}]
Hook   == [state: {"enabled", "disabled", "deleted"}, url: Urls]
(* video: requires_video(); path, key: clip_from_payload() names them.     *)
Payload == [video: BOOLEAN, path: BOOLEAN, key: BOOLEAN]

ASSUME ConstantsAssumption ==
  /\ Hooks \subseteq Nat
  /\ BatchLimit \in Nat \ {0}
  /\ Lease \in Nat \ {0}
  /\ PostMax \in Nat \ {0}
  /\ MaxBackoff \in Nat \ {0}
  /\ MaxAttempts \in Nat \ {0}
  /\ OverdueCap \in Nat
  /\ SharedMinio \in BOOLEAN
  /\ Prompt \in BOOLEAN
  /\ Budget \in [BudgetKinds -> Nat]
  /\ Payloads \subseteq Payload
  /\ InitialHooks \subseteq [Hooks -> Hook]
  /\ NoJob \notin Jobs
  /\ NoRow \notin Row
  /\ NoEvent \notin Payload

VARIABLES
  rows,       (* the table outbound_jobs                                   *)
  hooks,      (* the table of webhooks: state and url                      *)
  event,      (* what the payload of an event says about its clip          *)
  onDisk,     (* events whose local clip file exists                       *)
  sinkOn,     (* settings.enable_http_sink                                 *)
  licensed,   (* license_ok()                                              *)
  pc,         (* where the thread of each worker is                        *)
  batch,      (* jobs claimed by a worker that it has not started          *)
  cur,        (* the job a worker processes                                *)
  answer,     (* what deliver() returned to a worker                       *)
  loaded,     (* the row as the write-back transaction read it             *)
  postLeft,   (* time left before the POST of a worker times out           *)
  left,       (* what is left of Budget                                    *)
  accepted,   (* history: jobs some receiver answered below 400            *)
  disturbed   (* history: jobs whose lease ran out, or that were retried,  *)
              (* while a worker held them                                  *)

table   == <<rows, hooks>>
config  == <<sinkOn, licensed>>
workers == <<pc, batch, cur, answer, loaded, postLeft>>
history == <<accepted, disturbed>>
vars    == <<rows, hooks, event, onDisk, sinkOn, licensed, pc, batch, cur,
             answer, loaded, postLeft, left, accepted, disturbed>>

-----------------------------------------------------------------------------
Loaded  == [status: Status, attempts: Nat]
NotLoaded == [status |-> "pending", attempts |-> 0]
Pc      == {"down", "idle", "batch", "posting", "answered", "loaded", "cleanup"}

Exists(j) == rows[j] # NoRow
Open(j)   == Exists(j) /\ rows[j].status \in {"pending", "retrying"}
DueWhateverStatus == {j \in Jobs : Exists(j) /\ rows[j].due <= 0}  (* mutant *)
Due       == {j \in Jobs : Open(j) /\ rows[j].due <= 0}

(* A worker holds a job from its claim to the commit of its write-back.    *)
Holds(w, j) ==
  \/ j \in batch[w]
  \/ cur[w] = j /\ pc[w] \in {"posting", "answered", "loaded"}

(* _backoff_s: 2 ** (attempts - 1) seconds, capped.                        *)
Backoff(n) ==
  LET exponential == 2 ^ (IF n > 1 THEN n - 1 ELSE 0)
  IN  IF exponential < MaxBackoff THEN exponential ELSE MaxBackoff

Spend(kind) == left[kind] > 0 /\ left' = [left EXCEPT ![kind] = @ - 1]

-----------------------------------------------------------------------------
(* queue.py: what puts rows into the table.                                *)

EnabledHooks == {h \in Hooks : hooks[h].state = "enabled"}

(* _unique_webhook_urls: the first hook of each address.                   *)
UniqueUrlHooks ==
  {h \in EnabledHooks :
     \A k \in EnabledHooks : hooks[k].url = hooks[h].url => h <= k}

NewRow(e, h) ==
  [event |-> e, hook |-> h, url |-> hooks[h].url, attempts |-> 0, due |-> 0,
   status |-> "pending", error |-> "none"]

(* enqueue_payload: one pending row per address, or none when the payload  *)
(* is refused.  Row identities are fresh.                                  *)
EnqueuePayload(e, payload) ==
  IF licensed /\ (payload.video => payload.path \/ payload.key) /\ sinkOn
  THEN \E id \in [UniqueUrlHooks -> {j \in Jobs : ~Exists(j)}] :
         /\ \A h, k \in UniqueUrlHooks : id[h] = id[k] => h = k
         /\ rows' = [j \in Jobs |->
                       IF \E h \in UniqueUrlHooks : id[h] = j
                       THEN NewRow(e, CHOOSE h \in UniqueUrlHooks : id[h] = j)
                       ELSE rows[j]]
  ELSE UNCHANGED rows

(* The pipeline emits an event; OutboundEnqueueSink enqueues it.           *)
Trigger(e, payload) ==
  /\ event[e] = NoEvent
  /\ event' = [event EXCEPT ![e] = payload]
  /\ onDisk' = IF payload.path THEN onDisk \cup {e} ELSE onDisk
  /\ EnqueuePayload(e, payload)
  /\ UNCHANGED <<hooks, config, workers, left, history>>

(* resend_event: the stored payload goes through enqueue_payload again.    *)
Resend(e) ==
  /\ event[e] # NoEvent
  /\ licensed
  /\ Spend("operator")
  /\ EnqueuePayload(e, event[e])
  /\ UNCHANGED <<hooks, event, onDisk, config, workers, history>>

(* retry_job: whatever the status, the row is pending and due again.       *)
RetryJob(j) ==
  /\ Exists(j)
  /\ licensed
  /\ Spend("operator")
  /\ rows' = [rows EXCEPT ![j].status = "pending", ![j].attempts = 0,
                          ![j].error = "none", ![j].due = 0]
  /\ disturbed' = IF \E w \in Workers : Holds(w, j)
                  THEN disturbed \cup {j} ELSE disturbed
  /\ UNCHANGED <<hooks, event, onDisk, config, workers, accepted>>

-----------------------------------------------------------------------------
(* worker.py, delivery.py: the thread of one worker.                       *)

(* The columns claim_jobs writes.                                          *)
ClaimedWithoutLease(row) == [row EXCEPT !.status = "retrying"]    (* mutant *)
Claimed(row) == [row EXCEPT !.status = "retrying", !.due = Lease]

(* claim_jobs: up to BatchLimit due rows, the longest due first, leased by *)
(* moving next_attempt_at one lease into the future.                       *)
Claim(w) ==
  /\ pc[w] = "idle"
  /\ sinkOn /\ licensed
  /\ \E ids \in SUBSET Due :
       /\ ids # {}
       /\ \/ Cardinality(ids) = BatchLimit
          \/ Cardinality(ids) < BatchLimit /\ ids = Due
       /\ \A i \in ids, j \in Due \ ids : rows[i].due <= rows[j].due
       /\ rows' = [j \in Jobs |-> IF j \in ids THEN Claimed(rows[j]) ELSE rows[j]]
       /\ batch' = [batch EXCEPT ![w] = ids]
  /\ pc' = [pc EXCEPT ![w] = "batch"]
  /\ UNCHANGED <<hooks, event, onDisk, config, cur, answer, loaded, postLeft,
                 left, history>>

(* _delivery_skip_reason                                                   *)
DeliverySkipped(j) == ~sinkOn \/ hooks[rows[j].hook].state # "enabled"

(* clip_bytes_for_event, or _shared_clip_ref on a shared MinIO.            *)
ClipMissing(j, minioReads) ==
  LET e == rows[j].event IN
  /\ event[e].video
  /\ IF SharedMinio
     THEN ~event[e].key
     ELSE e \notin onDisk /\ ~(event[e].key /\ minioReads)

(* process_job reads the row and deliver() checks it: no POST for a        *)
(* disabled sink or webhook (not retried) or a clip that cannot be read.   *)
StartJob(w, j) ==
  /\ pc[w] = "batch"
  /\ j \in batch[w]
  /\ batch' = [batch EXCEPT ![w] = @ \ {j}]
  /\ cur' = [cur EXCEPT ![w] = j]
  /\ \/ /\ DeliverySkipped(j)
        /\ pc' = [pc EXCEPT ![w] = "answered"]
        /\ answer' = [answer EXCEPT ![w] = "skipped"]
        /\ UNCHANGED postLeft
     \/ /\ ~DeliverySkipped(j)
        /\ \E minioReads \in BOOLEAN : ClipMissing(j, minioReads)
        /\ pc' = [pc EXCEPT ![w] = "answered"]
        /\ answer' = [answer EXCEPT ![w] = "failed"]
        /\ UNCHANGED postLeft
     \/ /\ ~DeliverySkipped(j)
        /\ \E minioReads \in BOOLEAN : ~ClipMissing(j, minioReads)
        /\ pc' = [pc EXCEPT ![w] = "posting"]
        /\ postLeft' = [postLeft EXCEPT ![w] = PostMax]
        /\ UNCHANGED answer
  /\ UNCHANGED <<rows, hooks, event, onDisk, config, loaded, left, accepted,
                 disturbed>>

(* The POST returns.  A receiver that accepted the event may still look    *)
(* failed to the node: the answer is lost or comes after the time out.     *)
PostReturns(w, received, result) ==
  /\ pc[w] = "posting"
  /\ result = "ok" => received
  /\ pc' = [pc EXCEPT ![w] = "answered"]
  /\ answer' = [answer EXCEPT ![w] = result]
  /\ postLeft' = [postLeft EXCEPT ![w] = 0]
  /\ accepted' = IF received THEN accepted \cup {cur[w]} ELSE accepted
  /\ UNCHANGED <<rows, hooks, event, onDisk, config, batch, cur, loaded, left,
                 disturbed>>

(* The write-back transaction: SELECT without a lock ...                   *)
LoadRow(w) ==
  /\ pc[w] = "answered"
  /\ pc' = [pc EXCEPT ![w] = "loaded"]
  /\ loaded' = [loaded EXCEPT ![w] = [status   |-> rows[cur[w]].status,
                                      attempts |-> rows[cur[w]].attempts]]
  /\ UNCHANGED <<table, event, onDisk, config, batch, cur, answer, postLeft,
                 left, history>>

NextStatusSkippedIsOk(w) ==                                       (* mutant *)
  CASE answer[w] \in {"ok", "skipped"} -> "ok"
    [] OTHER -> IF loaded[w].attempts + 1 >= MaxAttempts THEN "dead" ELSE "retrying"
NextStatusOffByOne(w) ==                                          (* mutant *)
  CASE answer[w] = "ok" -> "ok"
    [] answer[w] = "skipped" -> "dead"
    [] OTHER -> IF loaded[w].attempts >= MaxAttempts THEN "dead" ELSE "retrying"
NextStatusIsAnswer(w) == answer[w]                                (* mutant *)
NextStatus(w) ==
  CASE answer[w] = "ok" -> "ok"
    [] answer[w] = "skipped" -> "dead"
    [] OTHER -> IF loaded[w].attempts + 1 >= MaxAttempts THEN "dead" ELSE "retrying"

AttemptsNotCounted(w) == loaded[w].attempts                       (* mutant *)
CountedAttempts(w) == loaded[w].attempts + 1

(* ... and UPDATE of the columns the code changed.  The ORM does not write *)
(* a status equal to the one it read, whatever the table has by now.       *)
CommitRow(w) ==
  LET j == cur[w]
      n == CountedAttempts(w)
      s == NextStatus(w)
  IN
  /\ pc[w] = "loaded"
  /\ rows' = [rows EXCEPT
       ![j].attempts = n,
       ![j].status   = IF s # loaded[w].status THEN s ELSE @,
       ![j].due      = IF s = "retrying" THEN Backoff(n) ELSE 0,
       ![j].error    = IF s = "ok" THEN "none" ELSE answer[w]]
  /\ pc' = [pc EXCEPT ![w] = "cleanup"]
  /\ UNCHANGED <<hooks, event, onDisk, config, batch, cur, answer, loaded,
                 postLeft, left, history>>

AfterJob(w) == IF batch[w] = {} THEN "idle" ELSE "batch"

(* The local clip of a delivered event is removed when MinIO has it.       *)
RemovesAnyClip(w, e) == answer[w] = "ok" /\ event[e].path         (* mutant *)
RemovesClip(w, e) == answer[w] = "ok" /\ event[e].path /\ event[e].key

CleanUp(w) ==
  LET e == rows[cur[w]].event IN
  /\ pc[w] = "cleanup"
  /\ onDisk' = IF RemovesClip(w, e) THEN onDisk \ {e} ELSE onDisk
  /\ pc' = [pc EXCEPT ![w] = AfterJob(w)]
  /\ cur' = [cur EXCEPT ![w] = NoJob]
  /\ answer' = [answer EXCEPT ![w] = "none"]
  /\ loaded' = [loaded EXCEPT ![w] = NotLoaded]
  /\ UNCHANGED <<table, event, config, batch, postLeft, left, history>>

(* process_job raises on a database error: the worker logs it and goes on  *)
(* with the next job of the batch; the row keeps its lease.                *)
DbError(w) ==
  /\ pc[w] \in {"answered", "loaded"}
  /\ Spend("fault")
  /\ pc' = [pc EXCEPT ![w] = AfterJob(w)]
  /\ cur' = [cur EXCEPT ![w] = NoJob]
  /\ answer' = [answer EXCEPT ![w] = "none"]
  /\ loaded' = [loaded EXCEPT ![w] = NotLoaded]
  /\ UNCHANGED <<table, event, onDisk, config, batch, postLeft, history>>

(* The process ends, anywhere: stop() waits 5 s, the thread is a daemon.   *)
(* A POST on the wire may still reach its receiver.                        *)
Exit(w, received) ==
  /\ pc[w] # "down"
  /\ received => pc[w] = "posting"
  /\ Spend("fault")
  /\ pc' = [pc EXCEPT ![w] = "down"]
  /\ batch' = [batch EXCEPT ![w] = {}]
  /\ cur' = [cur EXCEPT ![w] = NoJob]
  /\ answer' = [answer EXCEPT ![w] = "none"]
  /\ loaded' = [loaded EXCEPT ![w] = NotLoaded]
  /\ postLeft' = [postLeft EXCEPT ![w] = 0]
  /\ accepted' = IF received THEN accepted \cup {cur[w]} ELSE accepted
  /\ UNCHANGED <<table, event, onDisk, config, disturbed>>

Start(w) ==
  /\ pc[w] = "down"
  /\ pc' = [pc EXCEPT ![w] = "idle"]
  /\ UNCHANGED <<table, event, onDisk, config, batch, cur, answer, loaded,
                 postLeft, left, history>>

-----------------------------------------------------------------------------
(* The environment: settings, licence and the webhook table; time.         *)

SetSink(on) ==
  /\ on # sinkOn
  /\ Spend("config")
  /\ sinkOn' = on
  /\ UNCHANGED <<table, event, onDisk, licensed, workers, history>>

SetLicense(valid) ==
  /\ valid # licensed
  /\ Spend("config")
  /\ licensed' = valid
  /\ UNCHANGED <<table, event, onDisk, sinkOn, workers, history>>

(* update_webhook, delete_webhook: the rows of its jobs stay.              *)
UpdateWebhook(h, state, url) ==
  /\ licensed
  /\ hooks[h].state # "deleted"
  /\ hooks[h] # [state |-> state, url |-> url]
  /\ state = "deleted" => url = hooks[h].url
  /\ Spend("config")
  /\ hooks' = [hooks EXCEPT ![h] = [state |-> state, url |-> url]]
  /\ UNCHANGED <<rows, event, onDisk, config, workers, history>>

Later(due) == IF due > -OverdueCap THEN due - 1 ELSE due

(* One unit of time.  It cannot pass a POST that must time out first.      *)
Tick ==
  /\ \A w \in Workers : pc[w] = "posting" => postLeft[w] > 0
  /\ Prompt => \A w \in Workers : pc[w] \in {"down", "idle", "posting"}
  /\ rows' = [j \in Jobs |->
                IF Exists(j) THEN [rows[j] EXCEPT !.due = Later(@)] ELSE NoRow]
  /\ postLeft' = [w \in Workers |->
                    IF postLeft[w] > 0 THEN postLeft[w] - 1 ELSE 0]
  /\ disturbed' = disturbed \cup
       {j \in Jobs : /\ Exists(j) /\ rows[j].due <= 1
                     /\ \E w \in Workers : Holds(w, j)}
  /\ UNCHANGED <<hooks, event, onDisk, config, pc, batch, cur, answer, loaded,
                 left, accepted>>

-----------------------------------------------------------------------------
Init ==
  /\ rows = [j \in Jobs |-> NoRow]
  /\ hooks \in InitialHooks
  /\ event = [e \in Events |-> NoEvent]
  /\ onDisk = {}
  /\ sinkOn \in BOOLEAN
  /\ licensed \in BOOLEAN
  /\ pc = [w \in Workers |-> "idle"]
  /\ batch = [w \in Workers |-> {}]
  /\ cur = [w \in Workers |-> NoJob]
  /\ answer = [w \in Workers |-> "none"]
  /\ loaded = [w \in Workers |-> NotLoaded]
  /\ postLeft = [w \in Workers |-> 0]
  /\ left = Budget
  /\ accepted = {}
  /\ disturbed = {}

Work(w) ==
  \/ Claim(w)
  \/ \E j \in Jobs : StartJob(w, j)
  \/ \E received \in BOOLEAN, result \in {"ok", "failed"} :
       PostReturns(w, received, result)
  \/ LoadRow(w)
  \/ CommitRow(w)
  \/ CleanUp(w)
  \/ Start(w)

Fault(w) == DbError(w) \/ \E received \in BOOLEAN : Exit(w, received)

Operate ==
  \/ \E e \in Events, payload \in Payloads : Trigger(e, payload)
  \/ \E e \in Events : Resend(e)
  \/ \E j \in Jobs : RetryJob(j)
  \/ \E on \in BOOLEAN : SetSink(on)
  \/ \E valid \in BOOLEAN : SetLicense(valid)
  \/ \E h \in Hooks, state \in {"enabled", "disabled", "deleted"}, url \in Urls :
       UpdateWebhook(h, state, url)

Next ==
  \/ \E w \in Workers : Work(w) \/ Fault(w)
  \/ Operate
  \/ Tick

Spec == Init /\ [][Next]_vars

(* Each worker thread keeps running and time passes; nothing is assumed of *)
(* operators, faults or new events.                                        *)
FairSpec == Spec /\ WF_vars(Tick) /\ \A w \in Workers : WF_vars(Work(w))

-----------------------------------------------------------------------------
TableOK == rows \in [Jobs -> Row \cup {NoRow}]

EnvironmentOK ==
  /\ hooks \in [Hooks -> Hook]
  /\ event \in [Events -> Payload \cup {NoEvent}]
  /\ onDisk \subseteq Events
  /\ sinkOn \in BOOLEAN
  /\ licensed \in BOOLEAN
  /\ left \in [BudgetKinds -> Nat]

WorkersOK ==
  /\ pc \in [Workers -> Pc]
  /\ batch \in [Workers -> SUBSET Jobs]
  /\ cur \in [Workers -> Jobs \cup {NoJob}]
  /\ answer \in [Workers -> {"none", "ok", "failed", "skipped"}]
  /\ loaded \in [Workers -> Loaded]
  /\ postLeft \in [Workers -> Nat]

HistoryOK ==
  /\ accepted \subseteq Jobs
  /\ disturbed \subseteq Jobs

HeldRowsExist ==
  \A w \in Workers :
    /\ \A j \in batch[w] : Exists(j)
    /\ pc[w] \in {"posting", "answered", "loaded", "cleanup"} =>
         cur[w] \in Jobs /\ Exists(cur[w])

(* Every variable has its type, and what a worker holds is in the table.   *)
TypeOK == TableOK /\ EnvironmentOK /\ WorkersOK /\ HistoryOK /\ HeldRowsExist

(* What worker.py:3-6 says of the two workers: no job is processed by both *)
(* at once.                                                                *)
NoDoubleProcessing ==
  \A j \in Jobs, v, w \in Workers : Holds(v, j) /\ Holds(w, j) => v = w

(* What the claim does guarantee: two workers hold the same job only after *)
(* its lease ran out, or an operator retried it, while one of them had it. *)
LeaseExclusive ==
  \A j \in Jobs \ disturbed, v, w \in Workers :
    Holds(v, j) /\ Holds(w, j) => v = w

(* The retry budget of a job whose deliveries never overlapped: a row that *)
(* is still to be sent has attempts left, and a row is in the dead-letter  *)
(* state only with none left or because its delivery was switched off.     *)
BudgetRespected ==
  \A j \in Jobs \ disturbed : Exists(j) =>
    /\ Open(j) => rows[j].attempts < MaxAttempts
    /\ rows[j].status = "dead" =>
         rows[j].error = "skipped" \/ rows[j].attempts = MaxAttempts

(* A row never says "ok" for an event no receiver accepted, however many   *)
(* workers, late answers and retries wrote to it.                          *)
OkMeansAccepted ==
  \A j \in Jobs : Exists(j) /\ rows[j].status = "ok" => j \in accepted

(* The clip of an incident outlives the deliveries that need it: while a   *)
(* row of the event is to be sent there is a local file or a MinIO key.    *)
ClipOutlivesDelivery ==
  \A j \in Jobs : Open(j) =>
    LET e == rows[j].event
    IN  event[e].video => e \in onDisk \/ event[e].key

(* A delivered row is sent again only when an operator asks, unless its    *)
(* deliveries overlapped.                                                  *)
DeliveredIsFinal ==
  [][\A j \in Jobs \ disturbed :
       Exists(j) /\ rows[j].status = "ok" /\ rows'[j].status # "ok"
         => rows'[j].status = "pending"]_vars

(* Every row is delivered or in the dead-letter state in the end, whatever *)
(* exits, database errors and overlaps happen on the way, if the sink and  *)
(* the licence stay on.                                                    *)
EventuallySettled ==
  <>[](sinkOn /\ licensed) =>
    \A j \in Jobs : Open(j) ~> (Exists(j) /\ ~Open(j))

-----------------------------------------------------------------------------
(* What makes the safety properties inductive (OutboundQueueProofs).       *)

(* Between two jobs a worker remembers nothing of the last one.            *)
WorkerPhases ==
  \A w \in Workers :
    /\ pc[w] \in {"down", "idle", "batch"} => cur[w] = NoJob
    /\ pc[w] \in {"down", "idle", "batch", "posting"} => answer[w] = "none"
    /\ pc[w] \in {"answered", "loaded"} => answer[w] # "none"
    /\ cur[w] \notin batch[w]

(* A positive answer comes from a receiver that accepted the job.          *)
AnswersAreTrue == \A w \in Workers : answer[w] = "ok" => cur[w] \in accepted

(* A job that is held and not disturbed is leased: no worker can claim it. *)
HeldIsLeased ==
  \A j \in Jobs \ disturbed, w \in Workers :
    Holds(w, j) => rows[j].status = "retrying" /\ rows[j].due > 0

(* Nobody writes to such a job between the SELECT and the UPDATE.          *)
LoadedIsCurrent ==
  \A w \in Workers :
    pc[w] = "loaded" /\ cur[w] \notin disturbed =>
      loaded[w] = [status |-> rows[cur[w]].status, attempts |-> rows[cur[w]].attempts]

LeaseInv == WorkerPhases /\ HeldIsLeased /\ LeaseExclusive

BudgetInv == LoadedIsCurrent /\ BudgetRespected
============================================================================
