------------------------ MODULE OutboundQueueProofs ------------------------
(***************************************************************************)
(* Theorems about the outbound queue, for every set of workers, jobs,      *)
(* events and webhooks, every lease, batch size and retry budget.          *)
(***************************************************************************)
EXTENDS OutboundQueue, TLAPS

(* A backoff is a number of time units.                                    *)
LEMMA BackoffType == \A n \in Nat : Backoff(n) \in Int
  BY ConstantsAssumption DEF Backoff

(* enqueue_payload leaves a table and every row that was there; what it    *)
(* adds is new.                                                            *)
LEMMA EnqueueKeepsRows ==
  ASSUME TypeOK, NEW e \in Events, NEW payload, EnqueuePayload(e, payload)
  PROVE  /\ TableOK'
         /\ \A j \in Jobs : Exists(j) => rows'[j] = rows[j]
         /\ \A j \in Jobs : rows'[j] # rows[j] =>
              /\ ~Exists(j)
              /\ rows'[j].status = "pending"
              /\ rows'[j].attempts = 0
<1>1. CASE UNCHANGED rows
  BY <1>1 DEF TypeOK, TableOK
<1>2. CASE ~UNCHANGED rows
  <2>1. PICK id \in [UniqueUrlHooks -> {j \in Jobs : ~Exists(j)}] :
          rows' = [j \in Jobs |->
                     IF \E h \in UniqueUrlHooks : id[h] = j
                     THEN NewRow(e, CHOOSE h \in UniqueUrlHooks : id[h] = j)
                     ELSE rows[j]]
    BY <1>2 DEF EnqueuePayload
  <2>2. \A h \in UniqueUrlHooks :
          /\ NewRow(e, h) \in Row
          /\ NewRow(e, h).status = "pending"
          /\ NewRow(e, h).attempts = 0
    BY DEF TypeOK, EnvironmentOK, UniqueUrlHooks, EnabledHooks, NewRow, Row, Hook,
           Status
  <2>3. \A j \in Jobs : (\E h \in UniqueUrlHooks : id[h] = j)
          => (CHOOSE h \in UniqueUrlHooks : id[h] = j) \in UniqueUrlHooks
    OBVIOUS
  <2> QED
    BY <2>1, <2>2, <2>3 DEF TypeOK, TableOK
<1> QED
  BY <1>1, <1>2

(* A step that keeps the rows and starts no job keeps what is held.        *)
LEMMA HeldStays ==
  ASSUME HeldRowsExist, WorkersOK, UNCHANGED <<pc, cur, batch>>,
         \A j \in Jobs : Exists(j) => Exists(j)'
  PROVE  HeldRowsExist'
  BY DEF HeldRowsExist, WorkersOK, Pc

LEMMA TypeInit == Init => TypeOK
<1> SUFFICES ASSUME Init PROVE TypeOK
  OBVIOUS
<1>1. TableOK /\ HistoryOK
  BY DEF Init, TableOK, HistoryOK
<1>2. EnvironmentOK
  BY ConstantsAssumption DEF Init, EnvironmentOK
<1>3. WorkersOK
  BY DEF Init, WorkersOK, Pc, Loaded, NotLoaded, Status
<1>4. HeldRowsExist
  BY DEF Init, HeldRowsExist
<1> QED
  BY <1>1, <1>2, <1>3, <1>4 DEF TypeOK

LEMMA TypeStep == TypeOK /\ [Next]_vars => TypeOK'
<1> SUFFICES ASSUME TypeOK, [Next]_vars PROVE TypeOK'
  OBVIOUS
<1> USE DEF TypeOK, table, config, workers, history
<1>1. ASSUME NEW w \in Workers, Claim(w) PROVE TypeOK'
  <2>1. PICK ids \in SUBSET Due :
          /\ rows' = [j \in Jobs |-> IF j \in ids THEN Claimed(rows[j]) ELSE rows[j]]
          /\ batch' = [batch EXCEPT ![w] = ids]
    BY <1>1 DEF Claim
  <2>2. \A j \in ids : j \in Jobs /\ rows[j] \in Row
    BY DEF TableOK, Due, Open, Exists
  <2>3. \A j \in ids : Claimed(rows[j]) \in Row
    <3> SUFFICES ASSUME NEW j \in ids
                 PROVE  Claimed(rows[j]) \in Row
      OBVIOUS
    <3>1. Lease \in Int
      BY ConstantsAssumption
    <3> QED
      BY <2>2, <3>1 DEF Claimed, Row, Status
  <2>4. TableOK' /\ \A j \in Jobs : Exists(j) => Exists(j)'
    BY <2>1, <2>3, ConstantsAssumption DEF TableOK, Exists
  <2>5. EnvironmentOK' /\ HistoryOK'
    BY <1>1 DEF Claim, EnvironmentOK, HistoryOK
  <2>6. WorkersOK'
    BY <1>1, <2>1 DEF Claim, WorkersOK, Pc, Due
  <2>7. HeldRowsExist'
    BY <1>1, <2>1, <2>4 DEF Claim, HeldRowsExist, WorkersOK, Pc, Due, Open
  <2> QED
    BY <2>4, <2>5, <2>6, <2>7
<1>2. ASSUME NEW w \in Workers, NEW j \in Jobs, StartJob(w, j) PROVE TypeOK'
  <2>1. TableOK' /\ EnvironmentOK' /\ HistoryOK'
    BY <1>2 DEF StartJob, TableOK, EnvironmentOK, HistoryOK
  <2>2. WorkersOK'
    BY <1>2, ConstantsAssumption DEF StartJob, WorkersOK, Pc
  <2>3. HeldRowsExist'
    BY <1>2 DEF StartJob, HeldRowsExist, WorkersOK, Exists
  <2> QED
    BY <2>1, <2>2, <2>3
<1>3. ASSUME NEW w \in Workers, NEW received \in BOOLEAN,
             NEW result \in {"ok", "failed"}, PostReturns(w, received, result)
      PROVE TypeOK'
  <2>1. TableOK' /\ EnvironmentOK' /\ HistoryOK'
    BY <1>3 DEF PostReturns, TableOK, EnvironmentOK, HistoryOK, HeldRowsExist
  <2>2. WorkersOK'
    BY <1>3 DEF PostReturns, WorkersOK, Pc
  <2>3. HeldRowsExist'
    BY <1>3 DEF PostReturns, HeldRowsExist, WorkersOK, Exists
  <2> QED
    BY <2>1, <2>2, <2>3
<1>4. ASSUME NEW w \in Workers, LoadRow(w) PROVE TypeOK'
  <2>1. TableOK' /\ EnvironmentOK' /\ HistoryOK'
    BY <1>4 DEF LoadRow, TableOK, EnvironmentOK, HistoryOK
  <2>2. rows[cur[w]] \in Row
    BY <1>4 DEF LoadRow, TableOK, HeldRowsExist, Exists
  <2>3. WorkersOK'
    BY <1>4, <2>2 DEF LoadRow, WorkersOK, Pc, Loaded, Row
  <2>4. HeldRowsExist'
    BY <1>4 DEF LoadRow, HeldRowsExist, WorkersOK, Exists
  <2> QED
    BY <2>1, <2>3, <2>4
<1>5. ASSUME NEW w \in Workers, CommitRow(w) PROVE TypeOK'
  <2>1. cur[w] \in Jobs /\ rows[cur[w]] \in Row /\ loaded[w] \in Loaded
    BY <1>5 DEF CommitRow, CountedAttempts, TableOK, WorkersOK, HeldRowsExist, Exists
  <2>2. NextStatus(w) \in Status
    BY DEF NextStatus, Status
  <2>3. NextStatus(w) # "ok" => answer[w] \in {"failed", "skipped"} \/ answer[w] = "none"
    BY DEF NextStatus, WorkersOK
  <2> DEFINE j == cur[w]
             n == loaded[w].attempts + 1
             s == IF NextStatus(w) # loaded[w].status THEN NextStatus(w)
                  ELSE rows[j].status
             d == IF NextStatus(w) = "retrying" THEN Backoff(n) ELSE 0
             x == IF NextStatus(w) = "ok" THEN "none" ELSE answer[w]
  <2>4. n \in Nat /\ s \in Status /\ d \in Int /\ x \in {"none", "failed", "skipped"}
    BY <2>1, <2>2, <2>3, BackoffType DEF Loaded, Row
  <2>41. [rows[j] EXCEPT !.attempts = n, !.status = s, !.due = d, !.error = x] \in Row
    <3> HIDE DEF n, s, d, x
    <3> QED
      BY <2>1, <2>4 DEF Row
  <2>42. rows'[j] = [rows[j] EXCEPT !.attempts = n, !.status = s, !.due = d, !.error = x]
    BY <1>5, <2>1 DEF CommitRow, CountedAttempts, TableOK, Row
  <2>5. TableOK' /\ \A i \in Jobs : Exists(i) => Exists(i)'
    BY <1>5, <2>1, <2>41, <2>42, ConstantsAssumption DEF CommitRow, CountedAttempts, TableOK, Exists
  <2>6. EnvironmentOK' /\ HistoryOK'
    BY <1>5 DEF CommitRow, CountedAttempts, EnvironmentOK, HistoryOK
  <2>7. WorkersOK'
    BY <1>5 DEF CommitRow, CountedAttempts, WorkersOK, Pc
  <2>8. HeldRowsExist'
    BY <1>5, <2>5 DEF CommitRow, CountedAttempts, HeldRowsExist, WorkersOK
  <2> QED
    BY <2>5, <2>6, <2>7, <2>8
<1>6. ASSUME NEW w \in Workers, CleanUp(w) PROVE TypeOK'
  <2>1. TableOK' /\ EnvironmentOK' /\ HistoryOK'
    BY <1>6 DEF CleanUp, TableOK, EnvironmentOK, HistoryOK
  <2>2. WorkersOK'
    BY <1>6 DEF CleanUp, AfterJob, WorkersOK, Pc, NotLoaded, Loaded, Status
  <2>3. HeldRowsExist'
    BY <1>6 DEF CleanUp, AfterJob, HeldRowsExist, WorkersOK, Exists
  <2> QED
    BY <2>1, <2>2, <2>3
<1>7. ASSUME NEW w \in Workers, Start(w) PROVE TypeOK'
  <2>1. TableOK' /\ EnvironmentOK' /\ HistoryOK'
    BY <1>7 DEF Start, TableOK, EnvironmentOK, HistoryOK
  <2>2. WorkersOK'
    BY <1>7 DEF Start, WorkersOK, Pc
  <2>3. HeldRowsExist'
    BY <1>7 DEF Start, HeldRowsExist, WorkersOK, Exists
  <2> QED
    BY <2>1, <2>2, <2>3
<1>8. ASSUME NEW w \in Workers, DbError(w) PROVE TypeOK'
  <2>1. TableOK' /\ EnvironmentOK' /\ HistoryOK'
    BY <1>8 DEF DbError, Spend, BudgetKinds, TableOK, EnvironmentOK, HistoryOK
  <2>2. WorkersOK'
    BY <1>8 DEF DbError, AfterJob, WorkersOK, Pc, NotLoaded, Loaded, Status
  <2>3. HeldRowsExist'
    BY <1>8 DEF DbError, AfterJob, HeldRowsExist, WorkersOK, Exists
  <2> QED
    BY <2>1, <2>2, <2>3
<1>9. ASSUME NEW w \in Workers, NEW received \in BOOLEAN, Exit(w, received)
      PROVE TypeOK'
  <2>1. TableOK' /\ EnvironmentOK' /\ HistoryOK'
    BY <1>9 DEF Exit, Spend, BudgetKinds, TableOK, EnvironmentOK, HistoryOK,
                HeldRowsExist
  <2>2. WorkersOK'
    BY <1>9 DEF Exit, WorkersOK, Pc, NotLoaded, Loaded, Status
  <2>3. HeldRowsExist'
    BY <1>9 DEF Exit, HeldRowsExist, WorkersOK, Exists
  <2> QED
    BY <2>1, <2>2, <2>3
<1>10. ASSUME NEW e \in Events, NEW payload \in Payloads, Trigger(e, payload)
       PROVE TypeOK'
  <2>1. TableOK' /\ \A j \in Jobs : Exists(j) => Exists(j)'
    BY <1>10, EnqueueKeepsRows DEF Trigger, Exists
  <2>2. EnvironmentOK'
    BY <1>10, ConstantsAssumption DEF Trigger, EnvironmentOK
  <2>3. WorkersOK' /\ HistoryOK' /\ UNCHANGED <<pc, cur, batch>>
    BY <1>10 DEF Trigger, WorkersOK, HistoryOK
  <2> QED
    BY <2>1, <2>2, <2>3, HeldStays
<1>11. ASSUME NEW e \in Events, Resend(e) PROVE TypeOK'
  <2>1. TableOK' /\ \A j \in Jobs : Exists(j) => Exists(j)'
    BY <1>11, EnqueueKeepsRows DEF Resend, Exists
  <2>2. EnvironmentOK'
    BY <1>11 DEF Resend, Spend, BudgetKinds, EnvironmentOK
  <2>3. WorkersOK' /\ HistoryOK' /\ UNCHANGED <<pc, cur, batch>>
    BY <1>11 DEF Resend, WorkersOK, HistoryOK
  <2> QED
    BY <2>1, <2>2, <2>3, HeldStays
<1>12. ASSUME NEW j \in Jobs, RetryJob(j) PROVE TypeOK'
  <2>0. rows[j] \in Row
    BY <1>12 DEF RetryJob, TableOK, Exists
  <2> DEFINE n == 0
             d == 0
  <2>1. rows'[j] = [rows[j] EXCEPT !.status = "pending", !.attempts = n,
                                   !.error = "none", !.due = d]
    BY <1>12, <2>0 DEF RetryJob, TableOK, Row
  <2>11. rows'[j] \in Row
    <3>1. n \in Nat /\ d \in Int
      OBVIOUS
    <3> HIDE DEF n, d
    <3> QED
      BY <2>0, <2>1, <3>1 DEF Row, Status
  <2>2. TableOK' /\ \A i \in Jobs : Exists(i) => Exists(i)'
    BY <1>12, <2>11, ConstantsAssumption DEF RetryJob, TableOK, Exists
  <2>3. EnvironmentOK'
    BY <1>12 DEF RetryJob, Spend, BudgetKinds, EnvironmentOK
  <2>4. WorkersOK' /\ HistoryOK' /\ UNCHANGED <<pc, cur, batch>>
    BY <1>12 DEF RetryJob, WorkersOK, HistoryOK
  <2> QED
    BY <2>2, <2>3, <2>4, HeldStays
<1>13. CASE Tick
  <2>1. TableOK' /\ \A j \in Jobs : Exists(j) => Exists(j)'
    BY <1>13, ConstantsAssumption DEF Tick, Later, TableOK, Exists, Row
  <2>2. EnvironmentOK' /\ HistoryOK' /\ UNCHANGED <<pc, cur, batch>>
    BY <1>13 DEF Tick, EnvironmentOK, HistoryOK
  <2>3. WorkersOK'
    BY <1>13 DEF Tick, WorkersOK
  <2> QED
    BY <2>1, <2>2, <2>3, HeldStays
<1>14. ASSUME UNCHANGED <<rows, workers, history>>, EnvironmentOK' PROVE TypeOK'
  BY <1>14 DEF TableOK, WorkersOK, HistoryOK, HeldRowsExist, Exists
<1>15. ASSUME NEW on \in BOOLEAN, SetSink(on) PROVE TypeOK'
  BY <1>14, <1>15 DEF SetSink, Spend, BudgetKinds, EnvironmentOK
<1>16. ASSUME NEW valid \in BOOLEAN, SetLicense(valid) PROVE TypeOK'
  BY <1>14, <1>16 DEF SetLicense, Spend, BudgetKinds, EnvironmentOK
<1>17. ASSUME NEW h \in Hooks, NEW state \in {"enabled", "disabled", "deleted"},
              NEW url \in Urls, UpdateWebhook(h, state, url)
       PROVE TypeOK'
  BY <1>14, <1>17 DEF UpdateWebhook, Spend, BudgetKinds, EnvironmentOK, Hook
<1>18. CASE UNCHANGED vars
  BY <1>14, <1>18 DEF vars, EnvironmentOK
<1> QED
  BY <1>1, <1>2, <1>3, <1>4, <1>5, <1>6, <1>7, <1>8, <1>9, <1>10, <1>11, <1>12,
     <1>13, <1>15, <1>16, <1>17, <1>18 DEF Next, Work, Fault, Operate

(* Every reachable state is well typed.                                    *)
THEOREM TypeCorrect == Spec => []TypeOK
  BY TypeInit, TypeStep, PTL DEF Spec

-----------------------------------------------------------------------------
(* The phases of a worker.                                                 *)

LEMMA PhasesInit == Init => WorkerPhases
  BY DEF Init, WorkerPhases

LEMMA PhasesStep == TypeOK /\ WorkerPhases /\ [Next]_vars => WorkerPhases'
<1> SUFFICES ASSUME TypeOK, WorkerPhases, [Next]_vars PROVE WorkerPhases'
  OBVIOUS
<1> USE ConstantsAssumption
    DEF TypeOK, WorkersOK, WorkerPhases, table, config, workers, history
<1>1. ASSUME NEW w \in Workers, Claim(w) PROVE WorkerPhases'
  <2>1. PICK ids \in SUBSET Jobs : batch' = [batch EXCEPT ![w] = ids]
    BY <1>1 DEF Claim, Due
  <2> QED
    BY <1>1, <2>1 DEF Claim
<1>2. ASSUME NEW w \in Workers, NEW j \in Jobs, StartJob(w, j) PROVE WorkerPhases'
  BY <1>2 DEF StartJob
<1>3. ASSUME NEW w \in Workers, NEW received \in BOOLEAN,
             NEW result \in {"ok", "failed"}, PostReturns(w, received, result)
      PROVE WorkerPhases'
  BY <1>3 DEF PostReturns
<1>4. ASSUME NEW w \in Workers, LoadRow(w) PROVE WorkerPhases'
  BY <1>4 DEF LoadRow
<1>5. ASSUME NEW w \in Workers, CommitRow(w) PROVE WorkerPhases'
  BY <1>5 DEF CommitRow
<1>6. ASSUME NEW w \in Workers, CleanUp(w) PROVE WorkerPhases'
  BY <1>6 DEF CleanUp, AfterJob
<1>7. ASSUME NEW w \in Workers, Start(w) PROVE WorkerPhases'
  BY <1>7 DEF Start
<1>8. ASSUME NEW w \in Workers, DbError(w) PROVE WorkerPhases'
  BY <1>8 DEF DbError, AfterJob
<1>9. ASSUME NEW w \in Workers, NEW received \in BOOLEAN, Exit(w, received)
      PROVE WorkerPhases'
  BY <1>9 DEF Exit
<1>10. ASSUME UNCHANGED <<pc, cur, answer, batch>> PROVE WorkerPhases'
  BY <1>10
<1>11. CASE Operate \/ Tick \/ UNCHANGED vars
  BY <1>10, <1>11 DEF Operate, Trigger, Resend, RetryJob, SetSink, SetLicense,
                      UpdateWebhook, Tick, vars
<1> QED
  BY <1>1, <1>2, <1>3, <1>4, <1>5, <1>6, <1>7, <1>8, <1>9, <1>11 DEF Next, Work, Fault

-----------------------------------------------------------------------------
(* The lease.                                                              *)

LEMMA LeaseInit == Init => HeldIsLeased /\ LeaseExclusive
  BY DEF Init, HeldIsLeased, LeaseExclusive, Holds

(* A step that hands no job to a worker and writes to no row of a job that *)
(* stays held and undisturbed keeps the lease.                             *)
LEMMA LeaseKept ==
  ASSUME HeldIsLeased, LeaseExclusive, disturbed \subseteq disturbed',
         \A w \in Workers, j \in Jobs : Holds(w, j)' => Holds(w, j),
         \A w \in Workers, j \in Jobs \ disturbed' :
           Holds(w, j)' => rows'[j] = rows[j]
  PROVE  HeldIsLeased' /\ LeaseExclusive'
  BY DEF HeldIsLeased, LeaseExclusive

LEMMA LeaseStep ==
  TypeOK /\ LeaseInv /\ [Next]_vars => HeldIsLeased' /\ LeaseExclusive'
<1> SUFFICES ASSUME TypeOK, LeaseInv, [Next]_vars
             PROVE  HeldIsLeased' /\ LeaseExclusive'
  OBVIOUS
<1> USE DEF TypeOK, WorkersOK, LeaseInv, table, config, workers, history
<1>1. ASSUME NEW w \in Workers, Claim(w) PROVE HeldIsLeased' /\ LeaseExclusive'
  <2>1. PICK ids \in SUBSET Due :
          /\ rows' = [j \in Jobs |-> IF j \in ids THEN Claimed(rows[j]) ELSE rows[j]]
          /\ batch' = [batch EXCEPT ![w] = ids]
    BY <1>1 DEF Claim
  <2>2. \A j \in ids : j \in Jobs /\ rows[j].due <= 0 /\ rows[j] \in Row
    BY DEF Due, Open, Exists, TableOK
  <2>3. ASSUME NEW j \in ids PROVE rows'[j].status = "retrying" /\ rows'[j].due > 0
    <3>1. rows'[j] = [rows[j] EXCEPT !.status = "retrying", !.due = Lease]
      BY <2>1, <2>2 DEF Claimed
    <3>2. rows'[j].status = "retrying" /\ rows'[j].due = Lease
      BY <2>2, <3>1 DEF Row
    <3> QED
      BY <3>2, ConstantsAssumption
  <2>4. \A v \in Workers, j \in ids \ disturbed : ~Holds(v, j)
    BY <2>2 DEF HeldIsLeased, Row
  <2>5. \A v \in Workers, j \in Jobs :
          Holds(v, j)' => Holds(v, j) \/ (v = w /\ j \in ids)
    BY <1>1, <2>1 DEF Claim, Holds
  <2>6. disturbed' = disturbed /\ \A j \in Jobs \ ids : rows'[j] = rows[j]
    BY <1>1, <2>1 DEF Claim
  <2>7. HeldIsLeased'
    BY <2>3, <2>5, <2>6 DEF HeldIsLeased
  <2>8. LeaseExclusive'
    BY <2>4, <2>5, <2>6 DEF LeaseExclusive
  <2> QED
    BY <2>7, <2>8
<1>2. ASSUME NEW w \in Workers, NEW j \in Jobs, StartJob(w, j)
      PROVE  HeldIsLeased' /\ LeaseExclusive'
  <2>1. \A v \in Workers, i \in Jobs : Holds(v, i)' => Holds(v, i)
    BY <1>2 DEF StartJob, Holds
  <2> QED
    BY <1>2, <2>1, LeaseKept DEF StartJob
<1>3. ASSUME NEW w \in Workers, NEW received \in BOOLEAN,
             NEW result \in {"ok", "failed"}, PostReturns(w, received, result)
      PROVE HeldIsLeased' /\ LeaseExclusive'
  <2>1. \A v \in Workers, i \in Jobs : Holds(v, i)' => Holds(v, i)
    BY <1>3 DEF PostReturns, Holds
  <2> QED
    BY <1>3, <2>1, LeaseKept DEF PostReturns
<1>4. ASSUME NEW w \in Workers, LoadRow(w) PROVE HeldIsLeased' /\ LeaseExclusive'
  <2>1. \A v \in Workers, i \in Jobs : Holds(v, i)' => Holds(v, i)
    BY <1>4 DEF LoadRow, Holds
  <2> QED
    BY <1>4, <2>1, LeaseKept DEF LoadRow
<1>5. ASSUME NEW w \in Workers, CommitRow(w) PROVE HeldIsLeased' /\ LeaseExclusive'
  <2>1. PICK j \in Jobs : j = cur[w]
    BY <1>5 DEF CommitRow, CountedAttempts, HeldRowsExist
  <2>2. /\ Holds(w, j) /\ ~Holds(w, j)'
        /\ \A i \in Jobs \ {j} : rows'[i] = rows[i]
        /\ disturbed' = disturbed
    BY <1>5, <2>1 DEF CommitRow, CountedAttempts, Holds, TableOK, WorkerPhases
  <2>3. \A v \in Workers, i \in Jobs : Holds(v, i)' => Holds(v, i)
    BY <1>5 DEF CommitRow, CountedAttempts, Holds
  <2>4. j \notin disturbed => \A v \in Workers : ~Holds(v, j)'
    BY <2>2, <2>3 DEF LeaseExclusive
  <2> QED
    BY <2>2, <2>3, <2>4, LeaseKept
<1>6. ASSUME NEW w \in Workers, CleanUp(w) PROVE HeldIsLeased' /\ LeaseExclusive'
  <2>1. \A v \in Workers, i \in Jobs : Holds(v, i)' => Holds(v, i)
    BY <1>6, ConstantsAssumption DEF CleanUp, AfterJob, Holds
  <2> QED
    BY <1>6, <2>1, LeaseKept DEF CleanUp
<1>7. ASSUME NEW w \in Workers, Start(w) PROVE HeldIsLeased' /\ LeaseExclusive'
  <2>1. \A v \in Workers, i \in Jobs : Holds(v, i)' => Holds(v, i)
    BY <1>7 DEF Start, Holds
  <2> QED
    BY <1>7, <2>1, LeaseKept DEF Start
<1>8. ASSUME NEW w \in Workers, DbError(w) PROVE HeldIsLeased' /\ LeaseExclusive'
  <2>1. \A v \in Workers, i \in Jobs : Holds(v, i)' => Holds(v, i)
    BY <1>8, ConstantsAssumption DEF DbError, AfterJob, Holds
  <2> QED
    BY <1>8, <2>1, LeaseKept DEF DbError
<1>9. ASSUME NEW w \in Workers, NEW received \in BOOLEAN, Exit(w, received)
      PROVE HeldIsLeased' /\ LeaseExclusive'
  <2>1. \A v \in Workers, i \in Jobs : Holds(v, i)' => Holds(v, i)
    BY <1>9, ConstantsAssumption DEF Exit, Holds
  <2> QED
    BY <1>9, <2>1, LeaseKept DEF Exit
<1>10. ASSUME NEW e \in Events, NEW payload, EnqueuePayload(e, payload),
              UNCHANGED <<pc, cur, batch, disturbed>>
       PROVE HeldIsLeased' /\ LeaseExclusive'
  <2>1. \A v \in Workers, j \in Jobs : Holds(v, j) => Exists(j)
    BY DEF Holds, HeldRowsExist
  <2>2. \A v \in Workers, i \in Jobs : Holds(v, i)' => Holds(v, i)
    BY <1>10 DEF Holds
  <2> QED
    BY <1>10, <2>1, <2>2, EnqueueKeepsRows, LeaseKept
<1>11. ASSUME NEW j \in Jobs, RetryJob(j) PROVE HeldIsLeased' /\ LeaseExclusive'
  <2>1. \A v \in Workers, i \in Jobs : Holds(v, i)' => Holds(v, i)
    BY <1>11 DEF RetryJob, Holds
  <2>2. \A v \in Workers, i \in Jobs \ disturbed' : Holds(v, i) => i # j
    BY <1>11 DEF RetryJob
  <2>3. \A i \in Jobs \ {j} : rows'[i] = rows[i]
    BY <1>11 DEF RetryJob, TableOK
  <2> QED
    BY <1>11, <2>1, <2>2, <2>3, LeaseKept DEF RetryJob
<1>12. CASE Tick
  <2>1. \A v \in Workers, i \in Jobs : Holds(v, i)' <=> Holds(v, i)
    BY <1>12 DEF Tick, Holds
  <2>2. \A v \in Workers, j \in Jobs : Holds(v, j) => Exists(j) /\ rows[j] \in Row
    BY DEF Holds, HeldRowsExist, TableOK, Exists
  <2>3. disturbed \subseteq disturbed'
    BY <1>12 DEF Tick
  <2>4. ASSUME NEW j \in Jobs \ disturbed', NEW v \in Workers, Holds(v, j)
        PROVE rows'[j].status = "retrying" /\ rows'[j].due > 0
    <3>1. rows[j].status = "retrying" /\ rows[j].due > 1
      BY <1>12, <2>2, <2>3, <2>4 DEF Tick, HeldIsLeased, Row
    <3>2. rows'[j] = [rows[j] EXCEPT !.due = Later(rows[j].due)]
      BY <1>12, <2>2, <2>4 DEF Tick, Row
    <3>3. Later(rows[j].due) > 0
      BY <2>2, <2>4, <3>1, ConstantsAssumption DEF Later, Row
    <3> QED
      BY <2>2, <2>4, <3>1, <3>2, <3>3 DEF Row
  <2>5. HeldIsLeased'
    BY <2>1, <2>4 DEF HeldIsLeased
  <2>6. LeaseExclusive'
    BY <2>1, <2>3 DEF LeaseExclusive
  <2> QED
    BY <2>5, <2>6
<1>13. ASSUME UNCHANGED <<rows, pc, cur, batch, disturbed>>
       PROVE HeldIsLeased' /\ LeaseExclusive'
  BY <1>13, LeaseKept DEF Holds
<1>14. CASE Operate
  BY <1>10, <1>11, <1>13, <1>14
  DEF Operate, Trigger, Resend, SetSink, SetLicense, UpdateWebhook
<1>15. CASE UNCHANGED vars
  BY <1>13, <1>15 DEF vars
<1> QED
  BY <1>1, <1>2, <1>3, <1>4, <1>5, <1>6, <1>7, <1>8, <1>9, <1>12, <1>14, <1>15
  DEF Next, Work, Fault

(* Two workers hold the same job only after its lease ran out, or an       *)
(* operator retried it, while one of them had it: FOR UPDATE SKIP LOCKED   *)
(* and the lease of claim_jobs exclude each other's claims until then.     *)
THEOREM LeaseCorrect == Spec => []LeaseExclusive
<1>1. Init => TypeOK /\ LeaseInv
  BY TypeInit, PhasesInit, LeaseInit DEF LeaseInv
<1>2. TypeOK /\ LeaseInv /\ [Next]_vars => (TypeOK /\ LeaseInv)'
  BY TypeStep, PhasesStep, LeaseStep DEF LeaseInv
<1>3. TypeOK /\ LeaseInv => LeaseExclusive
  BY DEF LeaseInv
<1> QED
  BY <1>1, <1>2, <1>3, PTL DEF Spec

-----------------------------------------------------------------------------
(* Delivered means accepted.                                               *)

LEMMA AcceptedStep ==
  TypeOK /\ WorkerPhases /\ AnswersAreTrue /\ OkMeansAccepted /\ [Next]_vars
    => AnswersAreTrue' /\ OkMeansAccepted'
<1> SUFFICES ASSUME TypeOK, WorkerPhases, AnswersAreTrue, OkMeansAccepted, [Next]_vars
             PROVE  AnswersAreTrue' /\ OkMeansAccepted'
  OBVIOUS
<1> USE DEF TypeOK, WorkersOK, table, config, workers, history
<1>1. ASSUME AnswersAreTrue', accepted \subseteq accepted',
             \A j \in Jobs : Exists(j)' /\ rows'[j].status = "ok"
               => Exists(j) /\ rows[j].status = "ok"
      PROVE  AnswersAreTrue' /\ OkMeansAccepted'
  BY <1>1 DEF OkMeansAccepted
<1>2. ASSUME UNCHANGED <<answer, cur, accepted>> PROVE AnswersAreTrue'
  BY <1>2 DEF AnswersAreTrue
<1>3. ASSUME NEW w \in Workers, Claim(w) PROVE AnswersAreTrue' /\ OkMeansAccepted'
  <2>1. PICK ids \in SUBSET Due :
          rows' = [j \in Jobs |-> IF j \in ids THEN Claimed(rows[j]) ELSE rows[j]]
    BY <1>3 DEF Claim
  <2>2. \A j \in ids : rows[j] \in Row
    BY DEF Due, Open, Exists, TableOK
  <2>3. \A j \in Jobs : rows'[j] # rows[j] => j \in ids
    BY <2>1
  <2>4. ASSUME NEW j \in ids PROVE rows'[j].status = "retrying"
    <3>1. rows'[j] = [rows[j] EXCEPT !.status = "retrying", !.due = Lease]
      BY <2>1 DEF Due, Claimed
    <3> QED
      BY <2>2, <3>1 DEF Row
  <2>5. \A j \in Jobs : Exists(j)' /\ rows'[j].status = "ok"
          => Exists(j) /\ rows[j].status = "ok"
    BY <2>3, <2>4 DEF Exists
  <2> QED
    BY <1>1, <1>2, <1>3, <2>5 DEF Claim
<1>4. ASSUME UNCHANGED rows PROVE \A j \in Jobs : Exists(j)' /\ rows'[j].status = "ok"
                                    => Exists(j) /\ rows[j].status = "ok"
  BY <1>4 DEF Exists
<1>5. ASSUME NEW w \in Workers, NEW j \in Jobs, StartJob(w, j)
      PROVE  AnswersAreTrue' /\ OkMeansAccepted'
  <2>1. AnswersAreTrue'
    BY <1>5 DEF StartJob, AnswersAreTrue, WorkerPhases
  <2> QED
    BY <1>1, <1>4, <1>5, <2>1 DEF StartJob
<1>6. ASSUME NEW w \in Workers, NEW received \in BOOLEAN,
             NEW result \in {"ok", "failed"}, PostReturns(w, received, result)
      PROVE AnswersAreTrue' /\ OkMeansAccepted'
  <2>1. AnswersAreTrue'
    BY <1>6 DEF PostReturns, AnswersAreTrue
  <2> QED
    BY <1>1, <1>4, <1>6, <2>1 DEF PostReturns
<1>7. ASSUME NEW w \in Workers, CommitRow(w)
      PROVE  AnswersAreTrue' /\ OkMeansAccepted'
  <2>1. PICK j \in Jobs : j = cur[w] /\ rows[j] \in Row
    BY <1>7 DEF CommitRow, CountedAttempts, HeldRowsExist, Exists, TableOK
  <2>2. AnswersAreTrue' /\ accepted' = accepted
    BY <1>2, <1>7 DEF CommitRow
  <2>3. \A i \in Jobs \ {j} : rows'[i] = rows[i]
    BY <1>7, <2>1 DEF CommitRow, CountedAttempts, TableOK
  <2>4. rows'[j].status \in {NextStatus(w), rows[j].status}
    BY <1>7, <2>1 DEF CommitRow, CountedAttempts, TableOK, Row
  <2>5. NextStatus(w) = "ok" => answer[w] = "ok"
    BY DEF NextStatus
  <2>6. rows'[j].status = "ok" => j \in accepted
    BY <2>1, <2>4, <2>5, ConstantsAssumption DEF AnswersAreTrue, OkMeansAccepted, Exists
  <2> QED
    BY <2>2, <2>3, <2>6 DEF OkMeansAccepted, Exists
<1>8. ASSUME NEW w \in Workers, CleanUp(w) PROVE AnswersAreTrue' /\ OkMeansAccepted'
  <2>1. AnswersAreTrue'
    BY <1>8 DEF CleanUp, AnswersAreTrue
  <2> QED
    BY <1>1, <1>4, <1>8, <2>1 DEF CleanUp
<1>9. ASSUME NEW w \in Workers, DbError(w) PROVE AnswersAreTrue' /\ OkMeansAccepted'
  <2>1. AnswersAreTrue'
    BY <1>9 DEF DbError, AnswersAreTrue
  <2> QED
    BY <1>1, <1>4, <1>9, <2>1 DEF DbError
<1>10. ASSUME NEW w \in Workers, NEW received \in BOOLEAN, Exit(w, received)
       PROVE AnswersAreTrue' /\ OkMeansAccepted'
  <2>1. AnswersAreTrue'
    BY <1>10 DEF Exit, AnswersAreTrue
  <2> QED
    BY <1>1, <1>4, <1>10, <2>1 DEF Exit
<1>11. ASSUME NEW e \in Events, NEW payload, EnqueuePayload(e, payload),
              UNCHANGED <<answer, cur, accepted>>
       PROVE AnswersAreTrue' /\ OkMeansAccepted'
  <2>1. \A j \in Jobs : rows'[j] # rows[j] => rows'[j].status = "pending"
    BY <1>11, EnqueueKeepsRows
  <2>2. \A j \in Jobs : Exists(j)' /\ rows'[j].status = "ok"
          => Exists(j) /\ rows[j].status = "ok"
    BY <2>1 DEF Exists
  <2> QED
    BY <1>1, <1>2, <1>11, <2>2
<1>12. ASSUME NEW j \in Jobs, RetryJob(j) PROVE AnswersAreTrue' /\ OkMeansAccepted'
  <2>1. rows[j] \in Row
    BY <1>12 DEF RetryJob, Exists, TableOK
  <2>2. rows'[j].status = "pending" /\ \A i \in Jobs \ {j} : rows'[i] = rows[i]
    BY <1>12, <2>1 DEF RetryJob, TableOK, Row
  <2> QED
    BY <1>2, <1>12, <2>2 DEF RetryJob, OkMeansAccepted, Exists
<1>13. CASE Tick
  <2>1. \A j \in Jobs : Exists(j) => rows[j] \in Row
    BY DEF Exists, TableOK
  <2>2. \A j \in Jobs : rows'[j] = IF Exists(j) THEN [rows[j] EXCEPT !.due = Later(@)] ELSE NoRow
    BY <1>13 DEF Tick
  <2>3. \A j \in Jobs : Exists(j) => rows'[j].status = rows[j].status
    BY <2>1, <2>2 DEF Row
  <2>4. \A j \in Jobs : Exists(j)' => Exists(j)
    BY <2>2 DEF Exists
  <2> QED
    BY <1>1, <1>2, <1>13, <2>3, <2>4 DEF Tick
<1>14. ASSUME UNCHANGED <<rows, answer, cur, accepted>>
       PROVE AnswersAreTrue' /\ OkMeansAccepted'
  BY <1>1, <1>2, <1>4, <1>14
<1>15. ASSUME NEW w \in Workers, LoadRow(w) \/ Start(w)
       PROVE AnswersAreTrue' /\ OkMeansAccepted'
  BY <1>14, <1>15 DEF LoadRow, Start
<1>16. CASE Operate
  BY <1>11, <1>12, <1>14, <1>16
  DEF Operate, Trigger, Resend, SetSink, SetLicense, UpdateWebhook
<1>17. CASE UNCHANGED vars
  BY <1>14, <1>17 DEF vars
<1> QED
  BY <1>3, <1>5, <1>6, <1>7, <1>8, <1>9, <1>10, <1>13, <1>15, <1>16, <1>17
  DEF Next, Work, Fault

(* A row never says "ok" for an event no receiver accepted.                *)
THEOREM DeliveryCorrect == Spec => []OkMeansAccepted
<1>1. Init => TypeOK /\ WorkerPhases /\ AnswersAreTrue /\ OkMeansAccepted
  <2>1. Init => AnswersAreTrue /\ OkMeansAccepted
    BY DEF Init, AnswersAreTrue, OkMeansAccepted, Exists
  <2> QED
    BY <2>1, TypeInit, PhasesInit
<1>2. TypeOK /\ WorkerPhases /\ AnswersAreTrue /\ OkMeansAccepted /\ [Next]_vars
        => (TypeOK /\ WorkerPhases /\ AnswersAreTrue /\ OkMeansAccepted)'
  BY TypeStep, PhasesStep, AcceptedStep
<1> QED
  BY <1>1, <1>2, PTL DEF Spec

-----------------------------------------------------------------------------
(* The retry budget.                                                       *)

(* What a job has to do with BudgetRespected.                              *)
Budgeted(j) ==
  Exists(j) =>
    /\ Open(j) => rows[j].attempts < MaxAttempts
    /\ rows[j].status = "dead" =>
         rows[j].error = "skipped" \/ rows[j].attempts = MaxAttempts

LEMMA BudgetStep == TypeOK /\ LeaseInv /\ BudgetInv /\ [Next]_vars => BudgetInv'
<1> SUFFICES ASSUME TypeOK, LeaseInv, BudgetInv, [Next]_vars PROVE BudgetInv'
  OBVIOUS
<1> USE DEF TypeOK, WorkersOK, LeaseInv, BudgetInv, table, config, workers, history
<1>1. \A j \in Jobs \ disturbed : Budgeted(j)
  BY DEF BudgetRespected, Budgeted
<1>2. \A w \in Workers : pc[w] \in {"answered", "loaded"} =>
        Holds(w, cur[w]) /\ cur[w] \in Jobs /\ Exists(cur[w]) /\ rows[cur[w]] \in Row
  BY DEF Holds, HeldRowsExist, TableOK, Exists
(* A step that leaves what loaded workers loaded alone.                    *)
<1>3. ASSUME disturbed \subseteq disturbed', UNCHANGED <<pc, cur, loaded>>,
             \A w \in Workers : pc[w] = "loaded" /\ cur[w] \notin disturbed' =>
               /\ rows'[cur[w]].status = rows[cur[w]].status
               /\ rows'[cur[w]].attempts = rows[cur[w]].attempts
      PROVE  LoadedIsCurrent'
  BY <1>3 DEF LoadedIsCurrent
(* A step that leaves the table alone.                                     *)
<1>4. ASSUME UNCHANGED <<rows, disturbed>> PROVE BudgetRespected'
  BY <1>4 DEF BudgetRespected, Open, Exists
<1>5. ASSUME UNCHANGED <<rows, disturbed, loaded, cur>>,
             \A w \in Workers : pc'[w] = "loaded" => pc[w] = "loaded"
      PROVE  LoadedIsCurrent'
  BY <1>5 DEF LoadedIsCurrent
<1>6. ASSUME UNCHANGED <<rows, disturbed>>,
             \A v \in Workers : pc'[v] = "loaded" =>
               pc[v] = "loaded" /\ loaded'[v] = loaded[v] /\ cur'[v] = cur[v]
      PROVE  LoadedIsCurrent'
  BY <1>6 DEF LoadedIsCurrent
<1>7. ASSUME NEW w \in Workers, Claim(w) PROVE BudgetInv'
  <2>1. PICK ids \in SUBSET Due :
          rows' = [j \in Jobs |-> IF j \in ids THEN Claimed(rows[j]) ELSE rows[j]]
    BY <1>7 DEF Claim
  <2>2. \A j \in ids : j \in Jobs /\ Open(j) /\ rows[j].due <= 0 /\ rows[j] \in Row
    BY DEF Due, Open, Exists, TableOK
  <2>3. \A j \in Jobs \ ids : rows'[j] = rows[j]
    BY <2>1
  <2>4. ASSUME NEW j \in ids
        PROVE  rows'[j].status = "retrying" /\ rows'[j].attempts = rows[j].attempts
    <3>1. rows'[j] = [rows[j] EXCEPT !.status = "retrying", !.due = Lease]
      BY <2>1, <2>2 DEF Claimed
    <3> QED
      BY <2>2, <3>1 DEF Row
  <2>5. \A v \in Workers, j \in ids \ disturbed : ~Holds(v, j)
    BY <2>2 DEF HeldIsLeased, Row
  <2>6. \A v \in Workers : pc[v] = "loaded" /\ cur[v] \notin disturbed => cur[v] \notin ids
    BY <1>2, <2>5
  <2>7. LoadedIsCurrent'
    BY <1>2, <1>7, <2>3, <2>6 DEF Claim, LoadedIsCurrent
  <2>8. ASSUME NEW j \in Jobs \ disturbed PROVE Budgeted(j)'
    <3>1. CASE j \in ids
      <4>1. rows'[j].status = "retrying" /\ rows'[j].attempts = rows[j].attempts
        BY <2>4, <3>1
      <4>2. rows[j].attempts < MaxAttempts
        BY <1>1, <2>2, <3>1 DEF Budgeted, Open
      <4> QED
        BY <4>1, <4>2 DEF Budgeted
    <3>2. CASE j \notin ids
      <4>1. rows'[j] = rows[j]
        BY <2>3, <3>2
      <4> QED
        BY <1>1, <4>1 DEF Budgeted, Open, Exists
    <3> QED
      BY <3>1, <3>2
  <2>9. disturbed' = disturbed
    BY <1>7 DEF Claim
  <2>10. BudgetRespected'
    BY <2>8, <2>9 DEF BudgetRespected, Budgeted, Open, Exists
  <2> QED
    BY <2>7, <2>10
<1>8. ASSUME NEW w \in Workers, CommitRow(w) PROVE BudgetInv'
  <2>1. PICK j \in Jobs : j = cur[w] /\ rows[j] \in Row /\ Exists(j) /\ Holds(w, j)
    BY <1>2, <1>8 DEF CommitRow
  <2>2. \A i \in Jobs \ {j} : rows'[i] = rows[i]
    BY <1>8, <2>1 DEF CommitRow, CountedAttempts, TableOK
  <2>3. disturbed' = disturbed /\ loaded' = loaded /\ cur' = cur /\ answer' = answer
    BY <1>8 DEF CommitRow
  <2>4. \A v \in Workers : pc'[v] = "loaded" => pc[v] = "loaded" /\ v # w
    BY <1>8 DEF CommitRow
  <2>5. \A v \in Workers : pc'[v] = "loaded" /\ cur[v] \notin disturbed => cur[v] # j
    BY <1>2, <2>1, <2>4 DEF LeaseExclusive
  <2>6. LoadedIsCurrent'
    BY <1>2, <2>2, <2>3, <2>4, <2>5 DEF LoadedIsCurrent
  <2>7. ASSUME j \notin disturbed PROVE Budgeted(j)'
    <3>1. /\ loaded[w].status = "retrying"
          /\ loaded[w].attempts = rows[j].attempts
          /\ rows[j].status = "retrying"
      BY <1>8, <2>1, <2>7 DEF CommitRow, CountedAttempts, LoadedIsCurrent, HeldIsLeased
    <3>2. rows[j].attempts \in Nat /\ rows[j].attempts < MaxAttempts
      BY <1>1, <2>1, <2>7, <3>1 DEF Budgeted, Open, Row
    <3>3. answer[w] \in {"ok", "failed", "skipped"}
      BY <1>8 DEF CommitRow, CountedAttempts, WorkerPhases
    <3>4. /\ rows'[j].status = NextStatus(w)
          /\ rows'[j].attempts = rows[j].attempts + 1
          /\ NextStatus(w) # "ok" => rows'[j].error = answer[w]
      BY <1>8, <2>1, <3>1 DEF CommitRow, CountedAttempts, TableOK, Row
    <3>5. CASE answer[w] = "ok"
      <4>1. rows'[j].status = "ok"
        BY <3>4, <3>5 DEF NextStatus
      <4> QED
        BY <4>1 DEF Budgeted, Open
    <3>6. CASE answer[w] = "skipped"
      <4>1. rows'[j].status = "dead" /\ rows'[j].error = "skipped"
        BY <3>4, <3>6 DEF NextStatus
      <4> QED
        BY <4>1 DEF Budgeted, Open
    <3>7. CASE answer[w] = "failed"
      <4>1. NextStatus(w) = IF rows[j].attempts + 1 >= MaxAttempts
                            THEN "dead" ELSE "retrying"
        BY <3>1, <3>7 DEF NextStatus
      <4>2. CASE rows[j].attempts + 1 >= MaxAttempts
        <5>1. rows'[j].status = "dead" /\ rows'[j].attempts = MaxAttempts
          BY <3>2, <3>4, <4>1, <4>2, ConstantsAssumption
        <5> QED
          BY <5>1 DEF Budgeted, Open
      <4>3. CASE ~(rows[j].attempts + 1 >= MaxAttempts)
        <5>1. rows'[j].status = "retrying" /\ rows'[j].attempts < MaxAttempts
          BY <3>2, <3>4, <4>1, <4>3, ConstantsAssumption
        <5> QED
          BY <5>1 DEF Budgeted, Open
      <4> QED
        BY <4>2, <4>3
    <3> QED
      BY <3>3, <3>5, <3>6, <3>7
  <2>8. BudgetRespected'
    BY <1>1, <2>2, <2>3, <2>7 DEF BudgetRespected, Budgeted, Open, Exists
  <2> QED
    BY <2>6, <2>8
<1>9. ASSUME NEW w \in Workers, LoadRow(w) PROVE BudgetInv'
  <2>1. LoadedIsCurrent'
    BY <1>9 DEF LoadRow, LoadedIsCurrent
  <2> QED
    BY <1>4, <1>9, <2>1 DEF LoadRow
<1>10. ASSUME NEW e \in Events, NEW payload, EnqueuePayload(e, payload),
              UNCHANGED <<pc, cur, loaded, disturbed>>
       PROVE BudgetInv'
  <2>1. \A j \in Jobs : rows'[j] # rows[j] =>
          ~Exists(j) /\ rows'[j].status = "pending" /\ rows'[j].attempts = 0
    BY <1>10, EnqueueKeepsRows
  <2>2. LoadedIsCurrent'
    BY <1>2, <1>3, <1>10, <2>1
  <2>3. BudgetRespected'
    BY <1>1, <1>10, <2>1, ConstantsAssumption DEF BudgetRespected, Budgeted, Open, Exists
  <2> QED
    BY <2>2, <2>3
<1>11. ASSUME NEW j \in Jobs, RetryJob(j) PROVE BudgetInv'
  <2>1. rows[j] \in Row /\ \A i \in Jobs \ {j} : rows'[i] = rows[i]
    BY <1>11 DEF RetryJob, Exists, TableOK
  <2>2. rows'[j].status = "pending" /\ rows'[j].attempts = 0
    BY <1>11, <2>1 DEF RetryJob, TableOK, Row
  <2>3. /\ disturbed \subseteq disturbed'
        /\ \A w \in Workers : Holds(w, j) => j \in disturbed'
    BY <1>11 DEF RetryJob
  <2>4. LoadedIsCurrent'
    BY <1>2, <1>3, <1>11, <2>1, <2>3 DEF RetryJob
  <2>5. BudgetRespected'
    BY <1>1, <2>1, <2>2, <2>3, ConstantsAssumption
    DEF BudgetRespected, Budgeted, Open, Exists
  <2> QED
    BY <2>4, <2>5
<1>12. CASE Tick
  <2>1. \A j \in Jobs : Exists(j) => rows[j] \in Row
    BY DEF Exists, TableOK
  <2>2. \A j \in Jobs :
          rows'[j] = IF Exists(j) THEN [rows[j] EXCEPT !.due = Later(@)] ELSE NoRow
    BY <1>12 DEF Tick
  <2>3. \A j \in Jobs : Exists(j) =>
          /\ rows'[j].status = rows[j].status
          /\ rows'[j].attempts = rows[j].attempts
          /\ rows'[j].error = rows[j].error
    BY <2>1, <2>2 DEF Row
  <2>4. \A j \in Jobs : Exists(j)' => Exists(j)
    BY <2>2 DEF Exists
  <2>5. disturbed \subseteq disturbed'
    BY <1>12 DEF Tick
  <2>6. LoadedIsCurrent'
    BY <1>2, <1>3, <1>12, <2>3, <2>5 DEF Tick
  <2>7. BudgetRespected'
    BY <1>1, <2>3, <2>4, <2>5 DEF BudgetRespected, Budgeted, Open
  <2> QED
    BY <2>6, <2>7
<1>13. ASSUME NEW w \in Workers, NEW j \in Jobs, StartJob(w, j) PROVE BudgetInv'
  BY <1>4, <1>6, <1>13 DEF StartJob
<1>14. ASSUME NEW w \in Workers, NEW received \in BOOLEAN,
              NEW result \in {"ok", "failed"}, PostReturns(w, received, result)
       PROVE BudgetInv'
  BY <1>4, <1>6, <1>14 DEF PostReturns
<1>15. ASSUME NEW w \in Workers, CleanUp(w) PROVE BudgetInv'
  BY <1>4, <1>6, <1>15 DEF CleanUp, AfterJob
<1>16. ASSUME NEW w \in Workers, Start(w) PROVE BudgetInv'
  BY <1>4, <1>6, <1>16 DEF Start
<1>17. ASSUME NEW w \in Workers, DbError(w) PROVE BudgetInv'
  BY <1>4, <1>6, <1>17 DEF DbError, AfterJob
<1>18. ASSUME NEW w \in Workers, NEW received \in BOOLEAN, Exit(w, received)
       PROVE BudgetInv'
  BY <1>4, <1>6, <1>18 DEF Exit
<1>19. ASSUME UNCHANGED <<rows, disturbed, loaded, cur, pc>> PROVE BudgetInv'
  BY <1>4, <1>5, <1>19
<1>20. CASE Operate
  BY <1>10, <1>11, <1>19, <1>20
  DEF Operate, Trigger, Resend, SetSink, SetLicense, UpdateWebhook
<1>21. CASE UNCHANGED vars
  BY <1>19, <1>21 DEF vars
<1> QED
  BY <1>7, <1>8, <1>9, <1>12, <1>13, <1>14, <1>15, <1>16, <1>17, <1>18, <1>20, <1>21
  DEF Next, Work, Fault

LEMMA InvariantInit == Init => TypeOK /\ LeaseInv /\ BudgetInv
<1>1. Init => BudgetInv
  BY DEF Init, BudgetInv, LoadedIsCurrent, BudgetRespected, Exists
<1> QED
  BY <1>1, TypeInit, PhasesInit, LeaseInit DEF LeaseInv

LEMMA InvariantStep ==
  TypeOK /\ LeaseInv /\ BudgetInv /\ [Next]_vars => (TypeOK /\ LeaseInv /\ BudgetInv)'
  BY TypeStep, PhasesStep, LeaseStep, BudgetStep DEF LeaseInv

(* A row whose deliveries never overlapped is sent again only while it has *)
(* attempts left, and is given up only when it has none or its delivery is *)
(* switched off.                                                           *)
THEOREM BudgetCorrect == Spec => []BudgetRespected
<1>1. BudgetInv => BudgetRespected
  BY DEF BudgetInv
<1> QED
  BY <1>1, InvariantInit, InvariantStep, PTL DEF Spec

(* The step of DeliveredIsFinal.                                           *)
FinalStep ==
  \A j \in Jobs \ disturbed :
    Exists(j) /\ rows[j].status = "ok" /\ rows'[j].status # "ok"
      => rows'[j].status = "pending"

LEMMA DeliveredStep == TypeOK /\ LeaseInv /\ [Next]_vars => FinalStep
<1> SUFFICES ASSUME TypeOK, LeaseInv, [Next]_vars,
                    NEW j \in Jobs \ disturbed,
                    Exists(j), rows[j].status = "ok", rows'[j].status # "ok"
             PROVE  rows'[j].status = "pending"
  BY DEF FinalStep
<1> USE DEF TypeOK, WorkersOK, LeaseInv, table, config, workers, history
<1>1. rows'[j] # rows[j] /\ rows[j] \in Row
  BY DEF TableOK, Exists
<1>2. ASSUME NEW w \in Workers, Claim(w) PROVE FALSE
  <2>1. \A i \in Jobs \ Due : rows'[i] = rows[i]
    BY <1>2 DEF Claim
  <2>2. j \notin Due
    BY DEF Due, Open
  <2> QED
    BY <1>1, <2>1, <2>2
<1>3. ASSUME NEW w \in Workers, CommitRow(w) PROVE FALSE
  <2>1. cur[w] \in Jobs /\ Holds(w, cur[w])
    BY <1>3 DEF CommitRow, CountedAttempts, HeldRowsExist, Holds
  <2>2. cur[w] # j
    BY <2>1 DEF HeldIsLeased
  <2> QED
    BY <1>1, <1>3, <2>1, <2>2 DEF CommitRow, CountedAttempts, TableOK
<1>4. ASSUME NEW e \in Events, NEW payload, EnqueuePayload(e, payload) PROVE FALSE
  BY <1>1, <1>4, EnqueueKeepsRows
<1>5. ASSUME NEW i \in Jobs, RetryJob(i) PROVE rows'[j].status = "pending"
  <2>1. i = j
    BY <1>1, <1>5 DEF RetryJob, TableOK
  <2> QED
    BY <1>1, <1>5, <2>1 DEF RetryJob, TableOK, Row
<1>6. CASE Tick
  <2>1. rows'[j] = [rows[j] EXCEPT !.due = Later(@)]
    BY <1>6 DEF Tick
  <2> QED
    BY <1>1, <2>1 DEF Row
<1>7. CASE UNCHANGED rows
  BY <1>1, <1>7
<1>8. ASSUME NEW w \in Workers,
             \/ \E i \in Jobs : StartJob(w, i)
             \/ \E received \in BOOLEAN, result \in {"ok", "failed"} :
                  PostReturns(w, received, result)
             \/ LoadRow(w) \/ CleanUp(w) \/ Start(w) \/ Fault(w)
      PROVE  UNCHANGED rows
  BY <1>8 DEF StartJob, PostReturns, LoadRow, CleanUp, Start, Fault, DbError, Exit
<1>9. CASE Operate
  BY <1>4, <1>5, <1>7, <1>9
  DEF Operate, Trigger, Resend, SetSink, SetLicense, UpdateWebhook
<1>10. CASE UNCHANGED vars
  BY <1>7, <1>10 DEF vars
<1> QED
  BY <1>2, <1>3, <1>6, <1>7, <1>8, <1>9, <1>10 DEF Next, Work

(* A delivered row is sent again only when an operator asks, unless its    *)
(* deliveries overlapped.                                                  *)
THEOREM DeliveredCorrect == Spec => DeliveredIsFinal
<1>1. Init => TypeOK /\ LeaseInv
  BY TypeInit, PhasesInit, LeaseInit DEF LeaseInv
<1>2. TypeOK /\ LeaseInv /\ [Next]_vars => (TypeOK /\ LeaseInv)'
  BY TypeStep, PhasesStep, LeaseStep DEF LeaseInv
<1>3. TypeOK /\ LeaseInv /\ [Next]_vars => [FinalStep]_vars
  BY DeliveredStep
<1>4. DeliveredIsFinal <=> [][FinalStep]_vars
  BY DEF DeliveredIsFinal, FinalStep
<1> QED
  BY <1>1, <1>2, <1>3, <1>4, PTL DEF Spec

-----------------------------------------------------------------------------
(* The clips.                                                              *)

(* The file of an event is removed only when MinIO has the clip, and a row *)
(* is only there for an event that happened and whose payload was taken.   *)
ClipInv ==
  /\ \A e \in Events : event[e] # NoEvent /\ event[e].path => e \in onDisk \/ event[e].key
  /\ \A j \in Jobs : Exists(j) =>
       LET e == rows[j].event
       IN  /\ e \in Events /\ event[e] # NoEvent
           /\ event[e].video => event[e].path \/ event[e].key

(* What enqueue_payload adds is about its event.                           *)
LEMMA EnqueueAbout ==
  ASSUME TypeOK, NEW e \in Events, NEW payload, EnqueuePayload(e, payload)
  PROVE  \A j \in Jobs : rows'[j] # rows[j] =>
           rows'[j].event = e /\ (payload.video => payload.path \/ payload.key)
<1>1. CASE UNCHANGED rows
  BY <1>1
<1>2. CASE ~UNCHANGED rows
  <2>1. PICK id \in [UniqueUrlHooks -> {j \in Jobs : ~Exists(j)}] :
          rows' = [j \in Jobs |->
                     IF \E h \in UniqueUrlHooks : id[h] = j
                     THEN NewRow(e, CHOOSE h \in UniqueUrlHooks : id[h] = j)
                     ELSE rows[j]]
    BY <1>2 DEF EnqueuePayload
  <2>2. payload.video => payload.path \/ payload.key
    BY <1>2 DEF EnqueuePayload
  <2>3. \A h : NewRow(e, h).event = e
    BY DEF NewRow
  <2> QED
    BY <2>1, <2>2, <2>3
<1> QED
  BY <1>1, <1>2

LEMMA ClipStep == TypeOK /\ ClipInv /\ [Next]_vars => ClipInv'
<1> SUFFICES ASSUME TypeOK, ClipInv, [Next]_vars PROVE ClipInv'
  OBVIOUS
<1> USE DEF TypeOK, table, config, workers, history
<1>0. /\ rows \in [Jobs -> Row \cup {NoRow}] /\ NoRow \notin Row
      /\ \A j \in Jobs : Exists(j) => rows[j] \in Row
      /\ event \in [Events -> Payload \cup {NoEvent}] /\ NoEvent \notin Payload
  BY ConstantsAssumption DEF TableOK, EnvironmentOK, Exists
(* A step that leaves the events and the rows' events alone.               *)
<1>1. ASSUME UNCHANGED event,
             \A e \in onDisk \ onDisk' : event[e].key,
             \A j \in Jobs : Exists(j)' => Exists(j) /\ rows'[j].event = rows[j].event
      PROVE  ClipInv'
  BY <1>1 DEF ClipInv
<1>2. ASSUME NEW w \in Workers, Claim(w) PROVE ClipInv'
  <2>1. UNCHANGED <<event, onDisk>>
    BY <1>2 DEF Claim
  <2>2. ASSUME NEW j \in Jobs PROVE Exists(j)' => Exists(j) /\ rows'[j].event = rows[j].event
    <3>1. rows'[j] = rows[j] \/ (j \in Due /\ rows'[j] = Claimed(rows[j]))
      BY <1>2 DEF Claim
    <3>2. j \in Due => Exists(j) /\ Claimed(rows[j]).event = rows[j].event
      BY <1>0 DEF Due, Open, Claimed, Row
    <3> QED
      BY <3>1, <3>2 DEF Exists
  <2> QED
    BY <1>1, <2>1, <2>2
<1>3. ASSUME NEW w \in Workers, CommitRow(w) PROVE ClipInv'
  <2>1. PICK j \in Jobs : j = cur[w] /\ rows[j] \in Row /\ Exists(j)
    BY <1>0, <1>3 DEF CommitRow, HeldRowsExist
  <2>2. \A i \in Jobs \ {j} : rows'[i] = rows[i]
    BY <1>0, <1>3, <2>1 DEF CommitRow
  <2>3. rows'[j].event = rows[j].event
    BY <1>0, <1>3, <2>1 DEF CommitRow, Row
  <2>4. UNCHANGED <<event, onDisk>>
    BY <1>3 DEF CommitRow
  <2> QED
    BY <1>1, <2>1, <2>2, <2>3, <2>4 DEF Exists
<1>4. ASSUME NEW w \in Workers, CleanUp(w) PROVE ClipInv'
  BY <1>1, <1>4 DEF CleanUp, RemovesClip, Exists
<1>5. ASSUME NEW e \in Events, event'[e] \in Payload, EnqueuePayload(e, event'[e]),
             \A f \in Events \ {e} : event'[f] = event[f],
             event[e] \in {NoEvent, event'[e]}, onDisk \subseteq onDisk',
             event[e] = NoEvent /\ event'[e].path => e \in onDisk'
      PROVE  ClipInv'
  <2>1. \A f \in Events : event'[f] # NoEvent /\ event'[f].path => f \in onDisk' \/ event'[f].key
    BY <1>5 DEF ClipInv
  <2>2. ASSUME NEW j \in Jobs, Exists(j)'
        PROVE  /\ rows'[j].event \in Events /\ event'[rows'[j].event] # NoEvent
               /\ event'[rows'[j].event].video =>
                    event'[rows'[j].event].path \/ event'[rows'[j].event].key
    <3>1. CASE rows'[j] = rows[j]
      <4>1. PICK f \in Events : /\ f = rows[j].event /\ event[f] # NoEvent
                                /\ event[f].video => event[f].path \/ event[f].key
        BY <2>2, <3>1 DEF ClipInv, Exists
      <4>2. event'[f] = event[f]
        BY <1>5, <4>1
      <4> QED
        BY <3>1, <4>1, <4>2
    <3>2. CASE rows'[j] # rows[j]
      <4>1. rows'[j].event = e /\ (event'[e].video => event'[e].path \/ event'[e].key)
        BY <1>5, <3>2, EnqueueAbout
      <4> QED
        BY <1>0, <1>5, <4>1
    <3> QED
      BY <3>1, <3>2
  <2> QED
    BY <2>1, <2>2 DEF ClipInv
<1>6. ASSUME NEW e \in Events, NEW payload \in Payloads, Trigger(e, payload) PROVE ClipInv'
  <2>1. event' = [event EXCEPT ![e] = payload] /\ payload \in Payload
    BY <1>6, ConstantsAssumption DEF Trigger
  <2>2. event'[e] = payload /\ \A f \in Events \ {e} : event'[f] = event[f]
    BY <1>0, <2>1
  <2> QED
    BY <1>5, <1>6, <2>1, <2>2 DEF Trigger
<1>7. ASSUME NEW e \in Events, Resend(e) PROVE ClipInv'
  BY <1>0, <1>5, <1>7 DEF Resend
<1>8. ASSUME NEW j \in Jobs, RetryJob(j) PROVE ClipInv'
  <2>1. rows[j] \in Row /\ Exists(j) /\ UNCHANGED <<event, onDisk>>
    BY <1>0, <1>8 DEF RetryJob
  <2>2. \A i \in Jobs \ {j} : rows'[i] = rows[i]
    BY <1>0, <1>8 DEF RetryJob
  <2>3. rows'[j].event = rows[j].event
    BY <1>0, <1>8, <2>1 DEF RetryJob, Row
  <2> QED
    BY <1>1, <2>1, <2>2, <2>3 DEF Exists
<1>9. CASE Tick
  <2>1. ASSUME NEW j \in Jobs PROVE Exists(j)' => Exists(j) /\ rows'[j].event = rows[j].event
    BY <1>0, <1>9 DEF Tick, Exists, Row
  <2> QED
    BY <1>1, <1>9, <2>1 DEF Tick
<1>10. ASSUME UNCHANGED <<rows, event, onDisk>> PROVE ClipInv'
  BY <1>1, <1>10 DEF Exists
<1>11. ASSUME NEW w \in Workers,
             \/ \E j \in Jobs : StartJob(w, j)
             \/ \E received \in BOOLEAN, result \in {"ok", "failed"} : PostReturns(w, received, result)
             \/ LoadRow(w) \/ Start(w) \/ Fault(w)
      PROVE  ClipInv'
  BY <1>10, <1>11 DEF StartJob, PostReturns, LoadRow, Start, Fault, DbError, Exit
<1>12. CASE Operate
  BY <1>6, <1>7, <1>8, <1>10, <1>12 DEF Operate, SetSink, SetLicense, UpdateWebhook
<1>13. CASE UNCHANGED vars
  BY <1>10, <1>13 DEF vars
<1> QED
  BY <1>2, <1>3, <1>4, <1>9, <1>11, <1>12, <1>13 DEF Next, Work

(* The clip of an incident outlives the deliveries that need it: its file  *)
(* goes only after one delivery, and only when MinIO can give it back to   *)
(* the others (delivery.py:364).                                           *)
THEOREM ClipCorrect == Spec => []ClipOutlivesDelivery
<1>1. Init => ClipInv
  BY DEF Init, ClipInv, Exists
<1>2. ClipInv => ClipOutlivesDelivery
  BY DEF ClipInv, ClipOutlivesDelivery, Open
<1> QED
  BY TypeInit, TypeStep, ClipStep, <1>1, <1>2, PTL DEF Spec
============================================================================
