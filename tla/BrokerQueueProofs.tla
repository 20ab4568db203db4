------------------------- MODULE BrokerQueueProofs -------------------------
(***************************************************************************)
(* Theorems about the Redis and the hybrid backend, for any number of      *)
(* jobs, requests, consumers, instances and executions, and every bound.   *)
(***************************************************************************)
EXTENDS BrokerQueue, TLAPS

(* The types, and two facts they lean on: what follows a written row is for that row, and only a cancel
   is past cancelOnTransport. *)
TypeInv ==
    /\ TypeOK
    /\ \A x \in Callers : stage[x] # "none" => stageJob[x] \in Jobs
    /\ \A r \in removed : reqOp[r] = "cancel"

LEMMA InitTypeInv == Init => TypeInv
  <1> SUFFICES ASSUME Init
               PROVE  TypeInv
    OBVIOUS
  <1>1. BaseTypeOK
    BY DEF Init, BaseInit, BaseTypeOK, Statuses
  <1>2. WorkerTypeOK
    BY DEF Init, WorkerInit, WorkerTypeOK, Accepted, Counted, Marks
  <1>3. QED
    BY <1>1, <1>2, JobsAssumption DEF Init, TypeOK, TypeInv

(* Requests keep the types. *)
LEMMA RequestTypeInv == TypeInv /\ Request => TypeInv'
  <1> SUFFICES ASSUME TypeInv, Request
               PROVE  TypeInv'
    OBVIOUS
  <1> USE JobsAssumption, BrokerAssumption
      DEF TypeInv, TypeOK, BaseTypeOK, WorkerTypeOK, Statuses, Callers, To, rowVars, requestVars,
          baseVars, executionVars, workerVars, transportVars, consumerVars, overflowVars, brokerVars, markVars
  <1>1. ASSUME NEW s \in Submitters, NEW j \in Jobs, AddJobCheck(s, j)
        PROVE  TypeInv'
    BY <1>1 DEF AddJobCheck, CheckRateLimit
  <1>2. ASSUME NEW s \in Submitters, AddJobCreate(s)
        PROVE  TypeInv'
    BY <1>2 DEF AddJobCreate, CreateJob
  <1>3. ASSUME NEW s \in Submitters, Probe(s)
        PROVE  TypeInv'
    BY <1>3, SMTT(30) DEF Probe, Send, Note, Marks
  <1>4. ASSUME NEW r \in Requests, NEW j \in Jobs, CancelRead(r, j)
        PROVE  TypeInv'
    BY <1>4 DEF CancelRead, ReadForCancel
  <1>5. ASSUME NEW r \in Requests, NEW j \in Jobs, RetryRead(r, j)
        PROVE  TypeInv'
    BY <1>5 DEF RetryRead, ReadForRetry
  <1>6. ASSUME NEW r \in Requests, CancelOnTransport(r)
        PROVE  TypeInv'
    <2>1. CASE bull[reqJob[r]] = "active"
      BY <1>6, <2>1, SMTT(30) DEF CancelOnTransport
    <2>2. CASE bull[reqJob[r]] # "active"
      BY <1>6, <2>2 DEF CancelOnTransport
    <2>3. QED
      BY <2>1, <2>2
  <1>7. ASSUME NEW r \in Requests, CancelWrite(r)
        PROVE  TypeInv'
    BY <1>7 DEF CancelWrite, WriteCancelled
  <1>8. ASSUME NEW r \in Requests, RetryWrite(r)
        PROVE  TypeInv'
    BY <1>8 DEF RetryWrite, WriteRequeued
  <1>9. ASSUME NEW x \in Callers, QueueAdd(x)
        PROVE  TypeInv'
    <2>1. stageJob[x] \in Jobs
      BY <1>9 DEF QueueAdd
    <2>2. /\ bull' \in [Jobs -> {"none", "waiting", "active", "kept"}]
          /\ orphans' \in SUBSET Jobs
      BY <1>9, <2>1 DEF QueueAdd
    <2>3. /\ stage' \in [Callers -> {"none", "add", "probe"}]
          /\ stageJob' \in [Callers -> Jobs \cup {NoJob}]
          /\ \A y \in Callers : stage'[y] # "none" => stageJob'[y] \in Jobs
      BY <1>9, <2>1 DEF QueueAdd
    <2>4. UNCHANGED <<baseVars, workerVars, queueType, removed, consumerVars, overflowVars>>
      BY <1>9 DEF QueueAdd
    <2>6. stalled' \in SUBSET Jobs /\ late' \in SUBSET Jobs
      BY <1>9, <2>1 DEF QueueAdd
    <2>5. QED
      BY <2>2, <2>3, <2>4, <2>6
  <1>10. ASSUME NEW x \in Callers, QueueAddFails(x)
         PROVE  TypeInv'
    BY <1>10 DEF QueueAddFails, ApiFault, Fault
  <1>11. QED
    BY <1>1, <1>2, <1>3, <1>4, <1>5, <1>6, <1>7, <1>8, <1>9, <1>10 DEF Request

(* So do the consumers. *)
LEMMA ConsumeTypeInv == TypeInv /\ Consume => TypeInv'
  <1> SUFFICES ASSUME TypeInv, Consume
               PROVE  TypeInv'
    OBVIOUS
  <1> USE JobsAssumption
      DEF TypeInv, TypeOK, BaseTypeOK, WorkerTypeOK, Statuses, Running, Goto, EndJob, SetMine, rowVars,
          requestVars, baseVars, executionVars, workerVars, transportVars, consumerVars, overflowVars,
          brokerVars, markVars, noConsumerVars
  <1>1. ASSUME NEW c \in Consumers, NEW j \in Jobs, TakeJob(c, j)
        PROVE  TypeInv'
    BY <1>1 DEF TakeJob
  <1>2. ASSUME NEW c \in Consumers, ReadRow(c)
        PROVE  TypeInv'
    BY <1>2, SMTT(30) DEF ReadRow
  <1>3. ASSUME NEW c \in Consumers, Mark(c)
        PROVE  TypeInv'
    BY <1>3 DEF Mark
  <1>4. ASSUME NEW c \in Consumers, ScanEnds(c)
        PROVE  TypeInv'
    BY <1>4 DEF ScanEnds
  <1>5. ASSUME NEW c \in Consumers, Save(c)
        PROVE  TypeInv'
    BY <1>5 DEF Save
  <1>6. ASSUME NEW c \in Consumers, Complete(c)
        PROVE  TypeInv'
    BY <1>6 DEF Complete
  <1>7. ASSUME NEW c \in Consumers, WriteFailed(c)
        PROVE  TypeInv'
    BY <1>7 DEF WriteFailed
  <1>8. ASSUME NEW c \in Consumers, Acknowledge(c)
        PROVE  TypeInv'
    BY <1>8 DEF Acknowledge
  <1>9. ASSUME NEW c \in Consumers, ConsumerCallFails(c)
        PROVE  TypeInv'
    <2>1. mine[c] \in Jobs /\ faults' \in Nat
      BY <1>9 DEF ConsumerCallFails, ApiFault, Fault
    <2>2. history' \in [Jobs -> SUBSET Marks]
      BY <1>9 DEF ConsumerCallFails, Note, Marks
    <2>3. status' \in [Jobs -> Statuses] /\ UNCHANGED <<attempts, nextRetryAt, queuedAt, lastQueuedAt>>
      BY <1>9 DEF ConsumerCallFails
    <2>4. /\ bull' \in [Jobs -> {"none", "waiting", "active", "kept"}]
          /\ orphans' \in SUBSET Jobs
      BY <1>9, <2>1 DEF ConsumerCallFails
    <2>5. /\ pc' \in [Consumers -> {"idle", "read", "mark", "ack"} \cup Running]
          /\ mine' \in [Consumers -> Jobs \cup {NoJob}]
          /\ \A d \in Consumers : pc'[d] # "idle" <=> mine'[d] \in Jobs
      BY <1>9, <2>1 DEF ConsumerCallFails
    <2>6. UNCHANGED <<stalled, late, noConsumerVars>>
      BY <1>9 DEF ConsumerCallFails
    <2>7. QED
      BY <2>1, <2>2, <2>3, <2>4, <2>5, <2>6
  <1>10. QED
    BY <1>1, <1>2, <1>3, <1>4, <1>5, <1>6, <1>7, <1>8, <1>9 DEF Consume, Process

(* So do the overflow and a restart. *)
LEMMA OverflowTypeInv == TypeInv /\ (Overflow \/ Restart) => TypeInv'
  <1> SUFFICES ASSUME TypeInv, Overflow \/ Restart
               PROVE  TypeInv'
    OBVIOUS
  <1> USE JobsAssumption
      DEF TypeInv, TypeOK, BaseTypeOK, WorkerTypeOK, rowVars, requestVars, baseVars, executionVars, workerVars,
          transportVars, consumerVars, overflowVars, brokerVars, markVars, brokerRest
  <1>1. ASSUME NEW j \in Jobs, GrowOld(j)
        PROVE  TypeInv'
    BY <1>1 DEF GrowOld
  <1>2. CASE CheckWorkerHealth
    <2>1. workerHealthy' \in BOOLEAN
      BY <1>2 DEF CheckWorkerHealth
    <2>2. faults' \in Nat
      BY <1>2 DEF CheckWorkerHealth, Fault
    <2>3. UNCHANGED <<baseVars, posts, executionVars, shuttingDown, crowded, history, queueType,
                      transportVars, consumerVars, old, batch, markVars>>
      BY <1>2 DEF CheckWorkerHealth
    <2>4. QED
      BY <2>1, <2>2, <2>3
  <1>3. ASSUME NEW k \in Checks, CheckOverflow(k)
        PROVE  TypeInv'
    BY <1>3 DEF CheckOverflow, QueuedRows
  <1>4. ASSUME NEW k \in Checks, SendOverflow(k)
        PROVE  TypeInv'
    BY <1>4 DEF SendOverflow, Send, Note, Marks
  <1>5. ASSUME NEW j \in Jobs, Accepted202(j)
        PROVE  TypeInv'
    BY <1>5 DEF Accepted202, Deliver, Accept, Received, Accepted
  <1>6. ASSUME NEW j \in Jobs, Answered429or503(j) \/ Unreachable(j)
        PROVE  TypeInv'
    <2>1. posts' \in [Jobs -> Nat]
      <3>1. Received(j)
        BY <1>6 DEF Answered429or503, TurnAway, Unreachable, Lose
      <3>2. QED
        BY <3>1 DEF Received
    <2>2. workerHealthy' \in BOOLEAN
      <3>1. CASE Unreachable(j)
        BY <3>1 DEF Unreachable
      <3>2. CASE Answered429or503(j)
        <4>1. PICK w \in Workers : workerHealthy' = IF shuttingDown[w] THEN workerHealthy ELSE TRUE
          BY <3>2 DEF Answered429or503
        <4>2. QED
          BY <4>1
      <3>3. QED
        BY <1>6, <3>1, <3>2
    <2>3. UNCHANGED <<baseVars, executionVars, shuttingDown, faults, crowded, history, brokerRest>>
      BY <1>6 DEF Answered429or503, TurnAway, Unreachable, Lose
    <2>4. QED
      BY <2>1, <2>2, <2>3
  <1>7. CASE Restart
    BY <1>7 DEF Restart, DropRequests, ApiFault, Fault, Note, Marks, Running, Callers
  <1>8. QED
    BY <1>1, <1>2, <1>3, <1>4, <1>5, <1>6, <1>7 DEF Overflow

(* So do the workers. *)
LEMMA WorkersTypeInv == TypeInv /\ RunWorkers => TypeInv'
  <1> SUFFICES ASSUME TypeInv, RunWorkers
               PROVE  TypeInv'
    OBVIOUS
  <1> USE DEF TypeInv, TypeOK, BaseTypeOK, WorkerTypeOK, rowVars, requestVars, baseVars, executionVars,
              workerVars, transportVars, consumerVars, overflowVars, brokerVars, markVars, outsideVars, Fault
  <1>1. UNCHANGED brokerVars
    BY DEF RunWorkers
  <1>2. ASSUME NEW e \in Executions, Execute(e) \/ CallFails(e)
        PROVE  TypeInv'
    <2> USE <1>1 DEF Advance, Finish, SetStatus, Statuses, Accepted, Counted
    <2>1. CASE FindJob(e) \/ Skip(e) \/ MarkProcessing(e) \/ ScanSucceeds(e) \/ ScanFails(e)
      <3>1. CASE FindJob(e)
        BY <3>1, SMTT(30) DEF FindJob
      <3>2. CASE Skip(e)
        BY <3>2, SMTT(30) DEF Skip
      <3>3. CASE MarkProcessing(e)
        BY <3>3, SMTT(30) DEF MarkProcessing
      <3>4. CASE ScanSucceeds(e) \/ ScanFails(e)
        BY <3>4, SMTT(30) DEF ScanSucceeds, ScanFails
      <3>5. QED
        BY <2>1, <3>1, <3>2, <3>3, <3>4
    <2>2. CASE SaveReport(e) \/ SaveRejected(e)
      BY <2>2, SMTT(30) DEF SaveReport, SaveRejected, AddReport
    <2>3. CASE MarkCompleted(e) \/ MarkFailed(e)
      BY <2>3, SMTT(30) DEF MarkCompleted, MarkFailed
    <2>4. CASE ReadFails(e) \/ MarkProcessingFails(e)
      BY <2>4, SMTT(60) DEF ReadFails, MarkProcessingFails, Note, Marks
    <2>5. CASE SaveReportFails(e)
      BY <2>5, SMTT(30) DEF SaveReportFails, AddReport
    <2>6. CASE MarkCompletedFails(e)
      BY <2>6, SMTT(30) DEF MarkCompletedFails, Note, Marks
    <2>7. CASE MarkFailedFails(e)
      BY <2>7, SMTT(30) DEF MarkFailedFails, Note, Marks
    <2>8. QED
      BY <1>2, <2>1, <2>2, <2>3, <2>4, <2>5, <2>6, <2>7 DEF Execute, CallFails
  <1>3. ASSUME NEW w \in Workers, ShutDown(w)
        PROVE  TypeInv'
    BY <1>1, <1>3 DEF ShutDown
  <1>4. ASSUME NEW w \in Workers, Exit(w)
        PROVE  TypeInv'
    <2>1. \A e \in Executions : \/ /\ on[e] = w /\ at'[e] = "idle"
                                   /\ job'[e] = NoJob /\ on'[e] = NoWorker
                                \/ at'[e] = at[e] /\ job'[e] = job[e] /\ on'[e] = on[e]
      BY <1>4 DEF Exit
    <2>2. /\ at' \in [Executions -> {"idle"} \cup Accepted \cup Counted]
          /\ job' \in [Executions -> Jobs \cup {NoJob}]
          /\ on' \in [Executions -> Workers \cup {NoWorker}]
      BY <1>4 DEF Exit
    <2>3. history' \in [Jobs -> SUBSET Marks]
      BY <1>4 DEF Exit, Note, Marks
    <2>4. QED
      BY <1>1, <1>4, <2>1, <2>2, <2>3 DEF Exit
  <1>5. QED
    BY <1>2, <1>3, <1>4 DEF RunWorkers

LEMMA TypeInvHolds == Spec => []TypeInv
  <1>1. TypeInv /\ [Next]_vars => TypeInv'
    <2> SUFFICES ASSUME TypeInv, [Next]_vars
                 PROVE  TypeInv'
      OBVIOUS
    <2>1. CASE UNCHANGED vars
      BY <2>1 DEF vars, TypeInv, TypeOK, BaseTypeOK, WorkerTypeOK, rowVars, requestVars, baseVars,
                  executionVars, workerVars, transportVars, consumerVars, overflowVars, brokerVars, markVars
    <2>2. QED
      BY <2>1, RequestTypeInv, ConsumeTypeInv, OverflowTypeInv, WorkersTypeInv DEF Next
  <1>2. QED
    BY <1>1, InitTypeInv, PTL DEF Spec

(***************************************************************************)
(* Every reachable state is well typed: the columns, the jobs of BullMQ,   *)
(* the consumers, the requests and the executions of the workers.          *)
(***************************************************************************)
THEOREM TypeCorrect == Spec => []TypeOK
  BY TypeInvHolds, PTL DEF TypeInv

-----------------------------------------------------------------------------
(***************************************************************************)
(* The strengthening.  A row that is not there is known to nobody.         *)
(***************************************************************************)
KnownInv ==
    /\ \A j \in Jobs : status[j] = "ABSENT" =>
          /\ posts[j] = 0 /\ bull[j] = "none"
          /\ \A x \in Callers : stageJob[x] # j
          /\ \A r \in Requests : reqJob[r] # j
          /\ \A c \in Consumers : mine[c] # j
          /\ \A e \in Executions : job[e] # j
          /\ \A k \in Checks : j \notin batch[k]
    /\ \A s \in Submitters : adding[s] # NoJob => status[adding[s]] = "ABSENT" /\ stage[s] = "none"
    /\ \A s, t \in Submitters : adding[s] # NoJob /\ adding[s] = adding[t] => s = t
    /\ \A r \in Requests : reqOp[r] # "none" => stage[r] = "none"

(* BullMQ gives an active job to one consumer. *)
ClaimInv ==
    /\ \A c \in Consumers : mine[c] \in Jobs => bull[mine[c]] = "active"
    /\ \A c, d \in Consumers : mine[c] \in Jobs /\ mine[c] = mine[d] => c = d

(* Without the hybrid service there is no worker. *)
RedisInv ==
    /\ \A c \in Consumers : pc[c] = "read" => hybrid
    /\ ~hybrid =>
          /\ \A j \in Jobs : posts[j] = 0
          /\ \A k \in Checks : batch[k] = {}
          /\ \A x \in Callers : stage[x] # "probe"
          /\ \A e \in Executions : at[e] = "idle"

Adds(j) == \E x \in Callers : stage[x] = "add" /\ stageJob[x] = j
Cancels(j) == \E r \in removed : reqJob[r] = j

(* A row that is QUEUED again under a consumer that has begun it is still to be added, or was in vain. *)
HeldInv ==
    /\ \A j \in Jobs : status[j] = "QUEUED" =>
          bull[j] \in {"waiting", "active"} \/ Adds(j) \/ Cancels(j) \/ j \in orphans
    /\ \A c \in Consumers :
          pc[c] \in Running \cup {"ack"} /\ status[mine[c]] = "QUEUED" =>
              Adds(mine[c]) \/ mine[c] \in orphans

(* With Redis alone a row that is PROCESSING has a job, and no cancel is after one that waits. *)
RunInv ==
    /\ ProcessingIsRun
    /\ ~hybrid =>
          /\ \A c \in Consumers : pc[c] = "ack" => status[mine[c]] # "PROCESSING"
          /\ \A j \in Jobs : status[j] = "PROCESSING" /\ "cutShort" \notin history[j] =>
                /\ bull[j] \in {"waiting", "active"}
                /\ bull[j] = "waiting" => \A r \in Requests : reqJob[r] = j => reqOp[r] # "cancel"

(* With Redis alone a cancel leaves no job behind, but for one that is added later. *)
CancelInv ==
    ~hybrid =>
        /\ \A j \in Jobs : status[j] = "CANCELLED" /\ j \notin late => bull[j] = "none"
        /\ \A r \in removed : reqJob[r] \notin late => bull[reqJob[r]] = "none"

(* Only a row a worker was asked for has an execution, and one that is COMPLETED without has nobody
   else after it. *)
RepeatInv ==
    /\ \A j \in Jobs : posts[j] > 0 \/ (\E e \in Executions : job[e] = j) => "askedAgain" \in history[j]
    /\ \A j \in Jobs :
          status[j] = "COMPLETED" /\ hybrid /\ history[j] \cap {"askedAgain", "lostAck"} = {} =>
              \A c \in Consumers : mine[c] = j => pc[c] \in {"read", "ack"}

-----------------------------------------------------------------------------
(***************************************************************************)
(* What a step of the workers does, as far as the broker can tell.         *)
(***************************************************************************)
WorkersEffect ==
    /\ hybrid
    /\ UNCHANGED <<brokerVars, requestVars, posts>>
    /\ \A e \in Executions : job'[e] = job[e] \/ job'[e] = NoJob
    /\ \A j \in Jobs : history[j] \subseteq history'[j]
    /\ \A j \in Jobs :
          \/ status'[j] = status[j]
          \/ /\ status'[j] \in {"PROCESSING", "COMPLETED", "FAILED"}
             /\ \E e \in Executions : job[e] = j /\ at[e] \in {"mark"} \cup Counted
    /\ \A j \in Jobs :
          status'[j] = "PROCESSING" /\ "cutShort" \notin history'[j] =>
              \/ \E e \in Executions : job'[e] = j /\ at'[e] \in Counted
              \/ /\ status[j] = "PROCESSING"
                 /\ \A e \in Executions : job[e] = j => at[e] \notin Counted

(* A POST the worker turns away or never gets is gone, and leaves the rows as they were. *)
LEMMA LostPost ==
  ASSUME TypeInv, NEW j \in Jobs, Answered429or503(j) \/ Unreachable(j)
  PROVE  /\ posts[j] > 0
         /\ posts' = [posts EXCEPT ![j] = posts[j] - 1]
         /\ UNCHANGED <<baseVars, executionVars, shuttingDown, faults, crowded, history, brokerRest>>
  <1>1. Received(j)
    BY DEF Answered429or503, TurnAway, Unreachable, Lose
  <1>2. UNCHANGED <<baseVars, executionVars, shuttingDown, faults, crowded, history, brokerRest>>
    BY DEF Answered429or503, TurnAway, Unreachable, Lose
  <1>3. QED
    BY <1>1, <1>2 DEF Received

(* Nothing else is asked of ScanWorker below. *)
LEMMA WorkersDo == TypeInv /\ hybrid /\ RunWorkers => WorkersEffect
  <1> SUFFICES ASSUME TypeInv, hybrid, RunWorkers
               PROVE  WorkersEffect
    OBVIOUS
  <1>1. UNCHANGED brokerVars
    BY DEF RunWorkers
  <1> USE DEF TypeInv, TypeOK, BaseTypeOK, WorkerTypeOK, rowVars, requestVars, baseVars, executionVars,
              outsideVars, Fault, WorkersEffect
  <1>2. ASSUME NEW e \in Executions, Execute(e) \/ CallFails(e)
        PROVE  WorkersEffect
    <2> USE <1>1 DEF Advance, Finish, SetStatus, Counted
    <2>1. CASE FindJob(e)
      BY <2>1 DEF FindJob
    <2>2. CASE Skip(e)
      BY <2>2 DEF Skip
    <2>3. CASE ReadFails(e)
      BY <2>3 DEF ReadFails
    <2>4. CASE MarkProcessing(e)
      BY <2>4 DEF MarkProcessing
    <2>5. CASE ScanSucceeds(e) \/ ScanFails(e)
      BY <2>5 DEF ScanSucceeds, ScanFails
    <2>6. CASE SaveReport(e) \/ SaveRejected(e) \/ SaveReportFails(e)
      BY <2>6 DEF SaveReport, SaveRejected, SaveReportFails
    <2>7. CASE MarkCompleted(e)
      BY <2>7 DEF MarkCompleted
    <2>12. CASE MarkFailed(e)
      BY <2>12 DEF MarkFailed
    <2>8. CASE MarkProcessingFails(e)
      BY <2>8 DEF MarkProcessingFails, Note
    <2>9. CASE MarkCompletedFails(e)
      BY <2>9 DEF MarkCompletedFails, Note
    <2>10. CASE MarkFailedFails(e)
      BY <2>10 DEF MarkFailedFails, Note
    <2>11. QED
      BY <1>2, <2>1, <2>2, <2>3, <2>4, <2>5, <2>6, <2>7, <2>8, <2>9, <2>10, <2>12 DEF Execute, CallFails
  <1>3. ASSUME NEW w \in Workers, ShutDown(w)
        PROVE  WorkersEffect
    BY <1>1, <1>3 DEF ShutDown
  <1>4. ASSUME NEW w \in Workers, Exit(w)
        PROVE  WorkersEffect
    <2> DEFINE cut == {job[e] : e \in {f \in Executions : on[f] = w /\ at[f] \in Counted}}
    <2>1. \A e \in Executions : \/ on[e] = w /\ at'[e] = "idle" /\ job'[e] = NoJob
                                \/ on[e] # w /\ at'[e] = at[e] /\ job'[e] = job[e]
      BY <1>4 DEF Exit
    <2>2. history' = [j \in Jobs |-> history[j] \cup IF j \in cut THEN {"cutShort"} ELSE {}]
      BY <1>4 DEF Exit, Note
    <2>3. UNCHANGED <<baseVars, posts>>
      BY <1>4 DEF Exit
    <2>4. \A j \in Jobs : history[j] \subseteq history'[j] /\ (j \in cut => "cutShort" \in history'[j])
      BY <2>2
    <2>5. \A e \in Executions : at[e] \in Counted /\ on[e] = w => job[e] \in cut
      OBVIOUS
    <2> HIDE DEF cut
    <2>6. QED
      BY <1>1, <2>1, <2>3, <2>4, <2>5
  <1>5. QED
    BY <1>2, <1>3, <1>4 DEF RunWorkers

-----------------------------------------------------------------------------
(***************************************************************************)
(* Every step keeps each part of the invariant                             *)
(***************************************************************************)
LEMMA KnownStep ==
  ASSUME TypeInv, KnownInv, [Next]_vars
  PROVE  KnownInv'
  <1> USE JobsAssumption, BrokerAssumption
      DEF TypeInv, TypeOK, BaseTypeOK, WorkerTypeOK, Callers,
      To, Goto, EndJob, SetMine, hybrid, rowVars, requestVars, baseVars, executionVars,
      workerVars, transportVars, consumerVars, overflowVars, brokerVars, markVars, noConsumerVars,
      brokerRest, KnownInv, Statuses
  <1>1. CASE UNCHANGED vars
    BY <1>1 DEF vars
  <1>2. ASSUME NEW s \in Submitters, NEW j \in Jobs, AddJobCheck(s, j)
        PROVE  KnownInv'
    BY <1>2 DEF AddJobCheck, CheckRateLimit
  <1>3. ASSUME NEW s \in Submitters, AddJobCreate(s)
        PROVE  KnownInv'
    BY <1>3 DEF AddJobCreate, CreateJob
  <1>4. ASSUME NEW s \in Submitters, Probe(s)
        PROVE  KnownInv'
    BY <1>4 DEF Probe, Send, Note
  <1>5. ASSUME NEW r \in Requests, NEW j \in Jobs, CancelRead(r, j)
        PROVE  KnownInv'
    BY <1>5 DEF CancelRead, ReadForCancel
  <1>6. ASSUME NEW r \in Requests, NEW j \in Jobs, RetryRead(r, j)
        PROVE  KnownInv'
    BY <1>6 DEF RetryRead, ReadForRetry
  <1>7. ASSUME NEW r \in Requests, CancelOnTransport(r)
        PROVE  KnownInv'
    BY <1>7 DEF CancelOnTransport
  <1>8. ASSUME NEW r \in Requests, CancelWrite(r)
        PROVE  KnownInv'
    BY <1>8 DEF CancelWrite, WriteCancelled
  <1>9. ASSUME NEW r \in Requests, RetryWrite(r)
        PROVE  KnownInv'
    BY <1>9 DEF RetryWrite, WriteRequeued
  <1>10. ASSUME NEW x \in Callers, QueueAdd(x)
        PROVE  KnownInv'
    BY <1>10 DEF QueueAdd
  <1>11. ASSUME NEW x \in Callers, QueueAddFails(x)
        PROVE  KnownInv'
    BY <1>11 DEF QueueAddFails
  <1>12. ASSUME NEW c \in Consumers, NEW j \in Jobs, TakeJob(c, j)
        PROVE  KnownInv'
    BY <1>12 DEF TakeJob
  <1>13. ASSUME NEW c \in Consumers, ReadRow(c)
        PROVE  KnownInv'
    BY <1>13 DEF ReadRow, IsQueued
  <1>14. ASSUME NEW c \in Consumers, Mark(c)
        PROVE  KnownInv'
    BY <1>14 DEF Mark
  <1>15. ASSUME NEW c \in Consumers, ScanEnds(c) \/ Save(c)
        PROVE  KnownInv'
    BY <1>15 DEF ScanEnds, Save
  <1>16. ASSUME NEW c \in Consumers, Complete(c)
        PROVE  KnownInv'
    BY <1>16 DEF Complete
  <1>17. ASSUME NEW c \in Consumers, WriteFailed(c)
        PROVE  KnownInv'
    BY <1>17 DEF WriteFailed
  <1>18. ASSUME NEW c \in Consumers, Acknowledge(c)
        PROVE  KnownInv'
    BY <1>18 DEF Acknowledge
  <1>19. ASSUME NEW c \in Consumers, ConsumerCallFails(c)
        PROVE  KnownInv'
    BY <1>19 DEF ConsumerCallFails, Note
  <1>20. CASE (\E j \in Jobs : GrowOld(j)) \/ CheckWorkerHealth
    BY <1>20 DEF GrowOld, CheckWorkerHealth
  <1>21. ASSUME NEW k \in Checks, CheckOverflow(k)
        PROVE  KnownInv'
    BY <1>21 DEF CheckOverflow, QueuedRows
  <1>22. ASSUME NEW k \in Checks, SendOverflow(k)
        PROVE  KnownInv'
    BY <1>22 DEF SendOverflow, Send, Note
  <1>23. ASSUME NEW j \in Jobs, Accepted202(j)
        PROVE  KnownInv'
    BY <1>23 DEF Accepted202, Deliver, Accept, Received
  <1>24. ASSUME NEW j \in Jobs, Answered429or503(j) \/ Unreachable(j)
        PROVE  KnownInv'
    BY <1>24, LostPost
  <1>25. CASE Restart
    BY <1>25 DEF Restart, DropRequests, Note
  <1>26. CASE hybrid /\ RunWorkers
    BY <1>26, WorkersDo, SMTT(30) DEF WorkersEffect
  <1> HIDE DEF TypeInv, KnownInv
  <1>27. QED
    BY <1>1, <1>2, <1>3, <1>4, <1>5, <1>6, <1>7, <1>8, <1>9, <1>10, <1>11, <1>12, <1>13, <1>14,
       <1>15, <1>16, <1>17, <1>18, <1>19, <1>20, <1>21, <1>22, <1>23, <1>24, <1>25, <1>26
    DEF Next, Request, Consume, Process, Overflow

LEMMA ClaimStep ==
  ASSUME TypeInv, ClaimInv, [Next]_vars
  PROVE  ClaimInv'
  <1> USE JobsAssumption, BrokerAssumption
      DEF TypeInv, TypeOK, BaseTypeOK, WorkerTypeOK, Callers,
      To, Goto, EndJob, SetMine, hybrid, rowVars, requestVars, baseVars, executionVars,
      workerVars, transportVars, consumerVars, overflowVars, brokerVars, markVars, noConsumerVars,
      brokerRest, ClaimInv, Running
  <1>1. CASE UNCHANGED vars
    BY <1>1 DEF vars
  <1>2. ASSUME NEW s \in Submitters, NEW j \in Jobs, AddJobCheck(s, j)
        PROVE  ClaimInv'
    BY <1>2 DEF AddJobCheck, CheckRateLimit
  <1>3. ASSUME NEW s \in Submitters, AddJobCreate(s)
        PROVE  ClaimInv'
    BY <1>3 DEF AddJobCreate, CreateJob
  <1>4. ASSUME NEW s \in Submitters, Probe(s)
        PROVE  ClaimInv'
    BY <1>4 DEF Probe, Send, Note
  <1>5. ASSUME NEW r \in Requests, NEW j \in Jobs, CancelRead(r, j)
        PROVE  ClaimInv'
    BY <1>5 DEF CancelRead, ReadForCancel
  <1>6. ASSUME NEW r \in Requests, NEW j \in Jobs, RetryRead(r, j)
        PROVE  ClaimInv'
    BY <1>6 DEF RetryRead, ReadForRetry
  <1>7. ASSUME NEW r \in Requests, CancelOnTransport(r)
        PROVE  ClaimInv'
    BY <1>7 DEF CancelOnTransport
  <1>8. ASSUME NEW r \in Requests, CancelWrite(r)
        PROVE  ClaimInv'
    BY <1>8 DEF CancelWrite, WriteCancelled
  <1>9. ASSUME NEW r \in Requests, RetryWrite(r)
        PROVE  ClaimInv'
    BY <1>9 DEF RetryWrite, WriteRequeued
  <1>10. ASSUME NEW x \in Callers, QueueAdd(x)
        PROVE  ClaimInv'
    BY <1>10 DEF QueueAdd
  <1>11. ASSUME NEW x \in Callers, QueueAddFails(x)
        PROVE  ClaimInv'
    BY <1>11 DEF QueueAddFails
  <1>12. ASSUME NEW c \in Consumers, NEW j \in Jobs, TakeJob(c, j)
        PROVE  ClaimInv'
    BY <1>12 DEF TakeJob
  <1>13. ASSUME NEW c \in Consumers, ReadRow(c)
        PROVE  ClaimInv'
    BY <1>13 DEF ReadRow, IsQueued
  <1>14. ASSUME NEW c \in Consumers, Mark(c)
        PROVE  ClaimInv'
    BY <1>14 DEF Mark
  <1>15. ASSUME NEW c \in Consumers, ScanEnds(c) \/ Save(c)
        PROVE  ClaimInv'
    BY <1>15 DEF ScanEnds, Save
  <1>16. ASSUME NEW c \in Consumers, Complete(c)
        PROVE  ClaimInv'
    BY <1>16 DEF Complete
  <1>17. ASSUME NEW c \in Consumers, WriteFailed(c)
        PROVE  ClaimInv'
    BY <1>17 DEF WriteFailed
  <1>18. ASSUME NEW c \in Consumers, Acknowledge(c)
        PROVE  ClaimInv'
    BY <1>18 DEF Acknowledge
  <1>19. ASSUME NEW c \in Consumers, ConsumerCallFails(c)
        PROVE  ClaimInv'
    BY <1>19, SMTT(30) DEF ConsumerCallFails, Note
  <1>20. CASE (\E j \in Jobs : GrowOld(j)) \/ CheckWorkerHealth
    BY <1>20 DEF GrowOld, CheckWorkerHealth
  <1>21. ASSUME NEW k \in Checks, CheckOverflow(k)
        PROVE  ClaimInv'
    BY <1>21 DEF CheckOverflow, QueuedRows
  <1>22. ASSUME NEW k \in Checks, SendOverflow(k)
        PROVE  ClaimInv'
    BY <1>22 DEF SendOverflow, Send, Note
  <1>23. ASSUME NEW j \in Jobs, Accepted202(j)
        PROVE  ClaimInv'
    BY <1>23 DEF Accepted202, Deliver, Accept, Received
  <1>24. ASSUME NEW j \in Jobs, Answered429or503(j) \/ Unreachable(j)
        PROVE  ClaimInv'
    BY <1>24, LostPost
  <1>25. CASE Restart
    BY <1>25 DEF Restart, DropRequests, Note
  <1>26. CASE hybrid /\ RunWorkers
    BY <1>26, WorkersDo DEF WorkersEffect
  <1> HIDE DEF TypeInv, ClaimInv
  <1>27. QED
    BY <1>1, <1>2, <1>3, <1>4, <1>5, <1>6, <1>7, <1>8, <1>9, <1>10, <1>11, <1>12, <1>13, <1>14,
       <1>15, <1>16, <1>17, <1>18, <1>19, <1>20, <1>21, <1>22, <1>23, <1>24, <1>25, <1>26
    DEF Next, Request, Consume, Process, Overflow

LEMMA RedisStep ==
  ASSUME TypeInv, RedisInv, [Next]_vars
  PROVE  RedisInv'
  <1> USE JobsAssumption, BrokerAssumption
      DEF TypeInv, TypeOK, BaseTypeOK, WorkerTypeOK, Callers,
      To, Goto, EndJob, SetMine, hybrid, rowVars, requestVars, baseVars, executionVars,
      workerVars, transportVars, consumerVars, overflowVars, brokerVars, markVars, noConsumerVars,
      brokerRest, RedisInv, Running
  <1>1. CASE UNCHANGED vars
    BY <1>1 DEF vars
  <1>2. ASSUME NEW s \in Submitters, NEW j \in Jobs, AddJobCheck(s, j)
        PROVE  RedisInv'
    BY <1>2 DEF AddJobCheck, CheckRateLimit
  <1>3. ASSUME NEW s \in Submitters, AddJobCreate(s)
        PROVE  RedisInv'
    BY <1>3 DEF AddJobCreate, CreateJob
  <1>4. ASSUME NEW s \in Submitters, Probe(s)
        PROVE  RedisInv'
    BY <1>4 DEF Probe, Send, Note
  <1>5. ASSUME NEW r \in Requests, NEW j \in Jobs, CancelRead(r, j)
        PROVE  RedisInv'
    BY <1>5 DEF CancelRead, ReadForCancel
  <1>6. ASSUME NEW r \in Requests, NEW j \in Jobs, RetryRead(r, j)
        PROVE  RedisInv'
    BY <1>6 DEF RetryRead, ReadForRetry
  <1>7. ASSUME NEW r \in Requests, CancelOnTransport(r)
        PROVE  RedisInv'
    BY <1>7 DEF CancelOnTransport
  <1>8. ASSUME NEW r \in Requests, CancelWrite(r)
        PROVE  RedisInv'
    BY <1>8 DEF CancelWrite, WriteCancelled
  <1>9. ASSUME NEW r \in Requests, RetryWrite(r)
        PROVE  RedisInv'
    BY <1>9 DEF RetryWrite, WriteRequeued
  <1>10. ASSUME NEW x \in Callers, QueueAdd(x)
        PROVE  RedisInv'
    BY <1>10 DEF QueueAdd
  <1>11. ASSUME NEW x \in Callers, QueueAddFails(x)
        PROVE  RedisInv'
    BY <1>11 DEF QueueAddFails
  <1>12. ASSUME NEW c \in Consumers, NEW j \in Jobs, TakeJob(c, j)
        PROVE  RedisInv'
    BY <1>12 DEF TakeJob
  <1>13. ASSUME NEW c \in Consumers, ReadRow(c)
        PROVE  RedisInv'
    BY <1>13 DEF ReadRow, IsQueued
  <1>14. ASSUME NEW c \in Consumers, Mark(c)
        PROVE  RedisInv'
    BY <1>14 DEF Mark
  <1>15. ASSUME NEW c \in Consumers, ScanEnds(c) \/ Save(c)
        PROVE  RedisInv'
    BY <1>15 DEF ScanEnds, Save
  <1>16. ASSUME NEW c \in Consumers, Complete(c)
        PROVE  RedisInv'
    BY <1>16 DEF Complete
  <1>17. ASSUME NEW c \in Consumers, WriteFailed(c)
        PROVE  RedisInv'
    BY <1>17 DEF WriteFailed
  <1>18. ASSUME NEW c \in Consumers, Acknowledge(c)
        PROVE  RedisInv'
    BY <1>18 DEF Acknowledge
  <1>19. ASSUME NEW c \in Consumers, ConsumerCallFails(c)
        PROVE  RedisInv'
    BY <1>19 DEF ConsumerCallFails, Note
  <1>20. CASE (\E j \in Jobs : GrowOld(j)) \/ CheckWorkerHealth
    BY <1>20 DEF GrowOld, CheckWorkerHealth
  <1>21. ASSUME NEW k \in Checks, CheckOverflow(k)
        PROVE  RedisInv'
    BY <1>21 DEF CheckOverflow, QueuedRows
  <1>22. ASSUME NEW k \in Checks, SendOverflow(k)
        PROVE  RedisInv'
    BY <1>22 DEF SendOverflow, Send, Note
  <1>23. ASSUME NEW j \in Jobs, Accepted202(j)
        PROVE  RedisInv'
    BY <1>23 DEF Accepted202, Deliver, Accept, Received
  <1>24. ASSUME NEW j \in Jobs, Answered429or503(j) \/ Unreachable(j)
        PROVE  RedisInv'
    BY <1>24, LostPost
  <1>25. CASE Restart
    BY <1>25 DEF Restart, DropRequests, Note
  <1>26. CASE hybrid /\ RunWorkers
    BY <1>26, WorkersDo DEF WorkersEffect
  <1> HIDE DEF TypeInv, RedisInv
  <1>27. QED
    BY <1>1, <1>2, <1>3, <1>4, <1>5, <1>6, <1>7, <1>8, <1>9, <1>10, <1>11, <1>12, <1>13, <1>14,
       <1>15, <1>16, <1>17, <1>18, <1>19, <1>20, <1>21, <1>22, <1>23, <1>24, <1>25, <1>26
    DEF Next, Request, Consume, Process, Overflow

LEMMA HeldStep ==
  ASSUME TypeInv, KnownInv, ClaimInv, RedisInv, HeldInv, [Next]_vars
  PROVE  HeldInv'
  <1> USE JobsAssumption, BrokerAssumption
      DEF TypeInv, TypeOK, BaseTypeOK, WorkerTypeOK, Callers,
      To, Goto, EndJob, SetMine, hybrid, rowVars, requestVars, baseVars, executionVars,
      workerVars, transportVars, consumerVars, overflowVars, brokerVars, markVars, noConsumerVars,
      brokerRest, KnownInv, ClaimInv, RedisInv, HeldInv, Adds, Cancels, Running
  <1>1. CASE UNCHANGED vars
    BY <1>1 DEF vars
  <1>2. ASSUME NEW s \in Submitters, NEW j \in Jobs, AddJobCheck(s, j)
        PROVE  HeldInv'
    BY <1>2 DEF AddJobCheck, CheckRateLimit
  <1>3. ASSUME NEW s \in Submitters, AddJobCreate(s)
        PROVE  HeldInv'
    <2>1. PICK a \in Jobs : a = adding[s]
      BY <1>3 DEF AddJobCreate, CreateJob
    <2>2. /\ stage' = [stage EXCEPT ![s] = "add"] /\ stageJob' = [stageJob EXCEPT ![s] = a]
          /\ status' = [status EXCEPT ![a] = "QUEUED"]
          /\ UNCHANGED <<bull, removed, reqJob, orphans, pc, mine>>
      BY <1>3, <2>1 DEF AddJobCreate, CreateJob
    <2>3. stage[s] = "none"
      BY <1>3 DEF AddJobCreate, CreateJob
    <2>7. Adds(a)'
      BY <2>2
    <2>8. \A j \in Jobs : Adds(j) => Adds(j)'
      BY <2>2, <2>3
    <2>4. \A j \in Jobs : Cancels(j)' = Cancels(j)
      BY <2>2
    <2>5. \A j \in Jobs : j # a => status'[j] = status[j]
      BY <2>2
    <2> HIDE DEF Adds, Cancels
    <2>6. QED
      BY <2>2, <2>4, <2>5, <2>7, <2>8
  <1>4. ASSUME NEW s \in Submitters, Probe(s)
        PROVE  HeldInv'
    BY <1>4 DEF Probe, Send, Note
  <1>5. ASSUME NEW r \in Requests, NEW j \in Jobs, CancelRead(r, j)
        PROVE  HeldInv'
    BY <1>5 DEF CancelRead, ReadForCancel
  <1>6. ASSUME NEW r \in Requests, NEW j \in Jobs, RetryRead(r, j)
        PROVE  HeldInv'
    BY <1>6 DEF RetryRead, ReadForRetry
  <1>7. ASSUME NEW r \in Requests, CancelOnTransport(r)
        PROVE  HeldInv'
    BY <1>7, SMTT(30) DEF CancelOnTransport
  <1>8. ASSUME NEW r \in Requests, CancelWrite(r)
        PROVE  HeldInv'
    BY <1>8 DEF CancelWrite, WriteCancelled
  <1>9. ASSUME NEW r \in Requests, RetryWrite(r)
        PROVE  HeldInv'
    BY <1>9 DEF RetryWrite, WriteRequeued
  <1>10. ASSUME NEW x \in Callers, QueueAdd(x)
        PROVE  HeldInv'
    <2> DEFINE a == stageJob[x]
    <2>1. a \in Jobs /\ stage[x] = "add"
      BY <1>10 DEF QueueAdd
    <2>2. UNCHANGED <<status, removed, reqJob, pc, mine>>
      BY <1>10 DEF QueueAdd
    <2>3. \/ bull[a] = "none" /\ bull' = [bull EXCEPT ![a] = "waiting"] /\ orphans' = orphans
          \/ bull[a] = "waiting" /\ bull' = bull /\ orphans' = orphans
          \/ bull' = bull /\ orphans' = orphans \cup {a}
      BY <1>10 DEF QueueAdd
    <2>4. \A y \in Callers : y # x => stage'[y] = stage[y] /\ stageJob'[y] = stageJob[y]
      BY <1>10 DEF QueueAdd
    <2> HIDE DEF a
    <2>5. \A j \in Jobs : Adds(j) => j = a \/ Adds(j)'
      BY <2>4 DEF a
    <2>6. \A j \in Jobs : Cancels(j)' = Cancels(j)
      BY <2>2
    <2> HIDE DEF Adds, Cancels
    <2>7. \A j \in Jobs : status'[j] = "QUEUED" =>
             bull'[j] \in {"waiting", "active"} \/ Adds(j)' \/ Cancels(j)' \/ j \in orphans'
      BY <2>1, <2>2, <2>3, <2>5, <2>6
    <2>8. \A c \in Consumers : pc'[c] \in Running \cup {"ack"} /\ status'[mine'[c]] = "QUEUED" =>
             Adds(mine[c])' \/ mine'[c] \in orphans'
      BY <2>1, <2>2, <2>3, <2>5
    <2>9. QED
      BY <2>7, <2>8 DEF Adds
  <1>11. ASSUME NEW x \in Callers, QueueAddFails(x)
        PROVE  HeldInv'
    BY <1>11, SMTT(30) DEF QueueAddFails
  <1>12. ASSUME NEW c \in Consumers, NEW j \in Jobs, TakeJob(c, j)
        PROVE  HeldInv'
    BY <1>12 DEF TakeJob
  <1>13. ASSUME NEW c \in Consumers, ReadRow(c)
        PROVE  HeldInv'
    BY <1>13, SMTT(60) DEF ReadRow, IsQueued
  <1>14. ASSUME NEW c \in Consumers, Mark(c)
        PROVE  HeldInv'
    BY <1>14 DEF Mark
  <1>15. ASSUME NEW c \in Consumers, ScanEnds(c) \/ Save(c)
        PROVE  HeldInv'
    <2>1. UNCHANGED <<status, bull, stage, stageJob, removed, reqJob, orphans, mine>>
      BY <1>15 DEF ScanEnds, Save
    <2>2. pc[c] \in Running /\ \A d \in Consumers : d # c => pc'[d] = pc[d]
      BY <1>15 DEF ScanEnds, Save
    <2>3. QED
      BY <2>1, <2>2
  <1>16. ASSUME NEW c \in Consumers, Complete(c)
        PROVE  HeldInv'
    BY <1>16, SMTT(30) DEF Complete
  <1>17. ASSUME NEW c \in Consumers, WriteFailed(c)
        PROVE  HeldInv'
    BY <1>17 DEF WriteFailed
  <1>18. ASSUME NEW c \in Consumers, Acknowledge(c)
        PROVE  HeldInv'
    BY <1>18 DEF Acknowledge
  <1>19. ASSUME NEW c \in Consumers, ConsumerCallFails(c)
        PROVE  HeldInv'
    <2>1. UNCHANGED <<stage, stageJob, removed, reqJob>>
      BY <1>19 DEF ConsumerCallFails
    <2>2. CASE pc[c] \in {"read", "mark"}
      <3>1. /\ \/ UNCHANGED status /\ orphans' = orphans \cup {mine[c]}
               \/ status' = [status EXCEPT ![mine[c]] = "PROCESSING"] /\ UNCHANGED orphans
            /\ pc' = [pc EXCEPT ![c] = "idle"] /\ mine' = [mine EXCEPT ![c] = NoJob]
            /\ bull' = [bull EXCEPT ![mine[c]] = "kept"]
        BY <1>19, <2>2 DEF ConsumerCallFails
      <3>2. QED
        BY <2>1, <3>1
    <2>3. CASE pc[c] = "caught"
      <3>1. /\ UNCHANGED <<status, orphans>>
            /\ pc' = [pc EXCEPT ![c] = "idle"] /\ mine' = [mine EXCEPT ![c] = NoJob]
            /\ bull' = [bull EXCEPT ![mine[c]] = "kept"]
        BY <1>19, <2>3 DEF ConsumerCallFails
      <3>2. QED
        BY <2>1, <2>3, <3>1
    <2>4. CASE pc[c] \in {"save", "complete"}
      <3>1. /\ UNCHANGED <<bull, orphans, mine>>
            /\ pc' = [pc EXCEPT ![c] = "caught"]
            /\ status' = status \/ status' = [status EXCEPT ![mine[c]] = "COMPLETED"]
        BY <1>19, <2>4 DEF ConsumerCallFails
      <3>2. QED
        BY <2>1, <2>4, <3>1
    <2>5. QED
      BY <1>19, <2>2, <2>3, <2>4 DEF ConsumerCallFails
  <1>20. CASE (\E j \in Jobs : GrowOld(j)) \/ CheckWorkerHealth
    BY <1>20, SMTT(60) DEF GrowOld, CheckWorkerHealth
  <1>21. ASSUME NEW k \in Checks, CheckOverflow(k)
        PROVE  HeldInv'
    BY <1>21 DEF CheckOverflow, QueuedRows
  <1>22. ASSUME NEW k \in Checks, SendOverflow(k)
        PROVE  HeldInv'
    BY <1>22 DEF SendOverflow, Send, Note
  <1>23. ASSUME NEW j \in Jobs, Accepted202(j)
        PROVE  HeldInv'
    BY <1>23 DEF Accepted202, Deliver, Accept, Received
  <1>24. ASSUME NEW j \in Jobs, Answered429or503(j) \/ Unreachable(j)
        PROVE  HeldInv'
    <2>1. UNCHANGED <<status, bull, stage, stageJob, removed, reqOp, reqJob, orphans, pc, mine, at, job, history, queueType>>
      BY <1>24, LostPost
    <2>2. QED
      BY <2>1
  <1>25. CASE Restart
    <2>1. \A j \in Jobs : Adds(j) \/ Cancels(j) \/ j \in orphans => j \in orphans'
      BY <1>25 DEF Restart
    <2>2. \A j \in Jobs : /\ status'[j] = status[j]
                          /\ bull[j] \in {"waiting", "active"} => bull'[j] = "waiting" \/ j \in orphans'
      BY <1>25 DEF Restart
    <2>3. \A c \in Consumers : pc'[c] = "idle"
      BY <1>25 DEF Restart
    <2> HIDE DEF Adds, Cancels
    <2>4. QED
      BY <2>1, <2>2, <2>3
  <1>26. CASE hybrid /\ RunWorkers
    <2>1. UNCHANGED <<bull, stage, stageJob, removed, reqJob, orphans, pc, mine>>
      BY <1>26, WorkersDo DEF WorkersEffect
    <2>2. \A j \in Jobs : status'[j] = "QUEUED" => status[j] = "QUEUED"
      BY <1>26, WorkersDo DEF WorkersEffect
    <2>3. QED
      BY <2>1, <2>2
  <1> HIDE DEF TypeInv, HeldInv
  <1>27. QED
    BY <1>1, <1>2, <1>3, <1>4, <1>5, <1>6, <1>7, <1>8, <1>9, <1>10, <1>11, <1>12, <1>13, <1>14,
       <1>15, <1>16, <1>17, <1>18, <1>19, <1>20, <1>21, <1>22, <1>23, <1>24, <1>25, <1>26
    DEF Next, Request, Consume, Process, Overflow

LEMMA CancelStep ==
  ASSUME TypeInv, KnownInv, ClaimInv, RedisInv, CancelInv, [Next]_vars
  PROVE  CancelInv'
  <1> USE JobsAssumption, BrokerAssumption
      DEF TypeInv, TypeOK, BaseTypeOK, WorkerTypeOK, Callers,
      To, Goto, EndJob, SetMine, hybrid, rowVars, requestVars, baseVars, executionVars,
      workerVars, transportVars, consumerVars, overflowVars, brokerVars, markVars, noConsumerVars,
      brokerRest, KnownInv, ClaimInv, RedisInv, CancelInv, Running
  <1>1. CASE UNCHANGED vars
    BY <1>1 DEF vars
  <1>2. ASSUME NEW s \in Submitters, NEW j \in Jobs, AddJobCheck(s, j)
        PROVE  CancelInv'
    BY <1>2 DEF AddJobCheck, CheckRateLimit
  <1>3. ASSUME NEW s \in Submitters, AddJobCreate(s)
        PROVE  CancelInv'
    BY <1>3 DEF AddJobCreate, CreateJob
  <1>4. ASSUME NEW s \in Submitters, Probe(s)
        PROVE  CancelInv'
    BY <1>4 DEF Probe, Send, Note
  <1>5. ASSUME NEW r \in Requests, NEW j \in Jobs, CancelRead(r, j)
        PROVE  CancelInv'
    BY <1>5 DEF CancelRead, ReadForCancel
  <1>6. ASSUME NEW r \in Requests, NEW j \in Jobs, RetryRead(r, j)
        PROVE  CancelInv'
    BY <1>6 DEF RetryRead, ReadForRetry
  <1>7. ASSUME NEW r \in Requests, CancelOnTransport(r)
        PROVE  CancelInv'
    BY <1>7 DEF CancelOnTransport
  <1>8. ASSUME NEW r \in Requests, CancelWrite(r)
        PROVE  CancelInv'
    BY <1>8 DEF CancelWrite, WriteCancelled
  <1>9. ASSUME NEW r \in Requests, RetryWrite(r)
        PROVE  CancelInv'
    BY <1>9 DEF RetryWrite, WriteRequeued
  <1>10. ASSUME NEW x \in Callers, QueueAdd(x)
        PROVE  CancelInv'
    BY <1>10 DEF QueueAdd, CancelHasLooked
  <1>11. ASSUME NEW x \in Callers, QueueAddFails(x)
        PROVE  CancelInv'
    BY <1>11 DEF QueueAddFails
  <1>12. ASSUME NEW c \in Consumers, NEW j \in Jobs, TakeJob(c, j)
        PROVE  CancelInv'
    BY <1>12 DEF TakeJob
  <1>13. ASSUME NEW c \in Consumers, ReadRow(c)
        PROVE  CancelInv'
    BY <1>13 DEF ReadRow, IsQueued
  <1>14. ASSUME NEW c \in Consumers, Mark(c)
        PROVE  CancelInv'
    BY <1>14 DEF Mark
  <1>15. ASSUME NEW c \in Consumers, ScanEnds(c) \/ Save(c)
        PROVE  CancelInv'
    BY <1>15 DEF ScanEnds, Save
  <1>16. ASSUME NEW c \in Consumers, Complete(c)
        PROVE  CancelInv'
    BY <1>16 DEF Complete
  <1>17. ASSUME NEW c \in Consumers, WriteFailed(c)
        PROVE  CancelInv'
    BY <1>17 DEF WriteFailed
  <1>18. ASSUME NEW c \in Consumers, Acknowledge(c)
        PROVE  CancelInv'
    BY <1>18 DEF Acknowledge
  <1>19. ASSUME NEW c \in Consumers, ConsumerCallFails(c)
        PROVE  CancelInv'
    BY <1>19 DEF ConsumerCallFails, Note
  <1>20. CASE (\E j \in Jobs : GrowOld(j)) \/ CheckWorkerHealth
    BY <1>20 DEF GrowOld, CheckWorkerHealth
  <1>21. ASSUME NEW k \in Checks, CheckOverflow(k)
        PROVE  CancelInv'
    BY <1>21 DEF CheckOverflow, QueuedRows
  <1>22. ASSUME NEW k \in Checks, SendOverflow(k)
        PROVE  CancelInv'
    BY <1>22 DEF SendOverflow, Send, Note
  <1>23. ASSUME NEW j \in Jobs, Accepted202(j)
        PROVE  CancelInv'
    BY <1>23 DEF Accepted202, Deliver, Accept, Received
  <1>24. ASSUME NEW j \in Jobs, Answered429or503(j) \/ Unreachable(j)
        PROVE  CancelInv'
    BY <1>24, LostPost
  <1>25. CASE Restart
    BY <1>25 DEF Restart, DropRequests, Note
  <1>26. CASE hybrid /\ RunWorkers
    BY <1>26, WorkersDo DEF WorkersEffect
  <1> HIDE DEF TypeInv, CancelInv
  <1>27. QED
    BY <1>1, <1>2, <1>3, <1>4, <1>5, <1>6, <1>7, <1>8, <1>9, <1>10, <1>11, <1>12, <1>13, <1>14,
       <1>15, <1>16, <1>17, <1>18, <1>19, <1>20, <1>21, <1>22, <1>23, <1>24, <1>25, <1>26
    DEF Next, Request, Consume, Process, Overflow

LEMMA RunStep ==
  ASSUME TypeInv, ClaimInv, RedisInv, RunInv, [Next]_vars
  PROVE  RunInv'
  <1> USE JobsAssumption, BrokerAssumption
      DEF TypeInv, TypeOK, BaseTypeOK, WorkerTypeOK, Callers,
      To, Goto, EndJob, SetMine, hybrid, rowVars, requestVars, baseVars, executionVars,
      workerVars, transportVars, consumerVars, overflowVars, brokerVars, markVars, noConsumerVars,
      brokerRest, ClaimInv, RedisInv, RunInv, ProcessingIsRun, Running, Counted
  <1>1. CASE UNCHANGED vars
    BY <1>1 DEF vars
  <1>2. ASSUME NEW s \in Submitters, NEW j \in Jobs, AddJobCheck(s, j)
        PROVE  RunInv'
    BY <1>2 DEF AddJobCheck, CheckRateLimit
  <1>3. ASSUME NEW s \in Submitters, AddJobCreate(s)
        PROVE  RunInv'
    BY <1>3, SMTT(30) DEF AddJobCreate, CreateJob
  <1>4. ASSUME NEW s \in Submitters, Probe(s)
        PROVE  RunInv'
    BY <1>4, SMTT(30) DEF Probe, Send, Note
  <1>5. ASSUME NEW r \in Requests, NEW j \in Jobs, CancelRead(r, j)
        PROVE  RunInv'
    BY <1>5 DEF CancelRead, ReadForCancel
  <1>6. ASSUME NEW r \in Requests, NEW j \in Jobs, RetryRead(r, j)
        PROVE  RunInv'
    BY <1>6 DEF RetryRead, ReadForRetry
  <1>7. ASSUME NEW r \in Requests, CancelOnTransport(r)
        PROVE  RunInv'
    <2> DEFINE a == reqJob[r]
    <2>1. a \in Jobs /\ reqOp[r] = "cancel"
      BY <1>7 DEF CancelOnTransport
    <2>2. UNCHANGED <<status, pc, mine, at, job, history, queueType>>
      BY <1>7 DEF CancelOnTransport
    <2>3. /\ \/ bull' = bull
             \/ bull[a] # "active" /\ bull' = [bull EXCEPT ![a] = "none"]
          /\ \A q \in Requests : reqOp'[q] = "cancel" => reqOp[q] = "cancel" /\ reqJob'[q] = reqJob[q]
      BY <1>7 DEF CancelOnTransport
    <2> HIDE DEF a
    <2>4. ~hybrid /\ status[a] = "PROCESSING" /\ "cutShort" \notin history[a] => bull[a] = "active"
      BY <2>1 DEF a
    <2>5. \A j \in Jobs : ~hybrid /\ status[j] = "PROCESSING" /\ "cutShort" \notin history[j] => bull'[j] = bull[j]
      BY <2>1, <2>3, <2>4
    <2>6. ProcessingIsRun'
      BY <2>2, <2>5
    <2>7. QED
      BY <2>2, <2>3, <2>5, <2>6
  <1>8. ASSUME NEW r \in Requests, CancelWrite(r)
        PROVE  RunInv'
    BY <1>8 DEF CancelWrite, WriteCancelled
  <1>9. ASSUME NEW r \in Requests, RetryWrite(r)
        PROVE  RunInv'
    BY <1>9, SMTT(30) DEF RetryWrite, WriteRequeued
  <1>10. ASSUME NEW x \in Callers, QueueAdd(x)
        PROVE  RunInv'
    <2> DEFINE a == stageJob[x]
    <2>1. a \in Jobs
      BY <1>10 DEF QueueAdd
    <2>2. UNCHANGED <<status, reqOp, reqJob, pc, mine, at, job, history, queueType>>
      BY <1>10 DEF QueueAdd
    <2>3. \/ bull[a] = "none" /\ bull' = [bull EXCEPT ![a] = "waiting"]
          \/ bull' = bull
      BY <1>10 DEF QueueAdd
    <2> HIDE DEF a
    <2>4. \A j \in Jobs : bull[j] \in {"waiting", "active"} => bull'[j] = bull[j]
      BY <2>1, <2>3
    <2>5. ProcessingIsRun'
      BY <2>2, <2>4
    <2>6. QED
      BY <2>2, <2>4, <2>5
  <1>11. ASSUME NEW x \in Callers, QueueAddFails(x)
        PROVE  RunInv'
    BY <1>11 DEF QueueAddFails
  <1>12. ASSUME NEW c \in Consumers, NEW j \in Jobs, TakeJob(c, j)
        PROVE  RunInv'
    BY <1>12 DEF TakeJob
  <1>13. ASSUME NEW c \in Consumers, ReadRow(c)
        PROVE  RunInv'
    BY <1>13 DEF ReadRow, IsQueued
  <1>14. ASSUME NEW c \in Consumers, Mark(c)
        PROVE  RunInv'
    BY <1>14 DEF Mark
  <1>15. ASSUME NEW c \in Consumers, ScanEnds(c) \/ Save(c)
        PROVE  RunInv'
    BY <1>15, SMTT(30) DEF ScanEnds, Save
  <1>16. ASSUME NEW c \in Consumers, Complete(c)
        PROVE  RunInv'
    BY <1>16 DEF Complete
  <1>17. ASSUME NEW c \in Consumers, WriteFailed(c)
        PROVE  RunInv'
    BY <1>17 DEF WriteFailed
  <1>18. ASSUME NEW c \in Consumers, Acknowledge(c)
        PROVE  RunInv'
    BY <1>18 DEF Acknowledge
  <1>19. ASSUME NEW c \in Consumers, ConsumerCallFails(c)
        PROVE  RunInv'
    <2>1. UNCHANGED <<reqOp, reqJob, at, job, queueType>>
      BY <1>19 DEF ConsumerCallFails
    <2>2. CASE pc[c] \in {"read", "mark", "caught"}
      <3>1. /\ bull' = [bull EXCEPT ![mine[c]] = "kept"]
            /\ pc' = [pc EXCEPT ![c] = "idle"] /\ mine' = [mine EXCEPT ![c] = NoJob]
        BY <1>19, <2>2 DEF ConsumerCallFails
      <3>9. \/ /\ UNCHANGED status
               /\ pc[c] = "caught" \/ (~hybrid /\ status[mine[c]] = "PROCESSING")
                  => "cutShort" \in history'[mine[c]]
            \/ /\ status' = [status EXCEPT ![mine[c]] = "PROCESSING"]
               /\ "cutShort" \in history'[mine[c]]
        BY <1>19, <2>2 DEF ConsumerCallFails, Note
      <3>2. \A j \in Jobs : history[j] \subseteq history'[j]
        BY <1>19, <2>2 DEF ConsumerCallFails, Note
      <3>4. mine[c] \in Jobs
        BY <2>2
      <3>3. \A j \in Jobs : status'[j] = "PROCESSING" /\ "cutShort" \notin history'[j] =>
               /\ status[j] = "PROCESSING"
               /\ ~hybrid \/ pc[c] = "caught" => j # mine[c]
        BY <3>4, <3>9
      <3>5. \A j \in Jobs : j # mine[c] => bull'[j] = bull[j]
        BY <3>1
      <3>6. ProcessingIsRun'
        BY <2>1, <2>2, <3>1, <3>2, <3>3, <3>4, <3>5, SMTT(30)
      <3>7. \A d \in Consumers : pc'[d] = "ack" => pc[d] = "ack" /\ mine'[d] = mine[d] /\ mine[d] # mine[c]
        BY <2>2, <3>1, <3>4
      <3>10. \A d \in Consumers : pc'[d] = "ack" => status'[mine[d]] = status[mine[d]]
        BY <3>4, <3>7, <3>9
      <3>8. QED
        BY <2>1, <3>1, <3>2, <3>3, <3>4, <3>5, <3>6, <3>7, <3>10
    <2>3. CASE pc[c] \in {"save", "complete"}
      <3>1. /\ status' = status \/ status' = [status EXCEPT ![mine[c]] = "COMPLETED"]
            /\ pc' = [pc EXCEPT ![c] = "caught"] /\ UNCHANGED <<bull, mine>>
        BY <1>19, <2>3 DEF ConsumerCallFails
      <3>2. \A j \in Jobs : history[j] \subseteq history'[j]
        BY <1>19, <2>3 DEF ConsumerCallFails, Note
      <3>3. \A j \in Jobs : status'[j] = "PROCESSING" => status[j] = "PROCESSING"
        BY <3>1
      <3>4. \A d \in Consumers : pc[d] \in Running => pc'[d] \in Running
        BY <3>1
      <3>5. ProcessingIsRun'
        BY <2>1, <3>1, <3>2, <3>3, <3>4
      <3>6. QED
        BY <2>1, <3>1, <3>2, <3>3, <3>5
    <2>4. QED
      BY <1>19, <2>2, <2>3 DEF ConsumerCallFails
  <1>20. CASE (\E j \in Jobs : GrowOld(j)) \/ CheckWorkerHealth
    BY <1>20 DEF GrowOld, CheckWorkerHealth
  <1>21. ASSUME NEW k \in Checks, CheckOverflow(k)
        PROVE  RunInv'
    BY <1>21 DEF CheckOverflow, QueuedRows
  <1>22. ASSUME NEW k \in Checks, SendOverflow(k)
        PROVE  RunInv'
    BY <1>22 DEF SendOverflow, Send, Note
  <1>23. ASSUME NEW j \in Jobs, Accepted202(j)
        PROVE  RunInv'
    BY <1>23 DEF Accepted202, Deliver, Accept, Received
  <1>24. ASSUME NEW j \in Jobs, Answered429or503(j) \/ Unreachable(j)
        PROVE  RunInv'
    BY <1>24, LostPost
  <1>25. CASE Restart
    <2>1. UNCHANGED <<status, job, at, queueType>> /\ \A c \in Consumers : pc'[c] = "idle"
      BY <1>25 DEF Restart
    <2>2. \A j \in Jobs : history[j] \subseteq history'[j]
      BY <1>25 DEF Restart, Note
    <2>3. hybrid => \A c \in Consumers : pc[c] \in Running => "cutShort" \in history'[mine[c]]
      BY <1>25 DEF Restart, Note
    <2>4. ~hybrid => \A j \in Jobs : bull[j] \in {"waiting", "active"} /\ status[j] = "PROCESSING" =>
             bull'[j] = "waiting" \/ "cutShort" \in history'[j]
      BY <1>25 DEF Restart, Note
    <2>5. \A r \in Requests : reqOp'[r] # "cancel"
      BY <1>25 DEF Restart, DropRequests
    <2>6. ProcessingIsRun'
      BY <2>1, <2>2, <2>3, <2>4, SMTT(30)
    <2>7. QED
      BY <2>1, <2>2, <2>4, <2>5, <2>6
  <1>26. CASE hybrid /\ RunWorkers
    BY <1>26, WorkersDo DEF WorkersEffect
  <1> HIDE DEF TypeInv, RunInv
  <1>27. QED
    BY <1>1, <1>2, <1>3, <1>4, <1>5, <1>6, <1>7, <1>8, <1>9, <1>10, <1>11, <1>12, <1>13, <1>14,
       <1>15, <1>16, <1>17, <1>18, <1>19, <1>20, <1>21, <1>22, <1>23, <1>24, <1>25, <1>26
    DEF Next, Request, Consume, Process, Overflow

LEMMA RepeatStep ==
  ASSUME TypeInv, KnownInv, ClaimInv, RepeatInv, [Next]_vars
  PROVE  RepeatInv'
  <1> USE JobsAssumption, BrokerAssumption
      DEF TypeInv, TypeOK, BaseTypeOK, WorkerTypeOK, Callers,
      To, Goto, EndJob, SetMine, hybrid, rowVars, requestVars, baseVars, executionVars,
      workerVars, transportVars, consumerVars, overflowVars, brokerVars, markVars, noConsumerVars,
      brokerRest, KnownInv, ClaimInv, RepeatInv, Running
  <1>1. CASE UNCHANGED vars
    BY <1>1 DEF vars
  <1>2. ASSUME NEW s \in Submitters, NEW j \in Jobs, AddJobCheck(s, j)
        PROVE  RepeatInv'
    BY <1>2 DEF AddJobCheck, CheckRateLimit
  <1>3. ASSUME NEW s \in Submitters, AddJobCreate(s)
        PROVE  RepeatInv'
    BY <1>3, SMTT(30) DEF AddJobCreate, CreateJob
  <1>4. ASSUME NEW s \in Submitters, Probe(s)
        PROVE  RepeatInv'
    <2>1. UNCHANGED <<status, job, mine, pc, queueType>>
      BY <1>4 DEF Probe
    <2>2. \/ UNCHANGED <<posts, history>>
          \/ /\ stageJob[s] \in Jobs
             /\ posts' = [posts EXCEPT ![stageJob[s]] = @ + 1]
             /\ history' = [j \in Jobs |-> history[j] \cup IF j \in {stageJob[s]} THEN {"askedAgain"} ELSE {}]
      BY <1>4 DEF Probe, Send, Note
    <2>3. QED
      BY <2>1, <2>2
  <1>5. ASSUME NEW r \in Requests, NEW j \in Jobs, CancelRead(r, j)
        PROVE  RepeatInv'
    BY <1>5 DEF CancelRead, ReadForCancel
  <1>6. ASSUME NEW r \in Requests, NEW j \in Jobs, RetryRead(r, j)
        PROVE  RepeatInv'
    BY <1>6 DEF RetryRead, ReadForRetry
  <1>7. ASSUME NEW r \in Requests, CancelOnTransport(r)
        PROVE  RepeatInv'
    BY <1>7 DEF CancelOnTransport
  <1>8. ASSUME NEW r \in Requests, CancelWrite(r)
        PROVE  RepeatInv'
    BY <1>8 DEF CancelWrite, WriteCancelled
  <1>9. ASSUME NEW r \in Requests, RetryWrite(r)
        PROVE  RepeatInv'
    BY <1>9, SMTT(30) DEF RetryWrite, WriteRequeued
  <1>10. ASSUME NEW x \in Callers, QueueAdd(x)
        PROVE  RepeatInv'
    BY <1>10, SMTT(30) DEF QueueAdd
  <1>11. ASSUME NEW x \in Callers, QueueAddFails(x)
        PROVE  RepeatInv'
    BY <1>11 DEF QueueAddFails
  <1>12. ASSUME NEW c \in Consumers, NEW j \in Jobs, TakeJob(c, j)
        PROVE  RepeatInv'
    BY <1>12, SMTT(30) DEF TakeJob
  <1>13. ASSUME NEW c \in Consumers, ReadRow(c)
        PROVE  RepeatInv'
    BY <1>13 DEF ReadRow, IsQueued
  <1>14. ASSUME NEW c \in Consumers, Mark(c)
        PROVE  RepeatInv'
    BY <1>14 DEF Mark
  <1>15. ASSUME NEW c \in Consumers, ScanEnds(c) \/ Save(c)
        PROVE  RepeatInv'
    BY <1>15, SMTT(30) DEF ScanEnds, Save
  <1>16. ASSUME NEW c \in Consumers, Complete(c)
        PROVE  RepeatInv'
    BY <1>16 DEF Complete
  <1>17. ASSUME NEW c \in Consumers, WriteFailed(c)
        PROVE  RepeatInv'
    BY <1>17 DEF WriteFailed
  <1>18. ASSUME NEW c \in Consumers, Acknowledge(c)
        PROVE  RepeatInv'
    BY <1>18 DEF Acknowledge
  <1>19. ASSUME NEW c \in Consumers, ConsumerCallFails(c)
        PROVE  RepeatInv'
    <2>1. UNCHANGED <<posts, job, queueType>>
      BY <1>19 DEF ConsumerCallFails
    <2>2. \A j \in Jobs : history[j] \subseteq history'[j]
      BY <1>19 DEF ConsumerCallFails, Note
    <2>6. \A j \in Jobs : posts'[j] > 0 \/ (\E e \in Executions : job'[e] = j) => "askedAgain" \in history'[j]
      BY <2>1, <2>2
    <2>7. \A j \in Jobs : history'[j] \cap {"askedAgain", "lostAck"} = {} =>
             history[j] \cap {"askedAgain", "lostAck"} = {}
      BY <2>2
    <2>3. CASE UNCHANGED status
      <3>1. CASE pc[c] \in {"read", "mark", "caught"}
        <4>1. pc' = [pc EXCEPT ![c] = "idle"] /\ mine' = [mine EXCEPT ![c] = NoJob]
          BY <1>19, <3>1 DEF ConsumerCallFails
        <4>2. QED
          BY <2>1, <2>3, <2>6, <2>7, <4>1
      <3>2. CASE pc[c] \in {"save", "complete"}
        <4>1. pc' = [pc EXCEPT ![c] = "caught"] /\ UNCHANGED mine
          BY <1>19, <3>2 DEF ConsumerCallFails
        <4>2. QED
          BY <2>1, <2>3, <2>6, <2>7, <3>2, <4>1, SMTT(30)
      <3>3. QED
        BY <1>19, <3>1, <3>2 DEF ConsumerCallFails
    <2>4. CASE status' # status
      <3>1. CASE pc[c] = "complete"
        <4>1. /\ status' = [status EXCEPT ![mine[c]] = "COMPLETED"] /\ UNCHANGED mine
              /\ pc' = [pc EXCEPT ![c] = "caught"] /\ "lostAck" \in history'[mine[c]]
          BY <1>19, <2>4, <3>1 DEF ConsumerCallFails, Note
        <4>2. QED
          BY <2>1, <2>2, <4>1, SMTT(30)
      <3>2. CASE pc[c] = "mark"
        <4>1. /\ status' = [status EXCEPT ![mine[c]] = "PROCESSING"]
              /\ pc' = [pc EXCEPT ![c] = "idle"] /\ mine' = [mine EXCEPT ![c] = NoJob]
          BY <1>19, <2>4, <3>2 DEF ConsumerCallFails
        <4>2. QED
          BY <2>1, <2>2, <2>6, <2>7, <3>2, <4>1, SMTT(30)
      <3>3. QED
        BY <1>19, <2>4, <3>1, <3>2 DEF ConsumerCallFails
    <2>5. QED
      BY <2>3, <2>4
  <1>20. CASE (\E j \in Jobs : GrowOld(j)) \/ CheckWorkerHealth
    BY <1>20, SMTT(30) DEF GrowOld, CheckWorkerHealth
  <1>21. ASSUME NEW k \in Checks, CheckOverflow(k)
        PROVE  RepeatInv'
    BY <1>21 DEF CheckOverflow, QueuedRows
  <1>22. ASSUME NEW k \in Checks, SendOverflow(k)
        PROVE  RepeatInv'
    <2>1. UNCHANGED <<status, job, mine, pc, queueType>>
      BY <1>22 DEF SendOverflow
    <2>2. PICK i \in batch[k] : Send(i) /\ Note("askedAgain", {i})
      BY <1>22 DEF SendOverflow
    <2>3. QED
      BY <2>1, <2>2 DEF Send, Note
  <1>23. ASSUME NEW j \in Jobs, Accepted202(j)
        PROVE  RepeatInv'
    BY <1>23 DEF Accepted202, Deliver, Accept, Received
  <1>24. ASSUME NEW j \in Jobs, Answered429or503(j) \/ Unreachable(j)
        PROVE  RepeatInv'
    BY <1>24, LostPost, SMTT(30)
  <1>25. CASE Restart
    BY <1>25 DEF Restart, DropRequests, Note
  <1>26. CASE hybrid /\ RunWorkers
    <2>1. UNCHANGED <<posts, mine, pc, queueType>>
      BY <1>26, WorkersDo DEF WorkersEffect
    <2>2. \A e \in Executions : job'[e] = job[e] \/ job'[e] = NoJob
      BY <1>26, WorkersDo DEF WorkersEffect
    <2>3. \A j \in Jobs : history[j] \subseteq history'[j]
      BY <1>26, WorkersDo DEF WorkersEffect
    <2>4. \A j \in Jobs : status'[j] # status[j] => \E e \in Executions : job[e] = j
      BY <1>26, WorkersDo DEF WorkersEffect
    <2>5. \A j \in Jobs : status'[j] # status[j] => "askedAgain" \in history'[j]
      BY <2>3, <2>4
    <2>6. \A j \in Jobs : posts'[j] > 0 \/ (\E e \in Executions : job'[e] = j) => "askedAgain" \in history'[j]
      BY <2>1, <2>2, <2>3
    <2>7. \A j \in Jobs : history'[j] \cap {"askedAgain", "lostAck"} = {} =>
             history[j] \cap {"askedAgain", "lostAck"} = {}
      BY <2>3
    <2>8. QED
      BY <2>1, <2>5, <2>6, <2>7
  <1> HIDE DEF TypeInv, RepeatInv
  <1>27. QED
    BY <1>1, <1>2, <1>3, <1>4, <1>5, <1>6, <1>7, <1>8, <1>9, <1>10, <1>11, <1>12, <1>13, <1>14,
       <1>15, <1>16, <1>17, <1>18, <1>19, <1>20, <1>21, <1>22, <1>23, <1>24, <1>25, <1>26
    DEF Next, Request, Consume, Process, Overflow

-----------------------------------------------------------------------------
(***************************************************************************)
(* The invariant                                                           *)
(***************************************************************************)
Inv == TypeInv /\ KnownInv /\ ClaimInv /\ RedisInv /\ HeldInv /\ RunInv /\ CancelInv /\ RepeatInv

LEMMA InitInv == Init => Inv
  <1> SUFFICES ASSUME Init
               PROVE  Inv
    OBVIOUS
  <1>1. TypeInv
    BY InitTypeInv
  <1> USE JobsAssumption DEF Init, BaseInit, WorkerInit, Callers, hybrid
  <1>2. KnownInv /\ ClaimInv
    BY DEF KnownInv, ClaimInv
  <1>3. RedisInv
    BY DEF RedisInv
  <1>4. HeldInv
    BY DEF HeldInv, Running
  <1>5. RunInv
    BY DEF RunInv, ProcessingIsRun
  <1>6. RepeatInv /\ CancelInv
    BY DEF RepeatInv, CancelInv
  <1>7. QED
    BY <1>1, <1>2, <1>3, <1>4, <1>5, <1>6 DEF Inv

LEMMA TypeStep == TypeInv /\ [Next]_vars => TypeInv'
  <1>1. TypeInv /\ Next => TypeInv'
    BY RequestTypeInv, ConsumeTypeInv, OverflowTypeInv, WorkersTypeInv DEF Next
  <1>2. TypeInv /\ UNCHANGED vars => TypeInv'
    BY DEF TypeInv, TypeOK, BaseTypeOK, WorkerTypeOK, Callers, vars, rowVars, requestVars, baseVars,
           executionVars, workerVars, transportVars, consumerVars, overflowVars, brokerVars, markVars
  <1>3. QED
    BY <1>1, <1>2

LEMMA InvHolds == Spec => []Inv
  <1>1. Inv /\ [Next]_vars => Inv'
    BY TypeStep, KnownStep, ClaimStep, RedisStep, HeldStep, RunStep, CancelStep, RepeatStep DEF Inv
  <1>2. QED
    BY <1>1, InitInv, PTL DEF Spec

(***************************************************************************)
(* A QUEUED row always has a job in BullMQ, or somebody about to add or    *)
(* having just taken away that job, or is one a fault has orphaned.        *)
(***************************************************************************)
THEOREM QueuedIsAlwaysHeld == Spec => []QueuedIsHeld
  <1>1. Inv => QueuedIsHeld
    BY DEF Inv, HeldInv, QueuedIsHeld, Adds, Cancels
  <1>2. QED
    BY <1>1, InvHolds, PTL

(***************************************************************************)
(* A PROCESSING row is always run by a consumer or an instance, or will be *)
(* handed out again, or was cut short.                                     *)
(***************************************************************************)
THEOREM ProcessingIsAlwaysRun == Spec => []ProcessingIsRun
  <1>1. Inv => ProcessingIsRun
    BY DEF Inv, RunInv
  <1>2. QED
    BY <1>1, InvHolds, PTL

(* What a step does to a row that is CANCELLED, has no job and is not replayed. *)
LEMMA CancelledKept ==
  ASSUME TypeInv, KnownInv, ClaimInv, [Next]_vars, NEW i \in Jobs,
         status[i] = "CANCELLED", ~hybrid, bull[i] = "none",
         \A r \in Requests : reqOp[r] = "retry" => reqJob[r] # i
  PROVE  status'[i] = "CANCELLED"
  <1> USE JobsAssumption, BrokerAssumption
      DEF TypeInv, TypeOK, BaseTypeOK, WorkerTypeOK, Callers,
      To, Goto, EndJob, SetMine, hybrid, rowVars, requestVars, baseVars, executionVars,
      workerVars, transportVars, consumerVars, overflowVars, brokerVars, markVars, noConsumerVars,
      brokerRest, KnownInv, ClaimInv
  <1>1. CASE UNCHANGED vars
    BY <1>1 DEF vars
  <1>2. ASSUME NEW s \in Submitters, NEW j \in Jobs, AddJobCheck(s, j)
        PROVE  status'[i] = "CANCELLED"
    BY <1>2 DEF AddJobCheck, CheckRateLimit
  <1>3. ASSUME NEW s \in Submitters, AddJobCreate(s)
        PROVE  status'[i] = "CANCELLED"
    BY <1>3 DEF AddJobCreate, CreateJob
  <1>4. ASSUME NEW s \in Submitters, Probe(s)
        PROVE  status'[i] = "CANCELLED"
    BY <1>4 DEF Probe, Send, Note
  <1>5. ASSUME NEW r \in Requests, NEW j \in Jobs, CancelRead(r, j)
        PROVE  status'[i] = "CANCELLED"
    BY <1>5 DEF CancelRead, ReadForCancel
  <1>6. ASSUME NEW r \in Requests, NEW j \in Jobs, RetryRead(r, j)
        PROVE  status'[i] = "CANCELLED"
    BY <1>6 DEF RetryRead, ReadForRetry
  <1>7. ASSUME NEW r \in Requests, CancelOnTransport(r)
        PROVE  status'[i] = "CANCELLED"
    BY <1>7 DEF CancelOnTransport
  <1>8. ASSUME NEW r \in Requests, CancelWrite(r)
        PROVE  status'[i] = "CANCELLED"
    BY <1>8 DEF CancelWrite, WriteCancelled
  <1>9. ASSUME NEW r \in Requests, RetryWrite(r)
        PROVE  status'[i] = "CANCELLED"
    BY <1>9 DEF RetryWrite, WriteRequeued
  <1>10. ASSUME NEW x \in Callers, QueueAdd(x)
        PROVE  status'[i] = "CANCELLED"
    BY <1>10 DEF QueueAdd
  <1>11. ASSUME NEW x \in Callers, QueueAddFails(x)
        PROVE  status'[i] = "CANCELLED"
    BY <1>11 DEF QueueAddFails
  <1>12. ASSUME NEW c \in Consumers, NEW j \in Jobs, TakeJob(c, j)
        PROVE  status'[i] = "CANCELLED"
    BY <1>12 DEF TakeJob
  <1>13. ASSUME NEW c \in Consumers, ReadRow(c)
        PROVE  status'[i] = "CANCELLED"
    BY <1>13 DEF ReadRow, IsQueued
  <1>14. ASSUME NEW c \in Consumers, Mark(c)
        PROVE  status'[i] = "CANCELLED"
    BY <1>14 DEF Mark
  <1>15. ASSUME NEW c \in Consumers, ScanEnds(c) \/ Save(c)
        PROVE  status'[i] = "CANCELLED"
    BY <1>15 DEF ScanEnds, Save
  <1>16. ASSUME NEW c \in Consumers, Complete(c)
        PROVE  status'[i] = "CANCELLED"
    BY <1>16 DEF Complete
  <1>17. ASSUME NEW c \in Consumers, WriteFailed(c)
        PROVE  status'[i] = "CANCELLED"
    BY <1>17 DEF WriteFailed
  <1>18. ASSUME NEW c \in Consumers, Acknowledge(c)
        PROVE  status'[i] = "CANCELLED"
    BY <1>18 DEF Acknowledge
  <1>19. ASSUME NEW c \in Consumers, ConsumerCallFails(c)
        PROVE  status'[i] = "CANCELLED"
    BY <1>19 DEF ConsumerCallFails, Note
  <1>20. CASE (\E j \in Jobs : GrowOld(j)) \/ CheckWorkerHealth
    BY <1>20 DEF GrowOld, CheckWorkerHealth
  <1>21. ASSUME NEW k \in Checks, CheckOverflow(k)
        PROVE  status'[i] = "CANCELLED"
    BY <1>21 DEF CheckOverflow, QueuedRows
  <1>22. ASSUME NEW k \in Checks, SendOverflow(k)
        PROVE  status'[i] = "CANCELLED"
    BY <1>22 DEF SendOverflow, Send, Note
  <1>23. ASSUME NEW j \in Jobs, Accepted202(j)
        PROVE  status'[i] = "CANCELLED"
    BY <1>23 DEF Accepted202, Deliver, Accept, Received
  <1>24. ASSUME NEW j \in Jobs, Answered429or503(j) \/ Unreachable(j)
        PROVE  status'[i] = "CANCELLED"
    BY <1>24, LostPost
  <1>25. CASE Restart
    BY <1>25 DEF Restart, DropRequests, Note
  <1>26. CASE hybrid /\ RunWorkers
    BY <1>26, WorkersDo DEF WorkersEffect
  <1> HIDE DEF TypeInv, KnownInv, ClaimInv
  <1>27. QED
    BY <1>1, <1>2, <1>3, <1>4, <1>5, <1>6, <1>7, <1>8, <1>9, <1>10, <1>11, <1>12, <1>13, <1>14,
       <1>15, <1>16, <1>17, <1>18, <1>19, <1>20, <1>21, <1>22, <1>23, <1>24, <1>25, <1>26
    DEF Next, Request, Consume, Process, Overflow

(***************************************************************************)
(* With Redis alone a successful cancel is final, unless the row is being  *)
(* replayed or its job was added after the cancel had looked for it.       *)
(***************************************************************************)
THEOREM CancelledStays == Spec => CancelledStaysCancelled
  <1>1. Inv /\ [Next]_vars =>
            \A j \in Jobs :
              /\ status[j] = "CANCELLED" /\ ~hybrid
              /\ \A r \in Requests : reqOp[r] = "retry" => reqJob[r] # j
              /\ j \notin late
              => status'[j] = "CANCELLED"
    BY CancelledKept DEF Inv, CancelInv
  <1>2. QED
    BY <1>1, InvHolds, PTL DEF Spec, CancelledStaysCancelled

(* What a step does to a COMPLETED row when all that have it are before or past their write. *)
LEMMA CompletedKept ==
  ASSUME TypeInv, KnownInv, [Next]_vars, NEW i \in Jobs,
         status[i] = "COMPLETED", hybrid,
         \A r \in Requests : reqJob[r] # i,
         \A c \in Consumers : mine[c] = i => pc[c] \in {"read", "ack"},
         \A e \in Executions : job[e] = i => at[e] \in {"idle", "read"}
  PROVE  status'[i] = "COMPLETED"
  <1> USE JobsAssumption, BrokerAssumption
      DEF TypeInv, TypeOK, BaseTypeOK, WorkerTypeOK, Callers,
      To, Goto, EndJob, SetMine, hybrid, rowVars, requestVars, baseVars, executionVars,
      workerVars, transportVars, consumerVars, overflowVars, brokerVars, markVars, noConsumerVars,
      brokerRest, KnownInv, Counted
  <1>1. CASE UNCHANGED vars
    BY <1>1 DEF vars
  <1>2. ASSUME NEW s \in Submitters, NEW j \in Jobs, AddJobCheck(s, j)
        PROVE  status'[i] = "COMPLETED"
    BY <1>2 DEF AddJobCheck, CheckRateLimit
  <1>3. ASSUME NEW s \in Submitters, AddJobCreate(s)
        PROVE  status'[i] = "COMPLETED"
    BY <1>3 DEF AddJobCreate, CreateJob
  <1>4. ASSUME NEW s \in Submitters, Probe(s)
        PROVE  status'[i] = "COMPLETED"
    BY <1>4 DEF Probe, Send, Note
  <1>5. ASSUME NEW r \in Requests, NEW j \in Jobs, CancelRead(r, j)
        PROVE  status'[i] = "COMPLETED"
    BY <1>5 DEF CancelRead, ReadForCancel
  <1>6. ASSUME NEW r \in Requests, NEW j \in Jobs, RetryRead(r, j)
        PROVE  status'[i] = "COMPLETED"
    BY <1>6 DEF RetryRead, ReadForRetry
  <1>7. ASSUME NEW r \in Requests, CancelOnTransport(r)
        PROVE  status'[i] = "COMPLETED"
    BY <1>7 DEF CancelOnTransport
  <1>8. ASSUME NEW r \in Requests, CancelWrite(r)
        PROVE  status'[i] = "COMPLETED"
    BY <1>8 DEF CancelWrite, WriteCancelled
  <1>9. ASSUME NEW r \in Requests, RetryWrite(r)
        PROVE  status'[i] = "COMPLETED"
    BY <1>9 DEF RetryWrite, WriteRequeued
  <1>10. ASSUME NEW x \in Callers, QueueAdd(x)
        PROVE  status'[i] = "COMPLETED"
    BY <1>10 DEF QueueAdd
  <1>11. ASSUME NEW x \in Callers, QueueAddFails(x)
        PROVE  status'[i] = "COMPLETED"
    BY <1>11 DEF QueueAddFails
  <1>12. ASSUME NEW c \in Consumers, NEW j \in Jobs, TakeJob(c, j)
        PROVE  status'[i] = "COMPLETED"
    BY <1>12 DEF TakeJob
  <1>13. ASSUME NEW c \in Consumers, ReadRow(c)
        PROVE  status'[i] = "COMPLETED"
    BY <1>13 DEF ReadRow, IsQueued
  <1>14. ASSUME NEW c \in Consumers, Mark(c)
        PROVE  status'[i] = "COMPLETED"
    BY <1>14 DEF Mark
  <1>15. ASSUME NEW c \in Consumers, ScanEnds(c) \/ Save(c)
        PROVE  status'[i] = "COMPLETED"
    BY <1>15 DEF ScanEnds, Save
  <1>16. ASSUME NEW c \in Consumers, Complete(c)
        PROVE  status'[i] = "COMPLETED"
    BY <1>16 DEF Complete
  <1>17. ASSUME NEW c \in Consumers, WriteFailed(c)
        PROVE  status'[i] = "COMPLETED"
    BY <1>17 DEF WriteFailed
  <1>18. ASSUME NEW c \in Consumers, Acknowledge(c)
        PROVE  status'[i] = "COMPLETED"
    BY <1>18 DEF Acknowledge
  <1>19. ASSUME NEW c \in Consumers, ConsumerCallFails(c)
        PROVE  status'[i] = "COMPLETED"
    BY <1>19 DEF ConsumerCallFails, Note
  <1>20. CASE (\E j \in Jobs : GrowOld(j)) \/ CheckWorkerHealth
    BY <1>20 DEF GrowOld, CheckWorkerHealth
  <1>21. ASSUME NEW k \in Checks, CheckOverflow(k)
        PROVE  status'[i] = "COMPLETED"
    BY <1>21 DEF CheckOverflow, QueuedRows
  <1>22. ASSUME NEW k \in Checks, SendOverflow(k)
        PROVE  status'[i] = "COMPLETED"
    BY <1>22 DEF SendOverflow, Send, Note
  <1>23. ASSUME NEW j \in Jobs, Accepted202(j)
        PROVE  status'[i] = "COMPLETED"
    BY <1>23 DEF Accepted202, Deliver, Accept, Received
  <1>24. ASSUME NEW j \in Jobs, Answered429or503(j) \/ Unreachable(j)
        PROVE  status'[i] = "COMPLETED"
    BY <1>24, LostPost
  <1>25. CASE Restart
    BY <1>25 DEF Restart, DropRequests, Note
  <1>26. CASE hybrid /\ RunWorkers
    BY <1>26, WorkersDo, SMTT(30) DEF WorkersEffect
  <1> HIDE DEF TypeInv, KnownInv, ClaimInv
  <1>27. QED
    BY <1>1, <1>2, <1>3, <1>4, <1>5, <1>6, <1>7, <1>8, <1>9, <1>10, <1>11, <1>12, <1>13, <1>14,
       <1>15, <1>16, <1>17, <1>18, <1>19, <1>20, <1>21, <1>22, <1>23, <1>24, <1>25, <1>26
    DEF Next, Request, Consume, Process, Overflow

(***************************************************************************)
(* With the hybrid service a COMPLETED row is not scanned again, unless    *)
(* somebody had passed its test of the row before.                         *)
(***************************************************************************)
THEOREM CompletedNotRepeated == Spec => CompletedIsNotRepeated
  <1>1. Inv /\ [Next]_vars =>
            \A j \in Jobs :
              /\ status[j] = "COMPLETED" /\ hybrid
              /\ \A r \in Requests : reqJob[r] # j
              /\ "lostAck" \notin history[j]
              /\ \/ "askedAgain" \notin history[j]
                 \/ /\ \A c \in Consumers : mine[c] = j => pc[c] \in {"read", "ack"}
                    /\ \A e \in Executions : job[e] = j => at[e] = "read"
              => status'[j] = "COMPLETED"
    <2> SUFFICES ASSUME Inv, [Next]_vars, NEW j \in Jobs, status[j] = "COMPLETED", hybrid,
                        \A r \in Requests : reqJob[r] # j, "lostAck" \notin history[j],
                        \/ "askedAgain" \notin history[j]
                        \/ /\ \A c \in Consumers : mine[c] = j => pc[c] \in {"read", "ack"}
                           /\ \A e \in Executions : job[e] = j => at[e] = "read"
                 PROVE  status'[j] = "COMPLETED"
      OBVIOUS
    <2>1. /\ \A c \in Consumers : mine[c] = j => pc[c] \in {"read", "ack"}
          /\ \A e \in Executions : job[e] = j => at[e] \in {"idle", "read"}
      BY DEF Inv, RepeatInv
    <2>2. QED
      BY <2>1, CompletedKept DEF Inv
  <1>2. QED
    BY <1>1, InvHolds, PTL DEF Spec, CompletedIsNotRepeated

=============================================================================
