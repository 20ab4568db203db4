---------------------------- MODULE BrokerQueue ----------------------------
(***************************************************************************)
(* RedisQueueService and HybridQueueService: addJob puts a job into BullMQ *)
(* under the id of its row, and consumers in the API process run it.  The  *)
(* hybrid service also hands QUEUED rows to the workers of ScanWorker when *)
(* its queue is long or old.  BullMQ is not part of the repository: it is  *)
(* modelled by what these services rely on, an id that is taken is not     *)
(* added again, a job that is being run cannot be removed, finished jobs   *)
(* are kept, and a job whose consumer died is handed out again, but only   *)
(* once (maxStalledCount, which these services leave at 1): the second     *)
(* time it ends as a failed one.                                           *)
(***************************************************************************)
EXTENDS ScanWorker

CONSTANTS
    Consumers,        \* WORKER_CONCURRENCY consumers of the API process
    Checks,           \* calls of checkOverflow in flight at once
    QUEUE_THRESHOLD,  \* OVERFLOW_QUEUE_THRESHOLD
    OVERFLOW_BATCH,   \* rows a call of checkOverflow sends, 3 in the code
    MaxRedisFaults    \* BOUND on the faults with Redis alone, which has fewer states;
                      \* the hybrid service has the bound of the workers, MaxFaults

ASSUME BrokerAssumption ==
    /\ QUEUE_THRESHOLD \in Nat
    /\ OVERFLOW_BATCH \in Nat \ {0}
    /\ Submitters \cap Requests = {}
    /\ MaxRedisFaults \in Nat

Callers == Submitters \cup Requests

VARIABLES
    queueType,  \* QUEUE_TYPE
    bull,       \* bull[j]: where BullMQ has the job of row j, "kept" once it has ended
    stage,      \* stage[x]: what addJob or retryJob does next, its row written
    stageJob,   \* stageJob[x]: that row
    removed,    \* cancel requests that have passed cancelOnTransport
    pc,         \* pc[c]: where processJob of consumer c is
    mine,       \* mine[c]: the row it is run for
    workerHealthy,
    old,        \* rows that have waited longer than OVERFLOW_WAIT_THRESHOLD
    batch,      \* batch[k]: rows call k of checkOverflow has found and not sent yet
    stalled,    \* jobs of BullMQ that have lost a consumer once
    orphans,    \* rows no job of BullMQ stands for, by a fault or because BullMQ still
                \* knew the id of a replayed one; a history variable
    late        \* rows whose job was added when a cancel had already looked for it in
                \* BullMQ; a history variable

transportVars == <<bull, stage, stageJob, removed>>
consumerVars == <<pc, mine>>
overflowVars == <<workerHealthy, old, batch>>
markVars == <<stalled, orphans, late>>
brokerVars == <<queueType, transportVars, consumerVars, overflowVars, markVars>>
vars == <<baseVars, workerVars, brokerVars>>

Running == {"scan", "save", "complete", "caught"}  \* after the PROCESSING write

TypeOK ==
    /\ BaseTypeOK
    /\ WorkerTypeOK
    /\ queueType \in {"redis", "hybrid"}
    /\ bull \in [Jobs -> {"none", "waiting", "active", "kept"}]
    /\ stage \in [Callers -> {"none", "add", "probe"}]
    /\ stageJob \in [Callers -> Jobs \cup {NoJob}]
    /\ removed \in SUBSET Requests
    /\ pc \in [Consumers -> {"idle", "read", "mark", "ack"} \cup Running]
    /\ mine \in [Consumers -> Jobs \cup {NoJob}]
    /\ \A c \in Consumers : pc[c] # "idle" <=> mine[c] \in Jobs
    /\ workerHealthy \in BOOLEAN
    /\ old \in SUBSET Jobs
    /\ batch \in [Checks -> SUBSET Jobs]
    /\ stalled \in SUBSET Jobs
    /\ orphans \in SUBSET Jobs
    /\ late \in SUBSET Jobs

Init ==
    /\ BaseInit
    /\ WorkerInit
    /\ queueType \in {"redis", "hybrid"}
    /\ bull = [j \in Jobs |-> "none"]
    /\ stage = [x \in Callers |-> "none"]
    /\ stageJob = [x \in Callers |-> NoJob]
    /\ removed = {}
    /\ pc = [c \in Consumers |-> "idle"]
    /\ mine = [c \in Consumers |-> NoJob]
    /\ workerHealthy = TRUE
    /\ old = {}
    /\ batch = [k \in Checks |-> {}]
    /\ stalled = {}
    /\ orphans = {}
    /\ late = {}

hybrid == queueType = "hybrid"

ApiFault == (hybrid /\ Fault) \/ (~hybrid /\ faults < MaxRedisFaults /\ faults' = faults + 1)

-----------------------------------------------------------------------------
(***************************************************************************)
(* The requests: the row first, the broker after it                        *)
(***************************************************************************)
To(x, s, j) ==
    /\ stage' = [stage EXCEPT ![x] = s]
    /\ stageJob' = [stageJob EXCEPT ![x] = j]

AddJobCheck(s, j) ==
    /\ stage[s] = "none"
    /\ \A x \in Callers : stageJob[x] # j
    /\ CheckRateLimit(s, j)
    /\ UNCHANGED <<workerVars, brokerVars>>

AddJobCreate(s) ==
    /\ CreateJob(s)
    /\ To(s, "add", adding[s])
    /\ UNCHANGED <<workerVars, queueType, bull, removed, consumerVars,
                   overflowVars, markVars>>

RetryRead(r, j) ==
    /\ stage[r] = "none"
    /\ ReadForRetry(r, j)
    /\ UNCHANGED <<workerVars, brokerVars>>

RetryWrite(r) ==
    /\ WriteRequeued(r)
    /\ To(r, "add", reqJob[r])
    /\ UNCHANGED <<workerVars, queueType, bull, removed, consumerVars,
                   overflowVars, markVars>>

(* Faulty variant: the row is written and nothing is added. *)
QueueAddForgotten(x) ==
    /\ stage[x] = "add"
    /\ To(x, "none", NoJob)
    /\ UNCHANGED <<baseVars, workerVars, queueType, bull, removed, consumerVars, overflowVars, markVars>>

(* a cancel of row j has looked for its job *)
CancelHasLooked(j) == status[j] = "CANCELLED" \/ \E r \in removed : reqJob[r] = j

(* queue.add: nothing happens when BullMQ still has a job of that id, as it has
   of one that failed. *)
QueueAdd(x) ==
    /\ stage[x] = "add"
    /\ LET j == stageJob[x]
       IN  /\ IF bull[j] = "none"
              THEN /\ bull' = [bull EXCEPT ![j] = "waiting"]
                   /\ stalled' = stalled \ {j}
                   /\ UNCHANGED orphans
              ELSE /\ orphans' = IF bull[j] = "waiting" THEN orphans ELSE orphans \cup {j}
                   /\ UNCHANGED <<bull, stalled>>
           /\ late' = IF CancelHasLooked(j) THEN late \cup {j} ELSE late
    /\ IF hybrid /\ x \in Submitters THEN To(x, "probe", stageJob[x]) ELSE To(x, "none", NoJob)
    /\ UNCHANGED <<baseVars, workerVars, queueType, removed, consumerVars, overflowVars>>

QueuedRows == {j \in Jobs : status[j] = "QUEUED"}

(* the oldest row that is QUEUED is in old as soon as any is *)
ShouldTriggerOverflow ==
    \/ Cardinality(QueuedRows) > QUEUE_THRESHOLD
    \/ QueuedRows \cap old # {}

(* enqueueOnTransport of the hybrid service, after queue.add *)
Probe(s) ==
    /\ stage[s] = "probe"
    /\ IF ShouldTriggerOverflow
       THEN Send(stageJob[s]) /\ Note("askedAgain", {stageJob[s]})
       ELSE UNCHANGED <<posts, history>>
    /\ To(s, "none", NoJob)
    /\ UNCHANGED <<baseVars, executionVars, shuttingDown, faults, crowded, queueType,
                   bull, removed, consumerVars, overflowVars, markVars>>

CancelRead(r, j) ==
    /\ stage[r] = "none"
    /\ ReadForCancel(r, j)
    /\ UNCHANGED <<workerVars, brokerVars>>

(* Faulty variant: a job is removed from under its consumer. *)
CancelOnTransportForced(r) ==
    /\ reqOp[r] = "cancel" /\ r \notin removed
    /\ removed' = removed \cup {r}
    /\ bull' = [bull EXCEPT ![reqJob[r]] = "none"]
    /\ UNCHANGED <<baseVars, workerVars, queueType, stage, stageJob,
                   consumerVars, overflowVars, markVars>>

(* getJob and remove, which fails, and cancelJob with it, when a consumer has
   the job *)
CancelOnTransport(r) ==
    /\ reqOp[r] = "cancel" /\ r \notin removed
    /\ IF bull[reqJob[r]] = "active"
       THEN /\ reqOp' = [reqOp EXCEPT ![r] = "none"]
            /\ reqJob' = [reqJob EXCEPT ![r] = NoJob]
            /\ UNCHANGED <<rowVars, adding, replays, bull, removed>>
       ELSE /\ bull' = [bull EXCEPT ![reqJob[r]] = "none"]
            /\ removed' = removed \cup {r}
            /\ UNCHANGED baseVars
    /\ UNCHANGED <<workerVars, queueType, stage, stageJob,
                   consumerVars, overflowVars, markVars>>

CancelWrite(r) ==
    /\ r \in removed
    /\ WriteCancelled(r)
    /\ removed' = removed \ {r}
    /\ UNCHANGED <<workerVars, queueType, bull, stage, stageJob,
                   consumerVars, overflowVars, markVars>>

-----------------------------------------------------------------------------
(***************************************************************************)
(* processJob, the consumer's callback                                     *)
(***************************************************************************)
Goto(c, p) == pc' = [pc EXCEPT ![c] = p] /\ UNCHANGED mine

(* Faulty variant: the consumer keeps the row it was run for. *)
EndJobKeepsRow(c) ==
    /\ pc' = [pc EXCEPT ![c] = "idle"]
    /\ bull' = [bull EXCEPT ![mine[c]] = "kept"]
    /\ UNCHANGED mine

(* the callback returns or throws, and BullMQ keeps the job *)
EndJob(c) ==
    /\ pc' = [pc EXCEPT ![c] = "idle"]
    /\ mine' = [mine EXCEPT ![c] = NoJob]
    /\ bull' = [bull EXCEPT ![mine[c]] = "kept"]

SetMine(c, st) ==
    /\ status' = [status EXCEPT ![mine[c]] = st]
    /\ UNCHANGED <<attempts, nextRetryAt, queuedAt, lastQueuedAt>>

noConsumerVars == <<requestVars, posts, executionVars, shuttingDown, crowded,
                    queueType, stage, stageJob, removed, overflowVars>>

TakeJob(c, j) ==
    /\ pc[c] = "idle"
    /\ bull[j] = "waiting"
    /\ bull' = [bull EXCEPT ![j] = "active"]
    /\ pc' = [pc EXCEPT ![c] = IF hybrid THEN "read" ELSE "mark"]
    /\ mine' = [mine EXCEPT ![c] = j]
    /\ UNCHANGED <<rowVars, faults, history, markVars, noConsumerVars>>

(* Faulty variant: whatever the row says, it is run. *)
IsQueuedAlways(c) == TRUE

IsQueued(c) == status[mine[c]] = "QUEUED"

(* only the hybrid service looks at the row first *)
ReadRow(c) ==
    /\ pc[c] = "read"
    /\ IF IsQueued(c) THEN Goto(c, "mark") /\ UNCHANGED bull ELSE EndJob(c)
    /\ UNCHANGED <<rowVars, faults, history, markVars, noConsumerVars>>

Mark(c) ==
    /\ pc[c] = "mark"
    /\ SetMine(c, "PROCESSING")
    /\ Goto(c, "scan")
    /\ UNCHANGED <<bull, faults, history, markVars, noConsumerVars>>

(* scanWebsite and the progress updates *)
ScanEnds(c) ==
    /\ pc[c] = "scan"
    /\ Goto(c, "save") \/ Goto(c, "caught")
    /\ UNCHANGED <<rowVars, bull, faults, history, markVars, noConsumerVars>>

(* saveScanResult without an auditRequestId: the report belongs to no audit *)
Save(c) ==
    /\ pc[c] = "save"
    /\ Goto(c, "complete")
    /\ UNCHANGED <<rowVars, bull, faults, history, markVars, noConsumerVars>>

Complete(c) ==
    /\ pc[c] = "complete"
    /\ SetMine(c, "COMPLETED")
    /\ Goto(c, "ack")
    /\ UNCHANGED <<bull, faults, history, markVars, noConsumerVars>>

(* Faulty variant: the status is left out of the update. *)
WriteFailedKeepsStatus(c) ==
    /\ pc[c] = "caught"
    /\ Goto(c, "ack")
    /\ UNCHANGED <<rowVars, bull, faults, history, markVars, noConsumerVars>>

WriteFailed(c) ==
    /\ pc[c] = "caught"
    /\ SetMine(c, "FAILED")
    /\ Goto(c, "ack")
    /\ UNCHANGED <<bull, faults, history, markVars, noConsumerVars>>

Acknowledge(c) ==
    /\ pc[c] = "ack"
    /\ EndJob(c)
    /\ UNCHANGED <<rowVars, faults, history, markVars, noConsumerVars>>

(* A database call of the callback fails.  What fails before the try block or
   in the catch block ends the callback; a write that is reported as failed may
   have been applied. *)
ConsumerCallFails(c) ==
    /\ ApiFault
    /\ \/ /\ pc[c] \in {"read", "mark"}
          /\ EndJob(c)
          /\ orphans' = orphans \cup {mine[c]}
          /\ Note("cutShort", IF ~hybrid /\ status[mine[c]] = "PROCESSING" THEN {mine[c]} ELSE {})
          /\ UNCHANGED rowVars
       \/ /\ pc[c] = "mark"
          /\ SetMine(c, "PROCESSING")
          /\ EndJob(c)
          /\ Note("cutShort", {mine[c]})
          /\ UNCHANGED orphans
       \/ /\ pc[c] \in {"save", "complete"}
          /\ Goto(c, "caught")
          /\ UNCHANGED <<rowVars, bull, history, orphans>>
       \/ /\ pc[c] = "complete"
          /\ SetMine(c, "COMPLETED")
          /\ Goto(c, "caught")
          /\ Note("lostAck", {mine[c]})
          /\ UNCHANGED <<bull, orphans>>
       \/ /\ pc[c] = "caught"
          /\ EndJob(c)
          /\ Note("cutShort", {mine[c]})
          /\ UNCHANGED <<rowVars, orphans>>
    /\ UNCHANGED <<stalled, late, noConsumerVars>>

-----------------------------------------------------------------------------
(***************************************************************************)
(* Overflow to the workers                                                 *)
(***************************************************************************)
GrowOld(j) ==
    /\ hybrid
    /\ status[j] = "QUEUED"
    /\ old' = old \cup {j}
    /\ UNCHANGED <<baseVars, workerVars, queueType, transportVars, consumerVars,
                   workerHealthy, batch, markVars>>

(* checkWorkerHealth, when the last one is a minute ago *)
CheckWorkerHealth ==
    /\ hybrid /\ ShouldTriggerOverflow
    /\ \/ workerHealthy' = TRUE /\ UNCHANGED faults
       \/ workerHealthy' = FALSE /\ Fault
    /\ UNCHANGED <<baseVars, posts, executionVars, shuttingDown, crowded, history, queueType,
                   transportVars, consumerVars, old, batch, markVars>>

IsBatch(B, S) ==
    /\ B \subseteq S
    /\ \A i \in B, j \in S \ B : ~Ahead(j, i)
    /\ IF Cardinality(S) <= OVERFLOW_BATCH THEN B = S ELSE Cardinality(B) = OVERFLOW_BATCH

(* Faulty variant: the length of the queue is looked at, its age is not. *)
CheckOverflowByLength(k) ==
    /\ hybrid /\ workerHealthy
    /\ batch[k] = {} /\ Cardinality(QueuedRows) > QUEUE_THRESHOLD
    /\ \E B \in SUBSET QueuedRows : IsBatch(B, QueuedRows) /\ batch' = [batch EXCEPT ![k] = B]
    /\ UNCHANGED <<baseVars, workerVars, queueType, transportVars, consumerVars,
                   workerHealthy, old, markVars>>

CheckOverflow(k) ==
    /\ hybrid /\ workerHealthy
    /\ batch[k] = {} /\ ShouldTriggerOverflow
    /\ \E B \in SUBSET QueuedRows : IsBatch(B, QueuedRows) /\ batch' = [batch EXCEPT ![k] = B]
    /\ UNCHANGED <<baseVars, workerVars, queueType, transportVars, consumerVars,
                   workerHealthy, old, markVars>>

SendOverflow(k) ==
    /\ \E j \in batch[k] :
        /\ \A i \in batch[k] : ~Ahead(i, j)
        /\ Send(j)
        /\ batch' = [batch EXCEPT ![k] = @ \ {j}]
        /\ Note("askedAgain", {j})
    /\ UNCHANGED <<baseVars, executionVars, shuttingDown, faults, crowded, queueType,
                   transportVars, consumerVars, workerHealthy, old, markVars>>

brokerRest == <<queueType, transportVars, consumerVars, old, batch, markVars>>

(* What triggerCloudRunWorker makes of the answer.  A 202 may come too late. *)
Accepted202(j) == Deliver(j) /\ workerHealthy' \in BOOLEAN /\ UNCHANGED brokerRest
Answered429or503(j) ==
    /\ \E w \in Workers :
        /\ TurnAway(w, j)
        /\ workerHealthy' = IF shuttingDown[w] THEN workerHealthy ELSE TRUE
    /\ UNCHANGED brokerRest
Unreachable(j) == Lose(j) /\ workerHealthy' = FALSE /\ UNCHANGED brokerRest

-----------------------------------------------------------------------------
(***************************************************************************)
(* Faults of the API process                                               *)
(***************************************************************************)
(* queue.add throws, and addJob or retryJob with it *)
QueueAddFails(x) ==
    /\ stage[x] = "add"
    /\ ApiFault
    /\ orphans' = IF bull[stageJob[x]] = "waiting" THEN orphans ELSE orphans \cup {stageJob[x]}
    /\ To(x, "none", NoJob)
    /\ UNCHANGED <<baseVars, posts, executionVars, shuttingDown, crowded, history, queueType,
                   bull, removed, consumerVars, overflowVars, stalled, late>>

(* The process dies with its consumers and requests.  When the lock of a job they
   had expires, BullMQ hands it out again, or ends it if that has happened before. *)
Restart ==
    LET begun == {mine[c] : c \in {d \in Consumers : pc[d] \in Running}}
        lost == {j \in Jobs : bull[j] = "active"}
        ended == lost \cap stalled
    IN  /\ ApiFault
        /\ DropRequests
        /\ bull' = [j \in Jobs |-> IF j \in ended THEN "kept"
                                  ELSE IF j \in lost THEN "waiting" ELSE bull[j]]
        /\ stalled' = stalled \cup lost
        /\ orphans' = orphans \cup {stageJob[x] : x \in {y \in Callers : stage[y] = "add"}}
                              \cup {reqJob[r] : r \in removed} \cup ended
        /\ Note("cutShort", IF hybrid THEN begun ELSE {j \in ended : status[j] = "PROCESSING"})
        /\ stage' = [x \in Callers |-> "none"]
        /\ stageJob' = [x \in Callers |-> NoJob]
        /\ removed' = {}
        /\ pc' = [c \in Consumers |-> "idle"]
        /\ mine' = [c \in Consumers |-> NoJob]
        /\ workerHealthy' = TRUE
        /\ batch' = [k \in Checks |-> {}]
        /\ UNCHANGED <<rowVars, posts, executionVars, shuttingDown, crowded, queueType, old, late>>

-----------------------------------------------------------------------------
Request ==
    \/ \E s \in Submitters, j \in Jobs : AddJobCheck(s, j)
    \/ \E s \in Submitters : AddJobCreate(s) \/ Probe(s)
    \/ \E r \in Requests, j \in Jobs : CancelRead(r, j) \/ RetryRead(r, j)
    \/ \E r \in Requests : CancelOnTransport(r) \/ CancelWrite(r) \/ RetryWrite(r)
    \/ \E x \in Callers : QueueAdd(x) \/ QueueAddFails(x)

Process(c) ==
    \/ ReadRow(c) \/ Mark(c) \/ ScanEnds(c) \/ Save(c) \/ Complete(c)
    \/ WriteFailed(c) \/ Acknowledge(c)

Consume ==
    \/ \E c \in Consumers, j \in Jobs : TakeJob(c, j)
    \/ \E c \in Consumers : Process(c) \/ ConsumerCallFails(c)

Overflow ==
    \/ \E j \in Jobs : GrowOld(j)
    \/ CheckWorkerHealth
    \/ \E k \in Checks : CheckOverflow(k) \/ SendOverflow(k)
    \/ \E j \in Jobs : Accepted202(j) \/ Answered429or503(j) \/ Unreachable(j)

(* the instances of the worker, which know nothing of the broker *)
RunWorkers ==
    /\ \/ \E e \in Executions : Execute(e) \/ CallFails(e)
       \/ \E w \in Workers : ShutDown(w) \/ Exit(w)
    /\ UNCHANGED brokerVars

Next == Request \/ Consume \/ Overflow \/ Restart \/ (hybrid /\ RunWorkers)

Spec == Init /\ [][Next]_vars

(***************************************************************************)
(* Requests and callbacks run on, BullMQ hands out what waits, the timers  *)
(* fire, and of the requests to a worker that is asked again and again not *)
(* all are lost.                                                           *)
(***************************************************************************)
Fairness ==
    /\ \A x \in Callers : WF_vars(QueueAdd(x))
    /\ \A r \in Requests : WF_vars(CancelOnTransport(r)) /\ WF_vars(CancelWrite(r))
    /\ \A c \in Consumers : WF_vars(\E j \in Jobs : TakeJob(c, j)) /\ WF_vars(Process(c))
    /\ WF_vars(CheckWorkerHealth)
    /\ \A k \in Checks : SF_vars(CheckOverflow(k)) /\ WF_vars(SendOverflow(k))
    /\ \A j \in Jobs : WF_vars(GrowOld(j)) /\ SF_vars(Accepted202(j))
    /\ \A e \in Executions : WF_vars(Execute(e) /\ UNCHANGED brokerVars)
    /\ \A w \in Workers : WF_vars(Exit(w) /\ UNCHANGED brokerVars)

FairSpec == Spec /\ Fairness

-----------------------------------------------------------------------------
(***************************************************************************)
(* Properties                                                              *)
(***************************************************************************)

(* A QUEUED row is never forgotten in silence: BullMQ has a job for it, or a
   request that will add or has just taken away that job is in flight, or the
   row is one of those a fault or an ignored replay has orphaned. *)
QueuedIsHeld ==
    \A j \in Jobs : status[j] = "QUEUED" =>
        \/ bull[j] \in {"waiting", "active"}
        \/ \E x \in Callers : stageJob[x] = j
        \/ \E r \in removed : reqJob[r] = j
        \/ j \in orphans

(* A PROCESSING row is being run by a consumer or an instance, or is one that
   BullMQ will hand out again, or was cut short: a PROCESSING or an outcome write
   was reported as failed, its worker stopped, or its consumer died (with Redis
   alone, for the second time).  The two kinds of runner, which do not know of each
   other, leave none behind in any other way. *)
ProcessingIsRun ==
    \A j \in Jobs : status[j] = "PROCESSING" =>
        \/ \E c \in Consumers : mine[c] = j /\ pc[c] \in Running
        \/ \E e \in Executions : job[e] = j /\ at[e] \in Counted
        \/ ~hybrid /\ bull[j] \in {"waiting", "active"}
        \/ "cutShort" \in history[j]

(* With Redis alone a cancel that has succeeded is final, since what a consumer
   has taken cannot be removed, unless the row is being replayed, or its job was
   added after the cancel had looked for it: a submission or a replay writes the
   row first and adds the job later, and no consumer looks at the row. *)
CancelledStaysCancelled ==
    [][\A j \in Jobs :
          /\ status[j] = "CANCELLED" /\ ~hybrid
          /\ \A r \in Requests : reqOp[r] = "retry" => reqJob[r] # j
          /\ j \notin late
          => status'[j] = "CANCELLED"]_vars

(* What the hybrid service has COMPLETED is not scanned again.  A row no worker
   was asked for stays so though BullMQ hands it out again after a crash; any
   other stays so unless a consumer or an instance had passed its test of the row
   before the other COMPLETED it. *)
CompletedIsNotRepeated ==
    [][\A j \in Jobs :
          /\ status[j] = "COMPLETED" /\ hybrid
          /\ \A r \in Requests : reqJob[r] # j
          /\ "lostAck" \notin history[j]
          /\ \/ "askedAgain" \notin history[j]
             \/ /\ \A c \in Consumers : mine[c] = j => pc[c] \in {"read", "ack"}
                /\ \A e \in Executions : job[e] = j => at[e] = "read"
          => status'[j] = "COMPLETED"]_vars

Settled(j) == status[j] \in {"COMPLETED", "FAILED", "CANCELLED"}

(* Every accepted job settles unless it was cut short: the first restart under a
   job is made up for by BullMQ with Redis alone, and what BullMQ never got, or has
   given up, is made up for by the overflow with the hybrid service. *)
AcceptedSettles ==
    \A j \in Jobs :
        status[j] \in Active ~>
            Settled(j) \/ "cutShort" \in history[j] \/ (~hybrid /\ j \in orphans)

=============================================================================
