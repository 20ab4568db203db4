--------------------------- MODULE CloudRunQueue ---------------------------
(***************************************************************************)
(* CloudRunQueueService: no broker; addJob and retryJob ask a worker to    *)
(* scan the row by one HTTP request that is not repeated, and a fallback   *)
(* asks again for the rows that have been QUEUED for too long.             *)
(***************************************************************************)
EXTENDS ScanWorker

CONSTANTS
    Checks,       \* calls of checkStaleJobs in flight at once
    STALE_BATCH   \* rows a call asks for, 5 in the code

ASSUME CloudRunAssumption == STALE_BATCH \in Nat \ {0}

VARIABLES
    stale,  \* rows whose queuedAt is more than STALE_JOB_THRESHOLD_MS ago
    todo    \* todo[k]: rows call k of checkStaleJobs has found and not yet asked for

fallbackVars == <<stale, todo>>
vars == <<baseVars, workerVars, fallbackVars>>

TypeOK ==
    /\ BaseTypeOK
    /\ WorkerTypeOK
    /\ stale \in SUBSET Jobs
    /\ todo \in [Checks -> SUBSET Jobs]

Init ==
    /\ BaseInit
    /\ WorkerInit
    /\ stale = {}
    /\ todo = [k \in Checks |-> {}]

-----------------------------------------------------------------------------
(***************************************************************************)
(* The requests                                                            *)
(***************************************************************************)
AddJobCheck(s, j) ==
    /\ CheckRateLimit(s, j)
    /\ UNCHANGED <<workerVars, fallbackVars>>

(* Faulty variant: the trigger is sent twice. *)
AddJobCreateTwice(s) ==
    /\ CreateJob(s)
    /\ posts' = [posts EXCEPT ![adding[s]] = @ + 2]
    /\ UNCHANGED <<executionVars, shuttingDown, faults, crowded, history, fallbackVars>>

AddJobCreate(s) ==
    /\ CreateJob(s)
    /\ Send(adding[s])
    /\ UNCHANGED <<executionVars, shuttingDown, faults, crowded, history, fallbackVars>>

CancelRead(r, j) ==
    /\ ReadForCancel(r, j)
    /\ UNCHANGED <<workerVars, fallbackVars>>

CancelWrite(r) ==
    /\ WriteCancelled(r)
    /\ UNCHANGED <<workerVars, fallbackVars>>

RetryRead(r, j) ==
    /\ ReadForRetry(r, j)
    /\ UNCHANGED <<workerVars, fallbackVars>>

(* Such a row keeps its queuedAt: it may be stale at once. *)
RetryWrite(r) ==
    /\ WriteRequeued(r)
    /\ Send(reqJob[r])
    /\ Note("askedAgain", {reqJob[r]})
    /\ UNCHANGED <<executionVars, shuttingDown, faults, crowded, fallbackVars>>

-----------------------------------------------------------------------------
(***************************************************************************)
(* checkStaleJobs, called every FALLBACK_POLL_INTERVAL                     *)
(***************************************************************************)
GrowStale(j) ==
    /\ status[j] # "ABSENT"
    /\ j \notin stale
    /\ stale' = stale \cup {j}
    /\ UNCHANGED <<baseVars, workerVars, todo>>

(* Faulty variant: PENDING rows are looked for, and there are none. *)
StaleJobsNone == {}

StaleJobs == {j \in stale : status[j] = "QUEUED"}

(* the first STALE_BATCH of S, in the order of the query *)
IsBatch(B, S) ==
    /\ B \subseteq S
    /\ \A i \in B, j \in S \ B : ~Ahead(j, i)
    /\ IF Cardinality(S) <= STALE_BATCH THEN B = S ELSE Cardinality(B) = STALE_BATCH

CheckStale(k) ==
    /\ todo[k] = {}
    /\ StaleJobs # {}
    /\ \E B \in SUBSET StaleJobs : IsBatch(B, StaleJobs) /\ todo' = [todo EXCEPT ![k] = B]
    /\ UNCHANGED <<baseVars, workerVars, stale>>

(* by now the row may be anything *)
Retrigger(k) ==
    /\ \E j \in todo[k] :
        /\ \A i \in todo[k] : ~Ahead(i, j)
        /\ Send(j)
        /\ todo' = [todo EXCEPT ![k] = @ \ {j}]
        /\ Note("askedAgain", {j})
    /\ UNCHANGED <<baseVars, executionVars, shuttingDown, faults, crowded, stale>>

(* The API process dies or is redeployed; what it has sent is on its way. *)
Restart ==
    /\ Fault
    /\ DropRequests
    /\ todo' = [k \in Checks |-> {}]
    /\ UNCHANGED <<rowVars, posts, executionVars, shuttingDown, crowded, history, stale>>

-----------------------------------------------------------------------------
Request ==
    \/ \E s \in Submitters, j \in Jobs : AddJobCheck(s, j)
    \/ \E s \in Submitters : AddJobCreate(s)
    \/ \E r \in Requests, j \in Jobs : CancelRead(r, j) \/ RetryRead(r, j)
    \/ \E r \in Requests : CancelWrite(r) \/ RetryWrite(r)

Fallback ==
    \/ \E j \in Jobs : GrowStale(j)
    \/ \E k \in Checks : CheckStale(k) \/ Retrigger(k)
    \/ Restart

Next == Request \/ Fallback \/ (WorkerNext /\ UNCHANGED fallbackVars)

Spec == Init /\ [][Next]_vars

(***************************************************************************)
(* The timer of the fallback keeps firing, database calls and scans        *)
(* return, time passes, an instance that is shutting down exits, and       *)
(* requests sent again and again are not all lost.                         *)
(***************************************************************************)
Fairness ==
    /\ \A j \in Jobs : /\ WF_vars(GrowStale(j))
                       /\ SF_vars(Deliver(j) /\ UNCHANGED fallbackVars)
    /\ \A k \in Checks : WF_vars(CheckStale(k)) /\ WF_vars(Retrigger(k))
    /\ \A e \in Executions : WF_vars(Execute(e) /\ UNCHANGED fallbackVars)
    /\ \A w \in Workers : WF_vars(Exit(w) /\ UNCHANGED fallbackVars)

FairSpec == Spec /\ Fairness

-----------------------------------------------------------------------------
(***************************************************************************)
(* Properties                                                              *)
(***************************************************************************)

(* A row says PROCESSING only while an instance works on it, also when several
   do and when cancels and replays interfere, unless an execution of this very
   row was cut short. *)
ProcessingIsOwned ==
    \A j \in Jobs : status[j] = "PROCESSING" =>
        \/ \E e \in Executions : job[e] = j /\ at[e] \in Counted
        \/ "cutShort" \in history[j]

(* An instance runs no more than MAX_CONCURRENT scans, unless it has accepted
   one while another it had accepted was not yet in activeJobs. *)
WithinCapacity ==
    \A w \in Workers : w \notin crowded => activeJobs(w) <= MAX_CONCURRENT

(* One row is scanned by two executions only when somebody has asked for it
   again: the fallback, or a replay. *)
OneExecutionPerTrigger ==
    \A d, e \in Executions :
        at[d] # "idle" /\ job[d] = job[e] /\ "askedAgain" \notin history[job[d]] => d = e

(* COMPLETED is only said of an audit whose report is there, and of one job
   of the audit: duplicates and failed writes notwithstanding. *)
CompletedIsReported ==
    \A j \in Jobs :
        status[j] = "COMPLETED" /\ AuditOf[j] # NoAudit =>
            /\ AuditOf[j] \in reported
            /\ \A i \in Jobs : status[i] = "COMPLETED" /\ AuditOf[i] = AuditOf[j] => i = j

(* What is COMPLETED stays so, unless the row was asked for again, its write
   was reported as failed, or a cancel request has read the row before. *)
CompletedIsFinal ==
    [][\A j \in Jobs :
          /\ status[j] = "COMPLETED"
          /\ history[j] \cap {"askedAgain", "lostAck"} = {}
          /\ \A r \in Requests : reqOp[r] = "cancel" => reqJob[r] # j
          => status'[j] = "COMPLETED"]_vars

(* The workers and the fallback implement RemoteScan, faults and all: a row the
   fallback or a replay has asked for again is REPEATED, and the scan of any other
   is that of the one execution it can have. *)
Repeated(j) == "askedAgain" \in history[j]
ScannedAt(j, S) == \E e \in Executions : job[e] = j /\ at[e] \in S

rowOf == [j \in Jobs |->
    CASE Repeated(j) -> "REPEATED"
      [] ~Repeated(j) /\ status[j] = "PROCESSING" /\ ~ScannedAt(j, Counted) -> "LOST"
      [] OTHER -> status[j]]

scanOf == [j \in Jobs |->
    CASE Repeated(j) -> "none"
      [] ~Repeated(j) /\ ScannedAt(j, {"mark"}) -> "found"
      [] ~Repeated(j) /\ ScannedAt(j, {"scan", "save"}) -> "running"
      [] ~Repeated(j) /\ ScannedAt(j, {"complete"}) -> "saved"
      [] ~Repeated(j) /\ ScannedAt(j, {"caught"}) -> "failing"
      [] OTHER -> "none"]

askedOf == {j \in Jobs : ~Repeated(j) /\ \E r \in Requests : reqOp[r] = "cancel" /\ reqJob[r] = j}

Remote == INSTANCE RemoteScan WITH
    row <- rowOf, scan <- scanOf, asked <- askedOf, reports <- reported

ImplementsRemoteScan == Remote!RemoteSpec

Settled(j) == status[j] \in {"COMPLETED", "FAILED", "CANCELLED"}

(* The fallback makes up for every request that is lost or turned away, for
   the restart of the API in the middle of it, and for an instance that ends
   before its PROCESSING write: an accepted job settles, unless an execution of
   it was cut short. *)
SettlesUnlessCutShort ==
    \A j \in Jobs : status[j] \in Active ~> Settled(j) \/ "cutShort" \in history[j]

(***************************************************************************)
(* What the repository says and the code does not do                       *)
(***************************************************************************)

(* "This ensures no scan is ever lost even if Cloud Run is down", of the
   fallback: every accepted job settles. *)
NoScanIsLost == \A j \in Jobs : status[j] \in Active ~> Settled(j)

=============================================================================
