---------------------------- MODULE ScanWorker ----------------------------
(***************************************************************************)
(* worker/main.ts: the scan worker that Cloud Run starts, copies and stops *)
(* as it likes.  An instance is asked for a scan by POST /scan, answers at *)
(* once (202, 429 when at capacity, 503 when shutting down) and scans in   *)
(* the background.  It shares the ScanJob table with the API, and nothing  *)
(* else: a row that is PROCESSING does not say who is processing it.       *)
(*                                                                         *)
(* An execution is split at the awaits of executeScan; the slots in        *)
(* Executions are the calls of it that may be in flight at once.           *)
(***************************************************************************)
EXTENDS BaseQueue

CONSTANTS
    Workers,         \* instances of the worker
    Executions,      \* calls of executeScan in flight at once, over all instances
    NoWorker,        \* no instance
    MAX_CONCURRENT,  \* WORKER_MAX_CONCURRENT
    AuditOf,         \* AuditOf[j]: auditRequestId of row j
    NoAudit,         \* the auditRequestId of a row created without one
    MaxPosts,        \* BOUND on the POST /scan requests in flight for one row
    MaxFaults        \* BOUND on failed database calls, SIGTERMs and restarts of the API

ASSUME ScanWorkerAssumption ==
    /\ IsFiniteSet(Executions)
    /\ NoWorker \notin Workers
    /\ MAX_CONCURRENT \in Nat
    /\ DOMAIN AuditOf = Jobs
    /\ MaxPosts \in Nat
    /\ MaxFaults \in Nat

VARIABLES
    posts,         \* posts[j]: POST /scan requests for row j in flight
    at,            \* at[e]: where execution e is
    job,           \* job[e]: the row it was asked to scan
    on,            \* on[e]: the instance it runs on
    shuttingDown,  \* shuttingDown[w]: the flag of instance w
    reported,      \* AuditRequests that own an AuditReport (auditRequestId is unique)
    faults,        \* faults so far
    crowded,       \* instances that have accepted a scan while another they had accepted
                   \* was not yet counted
    history        \* history[j]: what has happened to row j; like crowded, a history
                   \* variable no action reads

executionVars == <<at, job, on, reported>>
workerVars == <<posts, executionVars, shuttingDown, faults, crowded, history>>

Marks == {
    "askedAgain",  \* a POST /scan besides that of addJob was sent for it
    "cutShort",    \* an execution of it ended after its PROCESSING write and before
                   \* any write of its outcome
    "lostAck"}     \* its COMPLETED write was applied but reported as failed

Note(mark, S) == history' = [j \in Jobs |-> history[j] \cup IF j \in S THEN {mark} ELSE {}]

Accepted == {"read", "mark"}                       \* answered with 202, not in activeJobs
Counted == {"scan", "save", "complete", "caught"}  \* in activeJobs

WorkerTypeOK ==
    /\ posts \in [Jobs -> Nat]
    /\ at \in [Executions -> {"idle"} \cup Accepted \cup Counted]
    /\ job \in [Executions -> Jobs \cup {NoJob}]
    /\ on \in [Executions -> Workers \cup {NoWorker}]
    /\ \A e \in Executions : at[e] # "idle" => job[e] \in Jobs /\ on[e] \in Workers
    /\ shuttingDown \in [Workers -> BOOLEAN]
    /\ reported \in SUBSET {AuditOf[j] : j \in Jobs}
    /\ faults \in Nat
    /\ crowded \in SUBSET Workers
    /\ history \in [Jobs -> SUBSET Marks]

WorkerInit ==
    /\ posts = [j \in Jobs |-> 0]
    /\ at = [e \in Executions |-> "idle"]
    /\ job = [e \in Executions |-> NoJob]
    /\ on = [e \in Executions |-> NoWorker]
    /\ shuttingDown = [w \in Workers |-> FALSE]
    /\ reported = {}
    /\ faults = 0
    /\ crowded = {}
    /\ history = [j \in Jobs |-> {}]

activeJobs(w) == Cardinality({e \in Executions : on[e] = w /\ at[e] \in Counted})

-----------------------------------------------------------------------------
(***************************************************************************)
(* The HTTP server                                                         *)
(***************************************************************************)
(* triggerWorker, of which nobody uses the answer *)
Send(j) ==
    /\ posts[j] < MaxPosts
    /\ posts' = [posts EXCEPT ![j] = @ + 1]

Received(j) ==
    /\ posts[j] > 0
    /\ posts' = [posts EXCEPT ![j] = @ - 1]

(* Faulty variant: capacity is not tested. *)
HasCapacityAlways(w) == TRUE

HasCapacity(w) == activeJobs(w) < MAX_CONCURRENT

(* 202: from the test to the increment of activeJobs there is the body of the
   request, the read of the row and a write. *)
Accept(w, e, j) ==
    /\ at[e] = "idle"
    /\ ~shuttingDown[w]
    /\ HasCapacity(w)
    /\ Received(j)
    /\ at' = [at EXCEPT ![e] = "read"]
    /\ job' = [job EXCEPT ![e] = j]
    /\ on' = [on EXCEPT ![e] = w]
    /\ crowded' = IF \E f \in Executions : on[f] = w /\ at[f] \in Accepted
                  THEN crowded \cup {w} ELSE crowded
    /\ UNCHANGED <<baseVars, shuttingDown, reported, faults, history>>

(* 429, 503 *)
TurnAway(w, j) ==
    /\ shuttingDown[w] \/ ~HasCapacity(w)
    /\ Received(j)
    /\ UNCHANGED <<baseVars, executionVars, shuttingDown, faults, crowded, history>>

(* no connection, or a time-out of a request that never arrived *)
Lose(j) ==
    /\ Received(j)
    /\ UNCHANGED <<baseVars, executionVars, shuttingDown, faults, crowded, history>>

-----------------------------------------------------------------------------
(***************************************************************************)
(* executeScan.  Every write is an update by id, with no condition on the  *)
(* status.                                                                 *)
(***************************************************************************)
Advance(e, to) ==
    /\ at' = [at EXCEPT ![e] = to]
    /\ UNCHANGED <<job, on>>

(* Faulty variant: no finally block: the execution stays counted. *)
FinishStaysCounted(e) ==
    /\ job' = [job EXCEPT ![e] = NoJob]
    /\ on' = [on EXCEPT ![e] = NoWorker]
    /\ UNCHANGED at

Finish(e) ==
    /\ at' = [at EXCEPT ![e] = "idle"]
    /\ job' = [job EXCEPT ![e] = NoJob]
    /\ on' = [on EXCEPT ![e] = NoWorker]

SetStatus(e, st) ==
    /\ status' = [status EXCEPT ![job[e]] = st]
    /\ UNCHANGED <<attempts, nextRetryAt, queuedAt, lastQueuedAt>>

outsideVars == <<requestVars, posts, shuttingDown, crowded>>

(* Faulty variant: the status of the row is not tested. *)
FindJobAnyStatus(e) ==
    /\ at[e] = "read"
    /\ Advance(e, "mark")
    /\ UNCHANGED <<rowVars, reported, faults, history, outsideVars>>

(* The scan goes on whether the row is still QUEUED or another execution has
   it PROCESSING. *)
FindJob(e) ==
    /\ at[e] = "read"
    /\ status[job[e]] \in Active
    /\ Advance(e, "mark")
    /\ UNCHANGED <<rowVars, reported, faults, history, outsideVars>>

Skip(e) ==
    /\ at[e] = "read"
    /\ status[job[e]] \notin Active
    /\ Finish(e)
    /\ UNCHANGED <<rowVars, reported, faults, history, outsideVars>>

MarkProcessing(e) ==
    /\ at[e] = "mark"
    /\ SetStatus(e, "PROCESSING")
    /\ Advance(e, "scan")
    /\ UNCHANGED <<reported, faults, history, outsideVars>>

(* Faulty variant: the report is not saved. *)
ScanSucceedsUnsaved(e) ==
    /\ at[e] = "scan"
    /\ Advance(e, "complete")
    /\ UNCHANGED <<rowVars, reported, faults, history, outsideVars>>

ScanSucceeds(e) ==
    /\ at[e] = "scan"
    /\ Advance(e, "save")
    /\ UNCHANGED <<rowVars, reported, faults, history, outsideVars>>

(* scanWebsite throws, or a progress update does *)
ScanFails(e) ==
    /\ at[e] = "scan"
    /\ Advance(e, "caught")
    /\ UNCHANGED <<rowVars, reported, faults, history, outsideVars>>

(* Faulty variant: auditRequestId is not unique. *)
AuditNeverReported(e) == FALSE

AuditReported(e) ==
    /\ AuditOf[job[e]] # NoAudit
    /\ AuditOf[job[e]] \in reported

AddReport(e) == reported' = reported \cup ({AuditOf[job[e]]} \ {NoAudit})

SaveReport(e) ==
    /\ at[e] = "save"
    /\ ~AuditReported(e)
    /\ AddReport(e)
    /\ Advance(e, "complete")
    /\ UNCHANGED <<rowVars, faults, history, outsideVars>>

SaveRejected(e) ==
    /\ at[e] = "save"
    /\ AuditReported(e)
    /\ Advance(e, "caught")
    /\ UNCHANGED <<rowVars, reported, faults, history, outsideVars>>

MarkCompleted(e) ==
    /\ at[e] = "complete"
    /\ SetStatus(e, "COMPLETED")
    /\ Finish(e)
    /\ UNCHANGED <<reported, faults, history, outsideVars>>

(* Faulty variant: the status is left out of the update. *)
MarkFailedKeepsStatus(e) ==
    /\ at[e] = "caught"
    /\ Finish(e)
    /\ UNCHANGED <<rowVars, reported, faults, history, outsideVars>>

MarkFailed(e) ==
    /\ at[e] = "caught"
    /\ SetStatus(e, "FAILED")
    /\ Finish(e)
    /\ UNCHANGED <<reported, faults, history, outsideVars>>

-----------------------------------------------------------------------------
(***************************************************************************)
(* Shutdown and faults                                                     *)
(***************************************************************************)
Fault ==
    /\ faults < MaxFaults
    /\ faults' = faults + 1

(* A database call fails; a write may have been applied all the same. *)
ReadFails(e) ==
    /\ at[e] = "read"
    /\ Fault
    /\ Finish(e)
    /\ UNCHANGED <<rowVars, reported, history, outsideVars>>

MarkProcessingFails(e) ==
    /\ at[e] = "mark"
    /\ Fault
    /\ \/ SetStatus(e, "PROCESSING") /\ Note("cutShort", {job[e]})
       \/ UNCHANGED <<rowVars, history>>
    /\ Finish(e)
    /\ UNCHANGED <<reported, outsideVars>>

SaveReportFails(e) ==
    /\ at[e] = "save"
    /\ ~AuditReported(e)
    /\ Fault
    /\ AddReport(e) \/ UNCHANGED reported
    /\ Advance(e, "caught")
    /\ UNCHANGED <<rowVars, history, outsideVars>>

MarkCompletedFails(e) ==
    /\ at[e] = "complete"
    /\ Fault
    /\ \/ SetStatus(e, "COMPLETED") /\ Note("lostAck", {job[e]})
       \/ UNCHANGED <<rowVars, history>>
    /\ Advance(e, "caught")
    /\ UNCHANGED <<reported, outsideVars>>

(* in the catch block: nothing else writes the row *)
MarkFailedFails(e) ==
    /\ at[e] = "caught"
    /\ Fault
    /\ Finish(e)
    /\ Note("cutShort", {job[e]})
    /\ UNCHANGED <<rowVars, reported, outsideVars>>

CallFails(e) ==
    \/ ReadFails(e) \/ MarkProcessingFails(e) \/ SaveReportFails(e)
    \/ MarkCompletedFails(e) \/ MarkFailedFails(e)

(* SIGTERM *)
ShutDown(w) ==
    /\ ~shuttingDown[w]
    /\ Fault
    /\ shuttingDown' = [shuttingDown EXCEPT ![w] = TRUE]
    /\ UNCHANGED <<baseVars, executionVars, posts, crowded, history>>

(* shutdown waits until activeJobs is 0, but no longer than
   SHUTDOWN_TIMEOUT_MS, and exits; a scan that has been accepted and is not
   counted yet is not waited for.  Another instance takes the place of w.  An
   instance that is killed exits at once. *)
Exit(w) ==
    /\ shuttingDown[w]
    /\ LET ended == {e \in Executions : on[e] = w}
       IN  /\ at' = [e \in Executions |-> IF e \in ended THEN "idle" ELSE at[e]]
           /\ job' = [e \in Executions |-> IF e \in ended THEN NoJob ELSE job[e]]
           /\ on' = [e \in Executions |-> IF e \in ended THEN NoWorker ELSE on[e]]
           /\ Note("cutShort", {job[e] : e \in {f \in ended : at[f] \in Counted}})
    /\ shuttingDown' = [shuttingDown EXCEPT ![w] = FALSE]
    /\ UNCHANGED <<baseVars, posts, reported, faults, crowded>>

-----------------------------------------------------------------------------
Execute(e) ==
    \/ FindJob(e) \/ Skip(e) \/ MarkProcessing(e)
    \/ ScanSucceeds(e) \/ ScanFails(e) \/ SaveReport(e) \/ SaveRejected(e)
    \/ MarkCompleted(e) \/ MarkFailed(e)

Deliver(j) == \E w \in Workers, e \in Executions : Accept(w, e, j)

WorkerNext ==
    \/ \E j \in Jobs : Deliver(j) \/ Lose(j) \/ \E w \in Workers : TurnAway(w, j)
    \/ \E e \in Executions : Execute(e) \/ CallFails(e)
    \/ \E w \in Workers : ShutDown(w) \/ Exit(w)

=============================================================================
