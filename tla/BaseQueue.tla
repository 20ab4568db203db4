----------------------------- MODULE BaseQueue -----------------------------
(***************************************************************************)
(* BaseQueueService: the ScanJob table and the operations every queue      *)
(* backend inherits (addJob, cancelJob, retryJob, getQueuePosition).  Each *)
(* operation of an HTTP request is an async function; every `await` of a   *)
(* database call is a point where other requests and the worker may run,   *)
(* so a read and the write that depends on it are two actions, and the     *)
(* request carries what it read from one to the other.                     *)
(*                                                                         *)
(* The actions speak of the variables of this module alone; a backend      *)
(* EXTENDS it and conjoins what they leave unchanged in the worker.        *)
(***************************************************************************)
EXTENDS Integers, FiniteSets

CONSTANTS
    Jobs,                    \* ids of the ScanJob rows that may be created
    NoJob,                   \* no id
    Submitters,              \* POST /scanner/queue requests that may be in flight at once
    Requests,                \* cancel and retry requests that may be in flight at once
    NoClient,                \* a request whose clientIp is undefined
    ClientOf,                \* ClientOf[j]: clientIp of the request that creates row j
    PriorityOf,              \* PriorityOf[j]: priority of the request that creates row j
    MaxConcurrentPerClient,  \* MAX_CONCURRENT_PER_CLIENT_IP
    MaxReplays               \* BOUND on the retry requests accepted over a behaviour

ASSUME JobsAssumption == IsFiniteSet(Jobs) /\ NoJob \notin Jobs
ASSUME ClientAssumption ==
    /\ IsFiniteSet(Submitters)
    /\ MaxConcurrentPerClient \in Nat \ {0}
    /\ MaxReplays \in Nat
    /\ DOMAIN ClientOf = Jobs
    /\ PriorityOf \in [Jobs -> Int]

VARIABLES
    status,       \* column status, or "ABSENT" before the row is created
    attempts,     \* column attempts
    nextRetryAt,  \* column nextRetryAt: "null", "future" or "past" (relative to now)
    queuedAt,     \* column queuedAt, 0 before the row is created
    lastQueuedAt, \* the newest queuedAt so far
    adding,       \* adding[s]: the row addJob is about to create, its limit check passed
    reqOp,        \* reqOp[r]: "none", or the write r is about to make: "cancel", "retry"
    reqJob,       \* reqJob[r]: the row that write is for
    replays       \* retry requests accepted so far

rowVars == <<status, attempts, nextRetryAt, queuedAt, lastQueuedAt>>
requestVars == <<adding, reqOp, reqJob, replays>>
baseVars == <<rowVars, requestVars>>

Statuses == {"ABSENT", "QUEUED", "PROCESSING", "COMPLETED", "FAILED", "CANCELLED"}
Active == {"QUEUED", "PROCESSING"}

BaseTypeOK ==
    /\ status \in [Jobs -> Statuses]
    /\ attempts \in [Jobs -> Nat]
    /\ nextRetryAt \in [Jobs -> {"null", "future", "past"}]
    /\ queuedAt \in [Jobs -> Nat]
    /\ lastQueuedAt \in Nat
    /\ adding \in [Submitters -> Jobs \cup {NoJob}]
    /\ reqOp \in [Requests -> {"none", "cancel", "retry"}]
    /\ reqJob \in [Requests -> Jobs \cup {NoJob}]
    /\ \A r \in Requests : reqOp[r] # "none" => reqJob[r] \in Jobs
    /\ replays \in Nat

BaseInit ==
    /\ status = [j \in Jobs |-> "ABSENT"]
    /\ attempts = [j \in Jobs |-> 0]
    /\ nextRetryAt = [j \in Jobs |-> "null"]
    /\ queuedAt = [j \in Jobs |-> 0]
    /\ lastQueuedAt = 0
    /\ adding = [s \in Submitters |-> NoJob]
    /\ reqOp = [r \in Requests |-> "none"]
    /\ reqJob = [r \in Requests |-> NoJob]
    /\ replays = 0

-----------------------------------------------------------------------------
(***************************************************************************)
(* addJob                                                                  *)
(***************************************************************************)
ActiveJobsOf(c) == {j \in Jobs : ClientOf[j] = c /\ status[j] \in Active}

(* Faulty variant: <= for <. *)
WithinClientRateLimitInclusive(c) ==
    \/ c = NoClient
    \/ Cardinality(ActiveJobsOf(c)) <= MaxConcurrentPerClient

WithinClientRateLimit(c) ==
    \/ c = NoClient
    \/ Cardinality(ActiveJobsOf(c)) < MaxConcurrentPerClient

(* assertWithinClientRateLimit: the request that will create row j passes the check; one that does not
   pass ends with an error and changes nothing. *)
CheckRateLimit(s, j) ==
    /\ adding[s] = NoJob
    /\ status[j] = "ABSENT"
    /\ \A t \in Submitters : adding[t] # j
    /\ WithinClientRateLimit(ClientOf[j])
    /\ adding' = [adding EXCEPT ![s] = j]
    /\ UNCHANGED <<rowVars, reqOp, reqJob, replays>>

(* queuedAt has millisecond resolution: rows created by concurrent requests
   may share it. *)
CreateJob(s) ==
    /\ adding[s] # NoJob
    /\ status' = [status EXCEPT ![adding[s]] = "QUEUED"]
    /\ \E now \in {lastQueuedAt, lastQueuedAt + 1} :
        /\ queuedAt' = [queuedAt EXCEPT ![adding[s]] = now]
        /\ lastQueuedAt' = now
    /\ adding' = [adding EXCEPT ![s] = NoJob]
    /\ UNCHANGED <<attempts, nextRetryAt, reqOp, reqJob, replays>>

-----------------------------------------------------------------------------
(***************************************************************************)
(* cancelJob and retryJob: each reads the row, tests its status, and later *)
(* writes it by id, whatever the row holds by then.                        *)
(***************************************************************************)
ReadForCancel(r, j) ==
    /\ reqOp[r] = "none"
    /\ status[j] = "QUEUED"
    /\ reqOp' = [reqOp EXCEPT ![r] = "cancel"]
    /\ reqJob' = [reqJob EXCEPT ![r] = j]
    /\ UNCHANGED <<rowVars, adding, replays>>

WriteCancelled(r) ==
    /\ reqOp[r] = "cancel"
    /\ status' = [status EXCEPT ![reqJob[r]] = "CANCELLED"]
    /\ reqOp' = [reqOp EXCEPT ![r] = "none"]
    /\ reqJob' = [reqJob EXCEPT ![r] = NoJob]
    /\ UNCHANGED <<attempts, nextRetryAt, queuedAt, lastQueuedAt, adding, replays>>

ReadForRetry(r, j) ==
    /\ replays < MaxReplays
    /\ reqOp[r] = "none"
    /\ status[j] = "FAILED"
    /\ reqOp' = [reqOp EXCEPT ![r] = "retry"]
    /\ reqJob' = [reqJob EXCEPT ![r] = j]
    /\ replays' = replays + 1
    /\ UNCHANGED <<rowVars, adding>>

WriteRequeued(r) ==
    /\ reqOp[r] = "retry"
    /\ status' = [status EXCEPT ![reqJob[r]] = "QUEUED"]
    /\ attempts' = [attempts EXCEPT ![reqJob[r]] = 0]
    /\ nextRetryAt' = [nextRetryAt EXCEPT ![reqJob[r]] = "null"]
    /\ reqOp' = [reqOp EXCEPT ![r] = "none"]
    /\ reqJob' = [reqJob EXCEPT ![r] = NoJob]
    /\ UNCHANGED <<queuedAt, lastQueuedAt, adding, replays>>

(* The process ends: the requests in flight die with it, the rows stay. *)
DropRequests ==
    /\ adding' = [s \in Submitters |-> NoJob]
    /\ reqOp' = [r \in Requests |-> "none"]
    /\ reqJob' = [r \in Requests |-> NoJob]
    /\ UNCHANGED replays

(* The clock passes nextRetryAt. *)
BackoffElapses(j) ==
    /\ nextRetryAt[j] = "future"
    /\ nextRetryAt' = [nextRetryAt EXCEPT ![j] = "past"]
    /\ UNCHANGED <<status, attempts, queuedAt, lastQueuedAt, requestVars>>

-----------------------------------------------------------------------------
(***************************************************************************)
(* getQueuePosition: 1 + the number of QUEUED rows of higher priority, or  *)
(* of equal priority and an earlier queuedAt.  The row and the count are   *)
(* two reads in the code and one here: nothing is decided by the answer.   *)
(***************************************************************************)
Ahead(i, j) ==
    \/ PriorityOf[i] > PriorityOf[j]
    \/ PriorityOf[i] = PriorityOf[j] /\ queuedAt[i] < queuedAt[j]

QueuePosition(j) ==
    IF status[j] # "QUEUED"
    THEN 0
    ELSE 1 + Cardinality({i \in Jobs : status[i] = "QUEUED" /\ Ahead(i, j)})

=============================================================================
