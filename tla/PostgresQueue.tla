--------------------------- MODULE PostgresQueue ---------------------------
(***************************************************************************)
(* PostgresQueueService: the worker that polls the ScanJob table inside    *)
(* the API process.  The interval timer, startWorker and the setImmediate  *)
(* after each addJob and retryJob all call processNextJob without awaiting *)
(* it, so several invocations of it may be in flight.  Polls is the set of *)
(* invocation slots; an idle slot is an invocation not yet made.           *)
(*                                                                         *)
(* Each invocation is split at its awaits.  A database call that fails,    *)
(* that fails after its write was applied, and the death of the process    *)
(* are steps of their own, MaxFaults of them in a behaviour.               *)
(***************************************************************************)
EXTENDS BaseQueue

CONSTANTS
    Polls,        \* invocations of processNextJob that may be in flight at once
    AuditOf,      \* AuditOf[j]: auditRequestId of row j
    NoAudit,      \* the auditRequestId of a row created without one
    MaxAttempts,  \* column maxAttempts
    MaxFaults     \* BOUND on failed database calls and deaths of the process

ASSUME WorkerAssumption ==
    /\ MaxAttempts \in Nat \ {0}
    /\ MaxFaults \in Nat
    /\ DOMAIN AuditOf = Jobs

VARIABLES
    pc,            \* pc[p]: where invocation p of processNextJob is
    taken,         \* taken[p]: the row it found and is executing
    tries,         \* tries[p]: its local `attempts`, computed from the row as found
    isProcessing,  \* the service's isProcessing flag
    reported,      \* AuditRequests that own an AuditReport (auditRequestId is unique)
    faults,        \* faults so far
    history        \* the races so far: a history variable no action reads

workerVars == <<pc, taken, tries, isProcessing>>
vars == <<baseVars, workerVars, reported, faults, history>>

MAX_CONCURRENT_SCANS == 1

(* Where an invocation can be: between its isProcessing test and its pick, or
   executing the row it picked. *)
Window == {"count", "find"}
Executing == {"mark", "scan", "save", "complete", "caught"}

(***************************************************************************)
(* The races a behaviour can contain, each named by the overlap that       *)
(* causes it and not by what it does to the rows.                          *)
(***************************************************************************)
Races == {
    "pollOverlap",   \* two invocations inside Window at once
    "cancelRace",    \* a cancel request and an invocation hold the same row at once
    "doubleReplay",  \* two retry requests hold the same row at once
    "lostAck"}       \* the COMPLETED write is applied but reported as failed

NoteIf(race, happened) == history' = IF happened THEN history \cup {race} ELSE history

TypeOK ==
    /\ BaseTypeOK
    /\ pc \in [Polls -> {"idle"} \cup Window \cup Executing]
    /\ taken \in [Polls -> Jobs \cup {NoJob}]
    /\ \A p \in Polls : pc[p] \in Executing => taken[p] \in Jobs
    /\ tries \in [Polls -> Nat]
    /\ isProcessing \in BOOLEAN
    /\ reported \in SUBSET {AuditOf[j] : j \in Jobs}
    /\ faults \in Nat
    /\ history \in SUBSET Races

Init ==
    /\ BaseInit
    /\ pc = [p \in Polls |-> "idle"]
    /\ taken = [p \in Polls |-> NoJob]
    /\ tries = [p \in Polls |-> 0]
    /\ isProcessing = FALSE
    /\ reported = {}
    /\ faults = 0
    /\ history = {}

-----------------------------------------------------------------------------
(***************************************************************************)
(* The requests.  enqueueOnTransport and retryOnTransport only call        *)
(* processNextJob, which Poll may do at any time; there is nothing to      *)
(* remove in cancelOnTransport.                                            *)
(***************************************************************************)
AddJobCheck(s, j) ==
    /\ CheckRateLimit(s, j)
    /\ UNCHANGED <<workerVars, reported, faults, history>>

AddJobCreate(s) ==
    /\ CreateJob(s)
    /\ UNCHANGED <<workerVars, reported, faults, history>>

CancelRead(r, j) ==
    /\ ReadForCancel(r, j)
    /\ NoteIf("cancelRace", \E p \in Polls : taken[p] = j)
    /\ UNCHANGED <<workerVars, reported, faults>>

CancelWrite(r) ==
    /\ WriteCancelled(r)
    /\ UNCHANGED <<workerVars, reported, faults, history>>

RetryRead(r, j) ==
    /\ ReadForRetry(r, j)
    /\ NoteIf("doubleReplay",
              \E q \in Requests : reqOp[q] = "retry" /\ reqJob[q] = j)
    /\ UNCHANGED <<workerVars, reported, faults>>

RetryWrite(r) ==
    /\ WriteRequeued(r)
    /\ UNCHANGED <<workerVars, reported, faults, history>>

Backoff(j) ==
    /\ BackoffElapses(j)
    /\ UNCHANGED <<workerVars, reported, faults, history>>

-----------------------------------------------------------------------------
(***************************************************************************)
(* processNextJob                                                          *)
(***************************************************************************)
Poll(p) ==
    /\ pc[p] = "idle"
    /\ ~isProcessing
    /\ pc' = [pc EXCEPT ![p] = "count"]
    /\ NoteIf("pollOverlap", \E q \in Polls \ {p} : pc[q] \in Window)
    /\ UNCHANGED <<baseVars, taken, tries, isProcessing, reported, faults>>

ProcessingJobs == {j \in Jobs : status[j] = "PROCESSING"}

CountProcessing(p) ==
    /\ pc[p] = "count"
    /\ pc' = [pc EXCEPT ![p] =
                IF Cardinality(ProcessingJobs) >= MAX_CONCURRENT_SCANS
                THEN "idle" ELSE "find"]
    /\ UNCHANGED <<baseVars, taken, tries, isProcessing, reported, faults, history>>

(* Faulty variant: a row that has waited out a backoff is not eligible. *)
EligibleFreshOnly == {j \in Jobs : status[j] = "QUEUED" /\ nextRetryAt[j] = "null"}

Eligible == {j \in Jobs : status[j] = "QUEUED" /\ nextRetryAt[j] \in {"null", "past"}}

(* orderBy priority desc, queuedAt asc: rows that tie come in any order *)
OrderedBefore(i, j) ==
    IF PriorityOf[i] = PriorityOf[j]
    THEN queuedAt[i] < queuedAt[j]
    ELSE PriorityOf[i] > PriorityOf[j]

(* Faulty variant: the oldest row first, whatever its priority. *)
NextJobsByAge == {j \in Eligible : \A i \in Eligible : queuedAt[i] >= queuedAt[j]}

NextJobs == {j \in Eligible : \A i \in Eligible : ~OrderedBefore(i, j)}

FindNothing(p) ==
    /\ pc[p] = "find"
    /\ Eligible = {}
    /\ pc' = [pc EXCEPT ![p] = "idle"]
    /\ UNCHANGED <<baseVars, taken, tries, isProcessing, reported, faults, history>>

(* Faulty variant: the row found is not kept. *)
FindNextForgetsJob(p) ==
    /\ pc[p] = "find"
    /\ NextJobs # {}
    /\ pc' = [pc EXCEPT ![p] = "mark"]
    /\ isProcessing' = TRUE
    /\ UNCHANGED <<baseVars, taken, tries, reported, faults, history>>

(* Faulty variant: isProcessing is not set. *)
FindNextLeavesFlag(p) ==
    /\ pc[p] = "find"
    /\ \E j \in NextJobs :
        /\ taken' = [taken EXCEPT ![p] = j]
        /\ tries' = [tries EXCEPT ![p] = attempts[j] + 1]
    /\ pc' = [pc EXCEPT ![p] = "mark"]
    /\ UNCHANGED <<baseVars, isProcessing, reported, faults, history>>

FindNext(p) ==
    /\ pc[p] = "find"
    /\ \E j \in NextJobs :
        /\ taken' = [taken EXCEPT ![p] = j]
        /\ tries' = [tries EXCEPT ![p] = attempts[j] + 1]
        /\ NoteIf("cancelRace",
                  \E r \in Requests : reqOp[r] = "cancel" /\ reqJob[r] = j)
    /\ pc' = [pc EXCEPT ![p] = "mark"]
    /\ isProcessing' = TRUE
    /\ UNCHANGED <<baseVars, reported, faults>>

-----------------------------------------------------------------------------
(***************************************************************************)
(* executeJob.  Every write is an update by id of the row taken, with no   *)
(* condition on its status.                                                *)
(***************************************************************************)
Advance(p, to) ==
    /\ pc' = [pc EXCEPT ![p] = to]
    /\ UNCHANGED <<taken, tries, isProcessing>>

(* executeJob has returned or thrown: the finally block of processNextJob *)
Finish(p) ==
    /\ pc' = [pc EXCEPT ![p] = "idle"]
    /\ taken' = [taken EXCEPT ![p] = NoJob]
    /\ tries' = [tries EXCEPT ![p] = 0]
    /\ isProcessing' = FALSE

WriteProcessing(p) ==
    /\ status' = [status EXCEPT ![taken[p]] = "PROCESSING"]
    /\ attempts' = [attempts EXCEPT ![taken[p]] = tries[p]]
    /\ nextRetryAt' = [nextRetryAt EXCEPT ![taken[p]] = "null"]
    /\ UNCHANGED <<queuedAt, lastQueuedAt>>

(* Faulty variant: the status is left out of the update. *)
WriteOutcomeKeepsStatus(p, st, retryAt) ==
    /\ nextRetryAt' = [nextRetryAt EXCEPT ![taken[p]] = retryAt]
    /\ UNCHANGED <<status, attempts, queuedAt, lastQueuedAt>>

WriteOutcome(p, st, retryAt) ==
    /\ status' = [status EXCEPT ![taken[p]] = st]
    /\ nextRetryAt' = [nextRetryAt EXCEPT ![taken[p]] = retryAt]
    /\ UNCHANGED <<attempts, queuedAt, lastQueuedAt>>

MarkProcessing(p) ==
    /\ pc[p] = "mark"
    /\ WriteProcessing(p)
    /\ Advance(p, "scan")
    /\ UNCHANGED <<requestVars, reported, faults, history>>

(* scanWebsite returns, throws or is timed out by its own race *)
ScanSucceeds(p) ==
    /\ pc[p] = "scan"
    /\ Advance(p, "save")
    /\ UNCHANGED <<baseVars, reported, faults, history>>

ScanFails(p) ==
    /\ pc[p] = "scan"
    /\ Advance(p, "caught")
    /\ UNCHANGED <<baseVars, reported, faults, history>>

(* Faulty variant: auditRequestId is not unique. *)
AuditNeverReported(p) == FALSE

AuditReported(p) ==
    /\ AuditOf[taken[p]] # NoAudit
    /\ AuditOf[taken[p]] \in reported

SaveReport(p) ==
    /\ pc[p] = "save"
    /\ ~AuditReported(p)
    /\ reported' = reported \cup ({AuditOf[taken[p]]} \ {NoAudit})
    /\ Advance(p, "complete")
    /\ UNCHANGED <<baseVars, faults, history>>

(* the unique constraint on AuditReport.auditRequestId *)
SaveRejected(p) ==
    /\ pc[p] = "save"
    /\ AuditReported(p)
    /\ Advance(p, "caught")
    /\ UNCHANGED <<baseVars, reported, faults, history>>

MarkCompleted(p) ==
    /\ pc[p] = "complete"
    /\ status' = [status EXCEPT ![taken[p]] = "COMPLETED"]
    /\ Finish(p)
    /\ UNCHANGED <<attempts, nextRetryAt, queuedAt, lastQueuedAt, requestVars,
                   reported, faults, history>>

(* Faulty variant: <= for < in the comparison with maxAttempts. *)
RequeueOnceMore(p) ==
    /\ pc[p] = "caught"
    /\ tries[p] <= MaxAttempts
    /\ WriteOutcome(p, "QUEUED", "future")
    /\ Finish(p)
    /\ UNCHANGED <<requestVars, reported, faults, history>>

RequeueWithBackoff(p) ==
    /\ pc[p] = "caught"
    /\ tries[p] < MaxAttempts
    /\ WriteOutcome(p, "QUEUED", "future")
    /\ Finish(p)
    /\ UNCHANGED <<requestVars, reported, faults, history>>

MarkFailed(p) ==
    /\ pc[p] = "caught"
    /\ tries[p] >= MaxAttempts
    /\ WriteOutcome(p, "FAILED", "null")
    /\ Finish(p)
    /\ UNCHANGED <<requestVars, reported, faults, history>>

-----------------------------------------------------------------------------
(***************************************************************************)
(* Faults.  A write reported as failed may or may not have been applied.   *)
(***************************************************************************)
Fault ==
    /\ faults < MaxFaults
    /\ faults' = faults + 1

(* outside the try of executeJob: the invocation ends *)
MarkProcessingFails(p) ==
    /\ pc[p] = "mark"
    /\ Fault
    /\ \/ WriteProcessing(p)
       \/ UNCHANGED rowVars
    /\ Finish(p)
    /\ UNCHANGED <<requestVars, reported, history>>

SaveReportFails(p) ==
    /\ pc[p] = "save"
    /\ ~AuditReported(p)
    /\ Fault
    /\ \/ reported' = reported \cup ({AuditOf[taken[p]]} \ {NoAudit})
       \/ UNCHANGED reported
    /\ Advance(p, "caught")
    /\ UNCHANGED <<baseVars, history>>

MarkCompletedFails(p) ==
    /\ pc[p] = "complete"
    /\ Fault
    /\ \E applied \in BOOLEAN :
        /\ status' = IF applied THEN [status EXCEPT ![taken[p]] = "COMPLETED"] ELSE status
        /\ NoteIf("lostAck", applied)
    /\ Advance(p, "caught")
    /\ UNCHANGED <<attempts, nextRetryAt, queuedAt, lastQueuedAt, requestVars, reported>>

(* in the catch block of executeJob: nothing else writes the row *)
OutcomeWriteFails(p) ==
    /\ pc[p] = "caught"
    /\ Fault
    /\ Finish(p)
    /\ UNCHANGED <<baseVars, reported, history>>

(* The process dies (killed, redeployed, or by the rejection nobody handles
   when a read of processNextJob fails) and is started again.  startWorker
   repairs no row. *)
Crash ==
    /\ Fault
    /\ pc' = [p \in Polls |-> "idle"]
    /\ taken' = [p \in Polls |-> NoJob]
    /\ tries' = [p \in Polls |-> 0]
    /\ isProcessing' = FALSE
    /\ DropRequests
    /\ UNCHANGED <<rowVars, reported, history>>

-----------------------------------------------------------------------------
Request ==
    \/ \E s \in Submitters, j \in Jobs : AddJobCheck(s, j)
    \/ \E s \in Submitters : AddJobCreate(s)
    \/ \E r \in Requests, j \in Jobs : CancelRead(r, j) \/ RetryRead(r, j)
    \/ \E r \in Requests : CancelWrite(r) \/ RetryWrite(r)

Continue(p) ==
    \/ CountProcessing(p) \/ FindNothing(p) \/ FindNext(p)
    \/ MarkProcessing(p) \/ ScanSucceeds(p) \/ ScanFails(p)
    \/ SaveReport(p) \/ SaveRejected(p)
    \/ MarkCompleted(p) \/ RequeueWithBackoff(p) \/ MarkFailed(p)

Failure ==
    \/ \E p \in Polls : \/ MarkProcessingFails(p) \/ SaveReportFails(p)
                        \/ MarkCompletedFails(p) \/ OutcomeWriteFails(p)
    \/ Crash

Next ==
    \/ Request
    \/ \E p \in Polls : Poll(p) \/ Continue(p)
    \/ \E j \in Jobs : Backoff(j)
    \/ Failure

Spec == Init /\ [][Next]_vars

(***************************************************************************)
(* The interval timer keeps calling processNextJob, a database call and a  *)
(* scan (it races a timeout) return, and time passes.  Nothing obliges a   *)
(* client to send a request, nor a fault to happen.                        *)
(***************************************************************************)
Fairness ==
    /\ \A p \in Polls : WF_vars(Poll(p)) /\ WF_vars(Continue(p))
    /\ \A j \in Jobs : WF_vars(Backoff(j))

FairSpec == Spec /\ Fairness

(* The behaviours in which none of the races has happened; failed writes and
   crashes are not excluded. *)
Undisturbed == history = {}

UndisturbedSpec == Init /\ [][Next /\ Undisturbed']_vars

-----------------------------------------------------------------------------
(***************************************************************************)
(* Inductive invariants                                                    *)
(***************************************************************************)
Scanning == Executing \ {"mark"}

(* What makes OneAtATime inductive.  From its test to its pick an invocation
   has the window to itself; a pick is followed by a raised flag, and a poll
   that gets past the count has seen no PROCESSING row, so that the row it
   marks is the only one. *)
ExclusionInv ==
    /\ \A p, q \in Polls : pc[p] # "idle" /\ pc[q] # "idle" => p = q
    /\ \A p \in Polls : pc[p] \in Executing => isProcessing
    /\ \A i, j \in ProcessingJobs : i = j
    /\ \A p \in Polls : pc[p] \in {"find", "mark"} => ProcessingJobs = {}
    /\ \A p \in Polls : pc[p] \in Scanning => ProcessingJobs \subseteq {taken[p]}

(* What an undisturbed queue adds to it: whoever is about to write a row
   finds in it what it read. *)
FreshReadsInv ==
    /\ \A p \in Polls : taken[p] # NoJob => pc[p] \in Executing
    /\ \A p \in Polls : pc[p] \in Executing => tries[p] <= MaxAttempts
    /\ \A p \in Polls : pc[p] = "mark" =>
          status[taken[p]] = "QUEUED" /\ tries[p] = attempts[taken[p]] + 1
    /\ \A p \in Polls : pc[p] \in Scanning =>
          status[taken[p]] = "PROCESSING" /\ tries[p] = attempts[taken[p]]
    /\ \A s \in Submitters : adding[s] # NoJob => status[adding[s]] = "ABSENT"
    /\ \A s, t \in Submitters : adding[s] # NoJob /\ adding[s] = adding[t] => s = t
    /\ \A r \in Requests : reqOp[r] = "cancel" =>
          /\ status[reqJob[r]] \in {"QUEUED", "CANCELLED"}
          /\ \A p \in Polls : taken[p] # reqJob[r]
    /\ \A r \in Requests : reqOp[r] = "retry" => status[reqJob[r]] = "FAILED"
    /\ \A r, q \in Requests :
          reqOp[r] = "retry" /\ reqOp[q] = "retry" /\ reqJob[r] = reqJob[q] => r = q
    /\ \A j \in Jobs : status[j] = "QUEUED" => attempts[j] < MaxAttempts
    /\ \A j \in Jobs : status[j] = "ABSENT" => attempts[j] = 0

UndisturbedInv == TypeOK /\ ExclusionInv /\ FreshReadsInv

-----------------------------------------------------------------------------
(***************************************************************************)
(* Properties                                                              *)
(***************************************************************************)

(* A row says PROCESSING only while an invocation is executing it: whatever
   requests and overlapping invocations do to the rows, only a failed
   database call or the death of the process leaves a scan nobody runs. *)
ProcessingIsOwned ==
    faults = 0 =>
        \A j \in Jobs : status[j] = "PROCESSING" =>
            \E p \in Polls : taken[p] = j /\ pc[p] \in Scanning

(* isProcessing never outlives the executions it stands for; a flag left
   TRUE would stop the worker until the next restart. *)
FlagIsHeld == isProcessing => \E p \in Polls : pc[p] \in Executing

(* The isProcessing test, the count and the pick make the worker execute one
   row at a time, unless two invocations of processNextJob are ever between
   their test and their pick at once. *)
OneAtATime ==
    "pollOverlap" \notin history =>
        /\ \A p, q \in Polls : pc[p] # "idle" /\ pc[q] # "idle" => p = q
        /\ \A i, j \in ProcessingJobs : i = j

(* The unique constraint on AuditReport.auditRequestId: of the jobs that
   carry one auditRequestId, races and failed writes notwithstanding, at
   most one ever completes. *)
OneCompletedJobPerAudit ==
    \A i, j \in Jobs :
        /\ status[i] = "COMPLETED" /\ status[j] = "COMPLETED"
        /\ AuditOf[i] = AuditOf[j] /\ AuditOf[i] # NoAudit
        => i = j

(* The position a client is shown agrees with the order of dispatch: a row at
   position 1 whose backoff is over is one the next poll may pick. *)
FirstInLineIsNext ==
    \A j \in Eligible : QueuePosition(j) = 1 => j \in NextJobs

(* With K submitters in flight the check-then-create of addJob overshoots the
   per-client limit by K - 1 at most, and every retry request, which is not
   checked at all, adds one.  For behaviours without races. *)
Submitting(c) == {s \in Submitters : adding[s] # NoJob /\ ClientOf[adding[s]] = c}

ClientLimitOvershoot ==
    \A c \in {ClientOf[j] : j \in Jobs} \ {NoClient} :
        Cardinality(ActiveJobsOf(c)) + Cardinality(Submitting(c))
            <= MaxConcurrentPerClient - 1 + Cardinality(Submitters) + replays

(* Without races the queue implements the life of a row: one PROCESSING row
   at a time, no more than MaxAttempts executions before FAILED, FAILED only
   after all of them, and COMPLETED and CANCELLED final. *)
Lifecycle == INSTANCE ScanJobLifecycle WITH
    status <- status, attempts <- attempts, Jobs <- Jobs, MaxAttempts <- MaxAttempts

ImplementsLifecycle == Lifecycle!LifecycleSpec

(* Every accepted job settles, as long as no database call fails and the
   process lives: races may run it too often, but they lose nothing. *)
Settles ==
    \A j \in Jobs :
        status[j] \in Active ~> status[j] \in {"COMPLETED", "FAILED", "CANCELLED"}

=============================================================================
