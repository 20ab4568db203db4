------------------------ MODULE PostgresQueueProofs ------------------------
(***************************************************************************)
(* Theorems about PostgresQueue, for every set of jobs, invocations and    *)
(* requests, every priority, client and audit, and every bound.            *)
(***************************************************************************)
EXTENDS PostgresQueue, FiniteSetTheorems, TLAPS

(***************************************************************************)
(* A step is a request, a step of one invocation, the passing of a backoff *)
(* or a failure.  The lemmas below treat them one definition at a time.    *)
(***************************************************************************)
LEMMA InitTypeOK == Init => TypeOK
  <1> SUFFICES ASSUME Init
               PROVE  TypeOK
    OBVIOUS
  <1>1. BaseTypeOK
    BY DEF Init, BaseInit, BaseTypeOK, Statuses
  <1>2. /\ pc \in [Polls -> {"idle"} \cup Window \cup Executing]
        /\ \A p \in Polls : pc[p] \notin Executing
    BY DEF Init, Window, Executing
  <1>3. /\ taken \in [Polls -> Jobs \cup {NoJob}]
        /\ tries \in [Polls -> Nat]
        /\ isProcessing \in BOOLEAN
    BY DEF Init
  <1>4. /\ reported \in SUBSET {AuditOf[j] : j \in Jobs}
        /\ faults \in Nat
        /\ history \in SUBSET Races
    BY DEF Init
  <1>5. QED
    BY <1>1, <1>2, <1>3, <1>4 DEF TypeOK

(* Requests keep the types. *)
LEMMA RequestTypeOK == TypeOK /\ Request => TypeOK'
  <1> SUFFICES ASSUME TypeOK, Request
               PROVE  TypeOK'
    OBVIOUS
  <1> USE DEF TypeOK, BaseTypeOK, Statuses, workerVars, rowVars, NoteIf, Races
  <1>1. ASSUME NEW s \in Submitters, NEW j \in Jobs, AddJobCheck(s, j)
        PROVE  TypeOK'
    BY <1>1 DEF AddJobCheck, CheckRateLimit
  <1>2. ASSUME NEW s \in Submitters, AddJobCreate(s)
        PROVE  TypeOK'
    BY <1>2 DEF AddJobCreate, CreateJob
  <1>3. ASSUME NEW r \in Requests, NEW j \in Jobs, CancelRead(r, j)
        PROVE  TypeOK'
    BY <1>3 DEF CancelRead, ReadForCancel
  <1>4. ASSUME NEW r \in Requests, NEW j \in Jobs, RetryRead(r, j)
        PROVE  TypeOK'
    BY <1>4 DEF RetryRead, ReadForRetry
  <1>5. ASSUME NEW r \in Requests, CancelWrite(r)
        PROVE  TypeOK'
    BY <1>5 DEF CancelWrite, WriteCancelled
  <1>6. ASSUME NEW r \in Requests, RetryWrite(r)
        PROVE  TypeOK'
    BY <1>6 DEF RetryWrite, WriteRequeued
  <1>7. QED
    BY <1>1, <1>2, <1>3, <1>4, <1>5, <1>6 DEF Request

(* The audit of a job that is executing may be added to reported. *)
LEMMA ReportedType ==
  ASSUME TypeOK, NEW p \in Polls, pc[p] \in Executing
  PROVE  reported \cup ({AuditOf[taken[p]]} \ {NoAudit})
            \in SUBSET {AuditOf[j] : j \in Jobs}
  <1>1. taken[p] \in Jobs
    BY DEF TypeOK
  <1>2. AuditOf[taken[p]] \in {AuditOf[j] : j \in Jobs}
    BY <1>1
  <1>3. QED
    BY <1>2 DEF TypeOK

LEMMA FinishType ==
  ASSUME TypeOK, NEW p \in Polls, Finish(p)
  PROVE  /\ pc' \in [Polls -> {"idle"} \cup Window \cup Executing]
         /\ taken' \in [Polls -> Jobs \cup {NoJob}]
         /\ \A q \in Polls : pc'[q] \in Executing => taken'[q] \in Jobs
         /\ tries' \in [Polls -> Nat]
         /\ isProcessing' \in BOOLEAN
  BY DEF TypeOK, Finish, Window, Executing

(* So do the steps of an invocation, *)
LEMMA PollTypeOK ==
  ASSUME TypeOK, NEW p \in Polls, Poll(p) \/ Continue(p)
  PROVE  TypeOK'
  <1> USE DEF TypeOK, BaseTypeOK, Statuses, Window, Executing, rowVars, requestVars,
              baseVars, NoteIf, Races, Advance, Finish
  <1>1. CASE Poll(p)
    BY <1>1 DEF Poll
  <1>2. CASE CountProcessing(p)
    BY <1>2 DEF CountProcessing
  <1>3. CASE FindNothing(p)
    BY <1>3 DEF FindNothing
  <1>4. CASE FindNext(p)
    BY <1>4 DEF FindNext, NextJobs, Eligible
  <1>5. CASE MarkProcessing(p)
    BY <1>5 DEF MarkProcessing, WriteProcessing
  <1>6. CASE ScanSucceeds(p)
    BY <1>6 DEF ScanSucceeds
  <1>7. CASE ScanFails(p)
    BY <1>7 DEF ScanFails
  <1>8. CASE SaveReport(p)
    <2>1. reported' \in SUBSET {AuditOf[j] : j \in Jobs}
      BY <1>8, ReportedType DEF SaveReport
    <2>2. QED
      BY <1>8, <2>1 DEF SaveReport
  <1>9. CASE SaveRejected(p)
    BY <1>9 DEF SaveRejected
  <1>10. CASE MarkCompleted(p)
    BY <1>10 DEF MarkCompleted
  <1>11. CASE RequeueWithBackoff(p)
    BY <1>11 DEF RequeueWithBackoff, WriteOutcome
  <1>12. CASE MarkFailed(p)
    BY <1>12 DEF MarkFailed, WriteOutcome
  <1>13. QED
    BY <1>1, <1>2, <1>3, <1>4, <1>5, <1>6, <1>7, <1>8, <1>9, <1>10, <1>11, <1>12
    DEF Continue

(* the passing of time, *)
LEMMA BackoffTypeOK ==
  ASSUME TypeOK, NEW j \in Jobs, Backoff(j)
  PROVE  TypeOK'
  BY DEF TypeOK, BaseTypeOK, Backoff, BackoffElapses, workerVars, requestVars

(* and the failures. *)
LEMMA FailureTypeOK == TypeOK /\ Failure => TypeOK'
  <1> SUFFICES ASSUME TypeOK, Failure
               PROVE  TypeOK'
    OBVIOUS
  <1> USE DEF TypeOK, BaseTypeOK, Statuses, Window, Executing, rowVars, requestVars,
              baseVars, NoteIf, Races, Advance
  <1>0. Fault => faults' \in Nat
    BY DEF Fault
  <1>1. ASSUME NEW p \in Polls, MarkProcessingFails(p)
        PROVE  TypeOK'
    <2>1. BaseTypeOK'
      <3>1. CASE WriteProcessing(p)
        BY <1>1, <3>1 DEF MarkProcessingFails, WriteProcessing
      <3>2. CASE UNCHANGED rowVars
        BY <1>1, <3>2 DEF MarkProcessingFails
      <3>3. QED
        BY <1>1, <3>1, <3>2 DEF MarkProcessingFails
    <2>2. QED
      BY <1>0, <1>1, <2>1, FinishType DEF MarkProcessingFails
  <1>2. ASSUME NEW p \in Polls, SaveReportFails(p)
        PROVE  TypeOK'
    <2>1. reported' \in SUBSET {AuditOf[j] : j \in Jobs}
      BY <1>2, ReportedType DEF SaveReportFails
    <2>2. QED
      BY <1>0, <1>2, <2>1 DEF SaveReportFails
  <1>3. ASSUME NEW p \in Polls, MarkCompletedFails(p)
        PROVE  TypeOK'
    BY <1>0, <1>3 DEF MarkCompletedFails
  <1>4. ASSUME NEW p \in Polls, OutcomeWriteFails(p)
        PROVE  TypeOK'
    <2>1. BaseTypeOK'
      BY <1>4 DEF OutcomeWriteFails
    <2>2. QED
      BY <1>0, <1>4, <2>1, FinishType DEF OutcomeWriteFails
  <1>5. CASE Crash
    <2>1. BaseTypeOK'
      BY <1>5 DEF Crash, DropRequests
    <2>2. /\ pc' \in [Polls -> {"idle"} \cup Window \cup Executing]
          /\ taken' \in [Polls -> Jobs \cup {NoJob}]
          /\ \A p \in Polls : pc'[p] \notin Executing
          /\ tries' \in [Polls -> Nat]
          /\ isProcessing' \in BOOLEAN
      BY <1>5 DEF Crash
    <2>3. QED
      BY <1>0, <1>5, <2>1, <2>2 DEF Crash
  <1>6. QED
    BY <1>1, <1>2, <1>3, <1>4, <1>5 DEF Failure

LEMMA StepTypeOK == TypeOK /\ [Next]_vars => TypeOK'
  <1>1. TypeOK /\ UNCHANGED vars => TypeOK'
    BY DEF TypeOK, BaseTypeOK, vars, baseVars, rowVars, requestVars, workerVars
  <1>2. QED
    BY <1>1, RequestTypeOK, PollTypeOK, BackoffTypeOK, FailureTypeOK DEF Next

(* Every variable keeps its type. *)
THEOREM TypeCorrect == Spec => []TypeOK
  BY InitTypeOK, StepTypeOK, PTL DEF Spec

-----------------------------------------------------------------------------
(***************************************************************************)
(* What the steps that are not an invocation's leave alone.                *)
(***************************************************************************)
LEMMA RequestEffect ==
  ASSUME TypeOK, Request
  PROVE  /\ UNCHANGED <<pc, taken, tries, isProcessing, faults>>
         /\ history \subseteq history'
         /\ \A j \in Jobs : status'[j] = "PROCESSING" => status[j] = "PROCESSING"
  <1> USE DEF TypeOK, BaseTypeOK, workerVars, rowVars, NoteIf
  <1>1. ASSUME NEW s \in Submitters, NEW j \in Jobs, AddJobCheck(s, j)
        PROVE  UNCHANGED <<pc, taken, tries, isProcessing, faults, history, status>>
    BY <1>1 DEF AddJobCheck, CheckRateLimit
  <1>2. ASSUME NEW s \in Submitters, AddJobCreate(s)
        PROVE  /\ UNCHANGED <<pc, taken, tries, isProcessing, faults, history>>
               /\ \A j \in Jobs : status'[j] = "PROCESSING" => status[j] = "PROCESSING"
    BY <1>2 DEF AddJobCreate, CreateJob
  <1>3. ASSUME NEW r \in Requests, NEW j \in Jobs, CancelRead(r, j)
        PROVE  /\ UNCHANGED <<pc, taken, tries, isProcessing, faults, status>>
               /\ history \subseteq history'
    BY <1>3 DEF CancelRead, ReadForCancel
  <1>4. ASSUME NEW r \in Requests, NEW j \in Jobs, RetryRead(r, j)
        PROVE  /\ UNCHANGED <<pc, taken, tries, isProcessing, faults, status>>
               /\ history \subseteq history'
    BY <1>4 DEF RetryRead, ReadForRetry
  <1>5. ASSUME NEW r \in Requests, CancelWrite(r)
        PROVE  /\ UNCHANGED <<pc, taken, tries, isProcessing, faults, history>>
               /\ \A j \in Jobs : status'[j] = "PROCESSING" => status[j] = "PROCESSING"
    BY <1>5 DEF CancelWrite, WriteCancelled
  <1>6. ASSUME NEW r \in Requests, RetryWrite(r)
        PROVE  /\ UNCHANGED <<pc, taken, tries, isProcessing, faults, history>>
               /\ \A j \in Jobs : status'[j] = "PROCESSING" => status[j] = "PROCESSING"
    BY <1>6 DEF RetryWrite, WriteRequeued
  <1>7. QED
    BY <1>1, <1>2, <1>3, <1>4, <1>5, <1>6 DEF Request

LEMMA BackoffEffect ==
  ASSUME NEW j \in Jobs, Backoff(j)
  PROVE  UNCHANGED <<pc, taken, tries, isProcessing, faults, history, status, attempts,
                     adding, reqOp, reqJob>>
  BY DEF Backoff, BackoffElapses, workerVars, requestVars

LEMMA StutterEffect ==
  ASSUME UNCHANGED vars
  PROVE  UNCHANGED <<pc, taken, tries, isProcessing, faults, history, status, attempts,
                     adding, reqOp, reqJob>>
  BY DEF vars, workerVars, baseVars, rowVars, requestVars

-----------------------------------------------------------------------------
(***************************************************************************)
(* The isProcessing flag is never left raised.                             *)
(***************************************************************************)
LEMMA PollFlag ==
  ASSUME TypeOK, FlagIsHeld, NEW p \in Polls, Poll(p) \/ Continue(p)
  PROVE  FlagIsHeld'
  <1> USE DEF TypeOK, FlagIsHeld, Window, Executing, Advance, Finish
  <1>1. CASE Poll(p)
    BY <1>1 DEF Poll
  <1>2. CASE CountProcessing(p)
    BY <1>2 DEF CountProcessing
  <1>3. CASE FindNothing(p)
    BY <1>3 DEF FindNothing
  <1>4. CASE FindNext(p)
    BY <1>4 DEF FindNext
  <1>5. CASE MarkProcessing(p)
    BY <1>5 DEF MarkProcessing
  <1>6. CASE ScanSucceeds(p) \/ ScanFails(p)
    BY <1>6 DEF ScanSucceeds, ScanFails
  <1>7. CASE SaveReport(p) \/ SaveRejected(p)
    BY <1>7 DEF SaveReport, SaveRejected
  <1>8. CASE MarkCompleted(p) \/ RequeueWithBackoff(p) \/ MarkFailed(p)
    BY <1>8 DEF MarkCompleted, RequeueWithBackoff, MarkFailed
  <1>9. QED
    BY <1>1, <1>2, <1>3, <1>4, <1>5, <1>6, <1>7, <1>8 DEF Continue

LEMMA FailureFlag == TypeOK /\ FlagIsHeld /\ Failure => FlagIsHeld'
  <1> SUFFICES ASSUME TypeOK, FlagIsHeld, Failure
               PROVE  FlagIsHeld'
    OBVIOUS
  <1> USE DEF TypeOK, FlagIsHeld, Window, Executing, Advance, Finish
  <1>1. ASSUME NEW p \in Polls, MarkProcessingFails(p) \/ OutcomeWriteFails(p)
        PROVE  FlagIsHeld'
    BY <1>1 DEF MarkProcessingFails, OutcomeWriteFails
  <1>2. ASSUME NEW p \in Polls, SaveReportFails(p) \/ MarkCompletedFails(p)
        PROVE  FlagIsHeld'
    BY <1>2 DEF SaveReportFails, MarkCompletedFails
  <1>3. CASE Crash
    BY <1>3 DEF Crash
  <1>4. QED
    BY <1>1, <1>2, <1>3 DEF Failure

(* Whatever the requests, invocations and failures do, isProcessing is TRUE
   only while an invocation executes a row, so that the worker never locks
   itself out. *)
THEOREM FlagIsAlwaysHeld == Spec => []FlagIsHeld
  <1>1. Init => FlagIsHeld
    BY DEF Init, FlagIsHeld
  <1>2. TypeOK /\ FlagIsHeld /\ [Next]_vars => FlagIsHeld'
    <2> SUFFICES ASSUME TypeOK, FlagIsHeld, [Next]_vars
                 PROVE  FlagIsHeld'
      OBVIOUS
    <2>1. CASE Request
      BY <2>1, RequestEffect DEF FlagIsHeld
    <2>2. ASSUME NEW p \in Polls, Poll(p) \/ Continue(p)
          PROVE  FlagIsHeld'
      BY <2>2, PollFlag
    <2>3. ASSUME NEW j \in Jobs, Backoff(j)
          PROVE  FlagIsHeld'
      BY <2>3, BackoffEffect DEF FlagIsHeld
    <2>4. CASE Failure
      BY <2>4, FailureFlag
    <2>5. CASE UNCHANGED vars
      BY <2>5, StutterEffect DEF FlagIsHeld
    <2>6. QED
      BY <2>1, <2>2, <2>3, <2>4, <2>5 DEF Next
  <1>3. QED
    BY <1>1, <1>2, TypeCorrect, PTL DEF Spec

-----------------------------------------------------------------------------
(***************************************************************************)
(* A PROCESSING row has an invocation that executes it.                    *)
(***************************************************************************)
LEMMA PollOwned ==
  ASSUME TypeOK, ProcessingIsOwned, NEW p \in Polls, Poll(p) \/ Continue(p)
  PROVE  ProcessingIsOwned'
  <1> USE DEF TypeOK, BaseTypeOK, ProcessingIsOwned, Window, Executing, Scanning,
              Advance, Finish, baseVars, rowVars
  <1>1. CASE Poll(p)
    BY <1>1 DEF Poll
  <1>2. CASE CountProcessing(p)
    BY <1>2 DEF CountProcessing
  <1>3. CASE FindNothing(p)
    BY <1>3 DEF FindNothing
  <1>4. CASE FindNext(p)
    BY <1>4 DEF FindNext
  <1>5. CASE MarkProcessing(p)
    BY <1>5 DEF MarkProcessing, WriteProcessing
  <1>6. CASE ScanSucceeds(p) \/ ScanFails(p)
    BY <1>6 DEF ScanSucceeds, ScanFails
  <1>7. CASE SaveReport(p) \/ SaveRejected(p)
    BY <1>7 DEF SaveReport, SaveRejected
  <1>8. CASE MarkCompleted(p)
    BY <1>8 DEF MarkCompleted
  <1>9. CASE RequeueWithBackoff(p) \/ MarkFailed(p)
    BY <1>9 DEF RequeueWithBackoff, MarkFailed, WriteOutcome
  <1>10. QED
    BY <1>1, <1>2, <1>3, <1>4, <1>5, <1>6, <1>7, <1>8, <1>9 DEF Continue

LEMMA FailureIsCounted == TypeOK /\ Failure => faults' # 0
  BY DEF TypeOK, Failure, MarkProcessingFails, SaveReportFails, MarkCompletedFails,
         OutcomeWriteFails, Crash, Fault

(* Races can make the queue run a job twice or run a cancelled one, but as
   long as no database call fails and the process lives they cannot strand
   a job in PROCESSING. *)
THEOREM ProcessingIsAlwaysOwned == Spec => []ProcessingIsOwned
  <1>1. Init => ProcessingIsOwned
    BY DEF Init, BaseInit, ProcessingIsOwned
  <1>2. TypeOK /\ ProcessingIsOwned /\ [Next]_vars => ProcessingIsOwned'
    <2> SUFFICES ASSUME TypeOK, ProcessingIsOwned, [Next]_vars
                 PROVE  ProcessingIsOwned'
      OBVIOUS
    <2>1. CASE Request
      BY <2>1, RequestEffect DEF ProcessingIsOwned
    <2>2. ASSUME NEW p \in Polls, Poll(p) \/ Continue(p)
          PROVE  ProcessingIsOwned'
      BY <2>2, PollOwned
    <2>3. ASSUME NEW j \in Jobs, Backoff(j)
          PROVE  ProcessingIsOwned'
      BY <2>3, BackoffEffect DEF ProcessingIsOwned
    <2>4. CASE Failure
      BY <2>4, FailureIsCounted DEF ProcessingIsOwned
    <2>5. CASE UNCHANGED vars
      BY <2>5, StutterEffect DEF ProcessingIsOwned
    <2>6. QED
      BY <2>1, <2>2, <2>3, <2>4, <2>5 DEF Next
  <1>3. QED
    BY <1>1, <1>2, TypeCorrect, PTL DEF Spec

-----------------------------------------------------------------------------
(***************************************************************************)
(* One execution at a time.                                                *)
(***************************************************************************)

(* A poll that gets past the count has seen no PROCESSING row. *)
LEMMA CountSeesNone ==
  ASSUME ~(Cardinality(ProcessingJobs) >= MAX_CONCURRENT_SCANS)
  PROVE  ProcessingJobs = {}
  <1>1. IsFiniteSet(ProcessingJobs)
    BY JobsAssumption, FS_Subset DEF ProcessingJobs
  <1>2. Cardinality(ProcessingJobs) \in Nat
    BY <1>1, FS_CardinalityType
  <1>3. Cardinality(ProcessingJobs) = 0
    BY <1>2 DEF MAX_CONCURRENT_SCANS
  <1>4. QED
    BY <1>1, <1>3, FS_EmptySet

(* The history only grows. *)
LEMMA HistoryGrows ==
  ASSUME TypeOK, [Next]_vars
  PROVE  history \subseteq history'
  <1>1. ASSUME NEW p \in Polls, Poll(p) \/ Continue(p)
        PROVE  history \subseteq history'
    BY <1>1 DEF Continue, Poll, CountProcessing, FindNothing, FindNext, MarkProcessing,
       ScanSucceeds, ScanFails, SaveReport, SaveRejected, MarkCompleted,
       RequeueWithBackoff, MarkFailed, NoteIf
  <1>2. CASE Failure
    BY <1>2 DEF Failure, MarkProcessingFails, SaveReportFails, MarkCompletedFails,
       OutcomeWriteFails, Crash, NoteIf
  <1>3. QED
    BY <1>1, <1>2, RequestEffect, BackoffEffect, StutterEffect DEF Next

(* A step that creates no PROCESSING row and leaves the invocations alone. *)
LEMMA ExclusionFrame ==
  ASSUME ExclusionInv,
         UNCHANGED <<pc, taken, isProcessing>>,
         \A j \in Jobs : status'[j] = "PROCESSING" => status[j] = "PROCESSING"
  PROVE  ExclusionInv'
  <1>1. ProcessingJobs' \subseteq ProcessingJobs
    BY DEF ProcessingJobs
  <1>2. QED
    BY <1>1 DEF ExclusionInv

LEMMA PollExclusion ==
  ASSUME TypeOK, ExclusionInv, NEW p \in Polls, Poll(p) \/ Continue(p),
         "pollOverlap" \notin history'
  PROVE  ExclusionInv'
  <1> USE DEF TypeOK, BaseTypeOK, ExclusionInv, Window, Executing, Scanning, Advance,
              Finish, baseVars, rowVars
  <1>1. CASE Poll(p)
    <2>1. \A q \in Polls \ {p} : pc[q] = "idle"
      BY <1>1 DEF Poll, NoteIf
    <2>2. QED
      BY <1>1, <2>1 DEF Poll, ProcessingJobs
  <1>2. CASE CountProcessing(p)
    <2>1. ProcessingJobs' = ProcessingJobs
      BY <1>2 DEF CountProcessing, ProcessingJobs
    <2>2. pc'[p] = "find" => ProcessingJobs = {}
      BY <1>2, CountSeesNone DEF CountProcessing
    <2>3. QED
      BY <1>2, <2>1, <2>2 DEF CountProcessing
  <1>3. CASE FindNothing(p)
    BY <1>3 DEF FindNothing, ProcessingJobs
  <1>4. CASE FindNext(p)
    BY <1>4 DEF FindNext, ProcessingJobs
  <1>5. CASE MarkProcessing(p)
    <2>1. ProcessingJobs' = {taken[p]}
      BY <1>5 DEF MarkProcessing, WriteProcessing, ProcessingJobs
    <2>2. QED
      BY <1>5, <2>1 DEF MarkProcessing
  <1>6. CASE ScanSucceeds(p) \/ ScanFails(p)
    BY <1>6 DEF ScanSucceeds, ScanFails, ProcessingJobs
  <1>7. CASE SaveReport(p) \/ SaveRejected(p)
    BY <1>7 DEF SaveReport, SaveRejected, ProcessingJobs
  <1>8. CASE MarkCompleted(p) \/ RequeueWithBackoff(p) \/ MarkFailed(p)
    <2>1. \A q \in Polls : pc'[q] = "idle"
      BY <1>8 DEF MarkCompleted, RequeueWithBackoff, MarkFailed
    <2>2. ProcessingJobs' \subseteq ProcessingJobs
      BY <1>8 DEF MarkCompleted, RequeueWithBackoff, MarkFailed, WriteOutcome,
         ProcessingJobs
    <2>3. QED
      BY <2>1, <2>2
  <1>9. QED
    BY <1>1, <1>2, <1>3, <1>4, <1>5, <1>6, <1>7, <1>8 DEF Continue

LEMMA FailureExclusion ==
  ASSUME TypeOK, ExclusionInv, Failure
  PROVE  ExclusionInv'
  <1> USE DEF TypeOK, BaseTypeOK, ExclusionInv, Window, Executing, Scanning, Advance,
              Finish, baseVars, rowVars
  <1>1. ASSUME NEW p \in Polls, MarkProcessingFails(p)
        PROVE  ExclusionInv'
    <2>1. \A q \in Polls : pc'[q] = "idle"
      BY <1>1 DEF MarkProcessingFails
    <2>2. ProcessingJobs' \subseteq {taken[p]}
      BY <1>1 DEF MarkProcessingFails, WriteProcessing, ProcessingJobs
    <2>3. QED
      BY <2>1, <2>2
  <1>2. ASSUME NEW p \in Polls, SaveReportFails(p)
        PROVE  ExclusionInv'
    BY <1>2 DEF SaveReportFails, ProcessingJobs
  <1>3. ASSUME NEW p \in Polls, MarkCompletedFails(p)
        PROVE  ExclusionInv'
    <2>1. ProcessingJobs' \subseteq ProcessingJobs
      BY <1>3 DEF MarkCompletedFails, ProcessingJobs
    <2>2. QED
      BY <1>3, <2>1 DEF MarkCompletedFails
  <1>4. ASSUME NEW p \in Polls, OutcomeWriteFails(p)
        PROVE  ExclusionInv'
    BY <1>4 DEF OutcomeWriteFails, ProcessingJobs
  <1>5. CASE Crash
    BY <1>5 DEF Crash, ProcessingJobs
  <1>6. QED
    BY <1>1, <1>2, <1>3, <1>4, <1>5 DEF Failure

Exclusion == "pollOverlap" \notin history => ExclusionInv

LEMMA StepExclusion == TypeOK /\ Exclusion /\ [Next]_vars => Exclusion'
  <1> SUFFICES ASSUME TypeOK, Exclusion, [Next]_vars, "pollOverlap" \notin history'
               PROVE  ExclusionInv'
    BY DEF Exclusion
  <1>0. ExclusionInv
    BY HistoryGrows DEF Exclusion
  <1>1. CASE Request
    BY <1>0, <1>1, RequestEffect, ExclusionFrame
  <1>2. ASSUME NEW p \in Polls, Poll(p) \/ Continue(p)
        PROVE  ExclusionInv'
    BY <1>0, <1>2, PollExclusion
  <1>3. ASSUME NEW j \in Jobs, Backoff(j)
        PROVE  ExclusionInv'
    BY <1>0, <1>3, BackoffEffect, ExclusionFrame
  <1>4. CASE Failure
    BY <1>0, <1>4, FailureExclusion
  <1>5. CASE UNCHANGED vars
    BY <1>0, <1>5, StutterEffect, ExclusionFrame
  <1>6. QED
    BY <1>1, <1>2, <1>3, <1>4, <1>5 DEF Next

LEMMA InitExclusion == Init => ExclusionInv
  BY DEF Init, BaseInit, ExclusionInv, ProcessingJobs, Executing, Scanning

(* The isProcessing flag and the count of PROCESSING rows keep the worker to
   one execution at a time, crashes, failed writes, cancels and replays
   notwithstanding; the only hole is the window between the test of the flag
   and the pick, when two invocations are in it at once. *)
THEOREM ExecutesOneAtATime == Spec => []OneAtATime
  <1>1. Init => Exclusion
    BY InitExclusion DEF Exclusion
  <1>2. Exclusion => OneAtATime
    BY DEF Exclusion, ExclusionInv, OneAtATime
  <1>3. QED
    BY <1>1, <1>2, StepExclusion, TypeCorrect, PTL DEF Spec

-----------------------------------------------------------------------------
(***************************************************************************)
(* Without races, whoever writes a row finds in it what it read.           *)
(***************************************************************************)
LEMMA InitFreshReads == Init => FreshReadsInv
  BY WorkerAssumption DEF Init, BaseInit, FreshReadsInv, Executing, Scanning

LEMMA RequestFreshReads ==
  ASSUME UndisturbedInv, Request, Undisturbed'
  PROVE  FreshReadsInv'
  <1> USE DEF UndisturbedInv, TypeOK, BaseTypeOK, Statuses, FreshReadsInv, Undisturbed,
              Executing, Scanning, workerVars, rowVars, NoteIf
  <1>1. ASSUME NEW s \in Submitters, NEW j \in Jobs, AddJobCheck(s, j)
        PROVE  FreshReadsInv'
    BY <1>1 DEF AddJobCheck, CheckRateLimit
  <1>2. ASSUME NEW s \in Submitters, AddJobCreate(s)
        PROVE  FreshReadsInv'
    BY <1>2, WorkerAssumption DEF AddJobCreate, CreateJob
  <1>3. ASSUME NEW r \in Requests, NEW j \in Jobs, CancelRead(r, j)
        PROVE  FreshReadsInv'
    <2>1. \A p \in Polls : taken[p] # j
      BY <1>3 DEF CancelRead
    <2>2. QED
      BY <1>3, <2>1 DEF CancelRead, ReadForCancel
  <1>4. ASSUME NEW r \in Requests, NEW j \in Jobs, RetryRead(r, j)
        PROVE  FreshReadsInv'
    <2>1. \A q \in Requests : reqOp[q] = "retry" => reqJob[q] # j
      BY <1>4 DEF RetryRead
    <2>2. QED
      BY <1>4, <2>1 DEF RetryRead, ReadForRetry
  <1>5. ASSUME NEW r \in Requests, CancelWrite(r)
        PROVE  FreshReadsInv'
    BY <1>5 DEF CancelWrite, WriteCancelled
  <1>6. ASSUME NEW r \in Requests, RetryWrite(r)
        PROVE  FreshReadsInv'
    BY <1>6, WorkerAssumption DEF RetryWrite, WriteRequeued
  <1>7. QED
    BY <1>1, <1>2, <1>3, <1>4, <1>5, <1>6 DEF Request

LEMMA PollFreshReads ==
  ASSUME UndisturbedInv, NEW p \in Polls, Poll(p) \/ Continue(p), Undisturbed'
  PROVE  FreshReadsInv'
  <1> USE WorkerAssumption, JobsAssumption
      DEF UndisturbedInv, TypeOK, BaseTypeOK, Statuses, FreshReadsInv, Undisturbed,
          Window, Executing, Scanning, baseVars, rowVars, requestVars, NoteIf, Advance,
          Finish
  <1>1. CASE Poll(p)
    BY <1>1 DEF Poll
  <1>2. CASE CountProcessing(p)
    BY <1>2 DEF CountProcessing
  <1>3. CASE FindNothing(p)
    BY <1>3 DEF FindNothing
  <1>4. CASE FindNext(p)
    <2>1. PICK j \in NextJobs :
            /\ taken' = [taken EXCEPT ![p] = j]
            /\ tries' = [tries EXCEPT ![p] = attempts[j] + 1]
            /\ NoteIf("cancelRace",
                      \E r \in Requests : reqOp[r] = "cancel" /\ reqJob[r] = j)
      BY <1>4 DEF FindNext
    <2>2. j \in Jobs /\ status[j] = "QUEUED"
      BY <2>1 DEF NextJobs, Eligible
    <2>3. \A r \in Requests : reqOp[r] = "cancel" => reqJob[r] # j
      BY <2>1
    <2>4. UNCHANGED <<status, attempts, adding, reqOp, reqJob>>
      BY <1>4 DEF FindNext
    <2>5. pc' = [pc EXCEPT ![p] = "mark"]
      BY <1>4 DEF FindNext
    <2>6. QED
      BY <2>1, <2>2, <2>3, <2>4, <2>5
  <1>5. CASE MarkProcessing(p)
    BY <1>5 DEF MarkProcessing, WriteProcessing, ExclusionInv
  <1>6. CASE ScanSucceeds(p) \/ ScanFails(p)
    BY <1>6 DEF ScanSucceeds, ScanFails
  <1>7. CASE SaveReport(p) \/ SaveRejected(p)
    BY <1>7 DEF SaveReport, SaveRejected
  <1>8. CASE MarkCompleted(p)
    BY <1>8 DEF MarkCompleted, ExclusionInv
  <1>9. CASE RequeueWithBackoff(p)
    BY <1>9 DEF RequeueWithBackoff, WriteOutcome, ExclusionInv
  <1>10. CASE MarkFailed(p)
    BY <1>10 DEF MarkFailed, WriteOutcome, ExclusionInv
  <1>11. QED
    BY <1>1, <1>2, <1>3, <1>4, <1>5, <1>6, <1>7, <1>8, <1>9, <1>10 DEF Continue

LEMMA FailureFreshReads ==
  ASSUME UndisturbedInv, Failure, Undisturbed'
  PROVE  FreshReadsInv'
  <1> USE WorkerAssumption, JobsAssumption
      DEF UndisturbedInv, TypeOK, BaseTypeOK, Statuses, FreshReadsInv, Undisturbed,
          Window, Executing, Scanning, baseVars, rowVars, requestVars, NoteIf, Advance,
          Finish
  <1>1. ASSUME NEW p \in Polls, MarkProcessingFails(p)
        PROVE  FreshReadsInv'
    BY <1>1 DEF MarkProcessingFails, WriteProcessing, ExclusionInv
  <1>2. ASSUME NEW p \in Polls, SaveReportFails(p)
        PROVE  FreshReadsInv'
    BY <1>2 DEF SaveReportFails
  <1>3. ASSUME NEW p \in Polls, MarkCompletedFails(p)
        PROVE  FreshReadsInv'
    <2>1. ASSUME NEW applied \in BOOLEAN,
                 NoteIf("lostAck", applied)
          PROVE  ~applied
      BY <2>1
    <2>2. UNCHANGED <<status, attempts, adding, reqOp, reqJob>>
      BY <1>3, <2>1 DEF MarkCompletedFails
    <2>3. QED
      BY <1>3, <2>2 DEF MarkCompletedFails
  <1>4. ASSUME NEW p \in Polls, OutcomeWriteFails(p)
        PROVE  FreshReadsInv'
    BY <1>4 DEF OutcomeWriteFails
  <1>5. CASE Crash
    BY <1>5 DEF Crash, DropRequests
  <1>6. QED
    BY <1>1, <1>2, <1>3, <1>4, <1>5 DEF Failure

LEMMA StepUndisturbed == UndisturbedInv /\ [Next /\ Undisturbed']_vars => UndisturbedInv'
  <1> SUFFICES ASSUME UndisturbedInv, [Next /\ Undisturbed']_vars
               PROVE  UndisturbedInv'
    OBVIOUS
  <1>1. CASE UNCHANGED vars
    <2>1. TypeOK'
      BY <1>1, StepTypeOK DEF UndisturbedInv
    <2>2. ExclusionInv'
      BY <1>1, StutterEffect, ExclusionFrame DEF UndisturbedInv
    <2>3. FreshReadsInv'
      BY <1>1, StutterEffect DEF UndisturbedInv, FreshReadsInv
    <2>4. QED
      BY <2>1, <2>2, <2>3 DEF UndisturbedInv
  <1>2. CASE Next /\ Undisturbed'
    <2>1. TypeOK'
      BY <1>2, StepTypeOK DEF UndisturbedInv
    <2>2. ExclusionInv'
      BY <1>2, StepExclusion DEF UndisturbedInv, Exclusion, Undisturbed
    <2>3. ASSUME NEW j \in Jobs, Backoff(j)
          PROVE  FreshReadsInv'
      BY <2>3, BackoffEffect DEF UndisturbedInv, FreshReadsInv
    <2>4. FreshReadsInv'
      BY <1>2, <2>3, RequestFreshReads, PollFreshReads, FailureFreshReads DEF Next
    <2>5. QED
      BY <2>1, <2>2, <2>4 DEF UndisturbedInv
  <1>3. QED
    BY <1>1, <1>2

THEOREM UndisturbedIsInvariant == UndisturbedSpec => []UndisturbedInv
  <1>1. Init => UndisturbedInv
    BY InitTypeOK, InitExclusion, InitFreshReads DEF UndisturbedInv
  <1>2. QED
    BY <1>1, StepUndisturbed, PTL DEF UndisturbedSpec

-----------------------------------------------------------------------------
(***************************************************************************)
(* The undisturbed queue implements the life of a row.                     *)
(***************************************************************************)
LifecycleStep == [Lifecycle!LifecycleNext]_(Lifecycle!lifecycleVars)

LEMMA RequestLifecycle ==
  ASSUME UndisturbedInv, Request
  PROVE  LifecycleStep
  <1> USE DEF UndisturbedInv, TypeOK, BaseTypeOK, FreshReadsInv, workerVars, rowVars,
              LifecycleStep, Lifecycle!LifecycleNext, Lifecycle!lifecycleVars,
              Lifecycle!Move
  <1>1. ASSUME NEW s \in Submitters, NEW j \in Jobs, AddJobCheck(s, j)
        PROVE  LifecycleStep
    BY <1>1 DEF AddJobCheck, CheckRateLimit
  <1>2. ASSUME NEW s \in Submitters, AddJobCreate(s)
        PROVE  LifecycleStep
    <2>1. adding[s] \in Jobs /\ Lifecycle!Create(adding[s])
      BY <1>2 DEF AddJobCreate, CreateJob, Lifecycle!Create
    <2>2. QED
      BY <2>1
  <1>3. ASSUME NEW r \in Requests, NEW j \in Jobs, CancelRead(r, j) \/ RetryRead(r, j)
        PROVE  LifecycleStep
    BY <1>3 DEF CancelRead, ReadForCancel, RetryRead, ReadForRetry
  <1>4. ASSUME NEW r \in Requests, CancelWrite(r)
        PROVE  LifecycleStep
    <2>1. CASE status[reqJob[r]] = "QUEUED"
      <3>1. reqJob[r] \in Jobs /\ Lifecycle!Cancel(reqJob[r])
        BY <1>4, <2>1 DEF CancelWrite, WriteCancelled, Lifecycle!Cancel
      <3>2. QED
        BY <3>1
    <2>2. CASE status[reqJob[r]] = "CANCELLED"
      <3>1. UNCHANGED <<status, attempts>>
        BY <1>4, <2>2 DEF CancelWrite, WriteCancelled
      <3>2. QED
        BY <3>1
    <2>3. QED
      BY <1>4, <2>1, <2>2 DEF CancelWrite, WriteCancelled
  <1>5. ASSUME NEW r \in Requests, RetryWrite(r)
        PROVE  LifecycleStep
    <2>1. reqJob[r] \in Jobs /\ Lifecycle!Replay(reqJob[r])
      BY <1>5 DEF RetryWrite, WriteRequeued, Lifecycle!Replay
    <2>2. QED
      BY <2>1
  <1>6. QED
    BY <1>1, <1>2, <1>3, <1>4, <1>5 DEF Request

LEMMA StartLifecycle ==
  ASSUME UndisturbedInv, NEW p \in Polls, pc[p] = "mark", WriteProcessing(p)
  PROVE  LifecycleStep
  <1>1. taken[p] \in Jobs
    BY DEF UndisturbedInv, TypeOK, Executing
  <1>2. \A i \in Jobs : status[i] # "PROCESSING"
    BY DEF UndisturbedInv, ExclusionInv, ProcessingJobs
  <1>3. /\ status[taken[p]] = "QUEUED"
        /\ tries[p] = attempts[taken[p]] + 1
    BY DEF UndisturbedInv, FreshReadsInv
  <1>4. attempts[taken[p]] < MaxAttempts
    BY <1>1, <1>3 DEF UndisturbedInv, FreshReadsInv
  <1>5. Lifecycle!Start(taken[p])
    BY <1>1, <1>2, <1>3, <1>4
    DEF WriteProcessing, Lifecycle!Start, Lifecycle!Move, UndisturbedInv, TypeOK, BaseTypeOK
  <1>6. QED
    BY <1>1, <1>5 DEF LifecycleStep, Lifecycle!LifecycleNext

LEMMA PollLifecycle ==
  ASSUME UndisturbedInv, NEW p \in Polls, Poll(p) \/ Continue(p)
  PROVE  LifecycleStep
  <1> USE DEF baseVars, rowVars
  <1>1. CASE \/ Poll(p) \/ CountProcessing(p) \/ FindNothing(p) \/ FindNext(p)
             \/ ScanSucceeds(p) \/ ScanFails(p) \/ SaveReport(p) \/ SaveRejected(p)
    <2>1. UNCHANGED <<status, attempts>>
      BY <1>1 DEF Poll, CountProcessing, FindNothing, FindNext, ScanSucceeds, ScanFails,
         SaveReport, SaveRejected
    <2>2. QED
      BY <2>1 DEF LifecycleStep, Lifecycle!lifecycleVars
  <1>2. CASE MarkProcessing(p)
    BY <1>2, StartLifecycle DEF MarkProcessing
  <1>3. ASSUME pc[p] \in Scanning
        PROVE  /\ taken[p] \in Jobs
               /\ status[taken[p]] = "PROCESSING"
               /\ attempts[taken[p]] = tries[p]
               /\ tries[p] <= MaxAttempts
               /\ tries[p] \in Nat
    BY <1>3 DEF UndisturbedInv, TypeOK, FreshReadsInv, Executing, Scanning
  <1>4. CASE MarkCompleted(p)
    <2>1. taken[p] \in Jobs /\ Lifecycle!Complete(taken[p])
      BY <1>3, <1>4
      DEF MarkCompleted, Scanning, Executing, Lifecycle!Complete, Lifecycle!Move
    <2>2. QED
      BY <2>1 DEF LifecycleStep, Lifecycle!LifecycleNext
  <1>5. CASE RequeueWithBackoff(p)
    <2>1. taken[p] \in Jobs /\ Lifecycle!RetryLater(taken[p])
      BY <1>3, <1>5
      DEF RequeueWithBackoff, WriteOutcome, Scanning, Executing, Lifecycle!RetryLater,
          Lifecycle!Move
    <2>2. QED
      BY <2>1 DEF LifecycleStep, Lifecycle!LifecycleNext
  <1>6. CASE MarkFailed(p)
    <2>1. taken[p] \in Jobs /\ Lifecycle!Fail(taken[p])
      BY <1>3, <1>6, WorkerAssumption
      DEF MarkFailed, WriteOutcome, Scanning, Executing, Lifecycle!Fail, Lifecycle!Move
    <2>2. QED
      BY <2>1 DEF LifecycleStep, Lifecycle!LifecycleNext
  <1>7. QED
    BY <1>1, <1>2, <1>4, <1>5, <1>6 DEF Continue

LEMMA FailureLifecycle ==
  ASSUME UndisturbedInv, Failure, Undisturbed'
  PROVE  LifecycleStep
  <1> USE DEF baseVars, rowVars
  <1>1. ASSUME NEW p \in Polls, MarkProcessingFails(p)
        PROVE  LifecycleStep
    <2>1. CASE WriteProcessing(p)
      BY <1>1, <2>1, StartLifecycle DEF MarkProcessingFails
    <2>2. CASE UNCHANGED rowVars
      BY <2>2 DEF LifecycleStep, Lifecycle!lifecycleVars
    <2>3. QED
      BY <1>1, <2>1, <2>2 DEF MarkProcessingFails
  <1>2. ASSUME NEW p \in Polls, MarkCompletedFails(p)
        PROVE  LifecycleStep
    <2>1. ASSUME NEW applied \in BOOLEAN,
                 NoteIf("lostAck", applied)
          PROVE  ~applied
      BY <2>1 DEF NoteIf, Undisturbed
    <2>2. UNCHANGED <<status, attempts>>
      BY <1>2, <2>1 DEF MarkCompletedFails
    <2>3. QED
      BY <2>2 DEF LifecycleStep, Lifecycle!lifecycleVars
  <1>3. ASSUME NEW p \in Polls, SaveReportFails(p) \/ OutcomeWriteFails(p)
        PROVE  LifecycleStep
    BY <1>3 DEF SaveReportFails, OutcomeWriteFails, LifecycleStep, Lifecycle!lifecycleVars
  <1>4. CASE Crash
    BY <1>4 DEF Crash, LifecycleStep, Lifecycle!lifecycleVars
  <1>5. QED
    BY <1>1, <1>2, <1>3, <1>4 DEF Failure

(* Without races, and whatever fails, the queue keeps the promise of
   ScanJobLifecycle: one PROCESSING row at a time, no more than MaxAttempts
   executions, FAILED after all of them only, COMPLETED and CANCELLED final. *)
THEOREM QueueImplementsLifecycle == UndisturbedSpec => ImplementsLifecycle
  <1>1. Init => Lifecycle!LifecycleInit
    BY DEF Init, BaseInit, Lifecycle!LifecycleInit
  <1>2. UndisturbedInv /\ [Next /\ Undisturbed']_vars
          => [Lifecycle!LifecycleNext]_(Lifecycle!lifecycleVars)
    <2> SUFFICES ASSUME UndisturbedInv, [Next /\ Undisturbed']_vars
                 PROVE  LifecycleStep
      BY DEF LifecycleStep
    <2>1. CASE UNCHANGED vars
      BY <2>1, StutterEffect DEF LifecycleStep, Lifecycle!lifecycleVars
    <2>2. ASSUME NEW j \in Jobs, Backoff(j)
          PROVE  LifecycleStep
      BY <2>2, BackoffEffect DEF LifecycleStep, Lifecycle!lifecycleVars
    <2>3. QED
      BY <2>1, <2>2, RequestLifecycle, PollLifecycle, FailureLifecycle DEF Next
  <1>3. QED
    BY <1>1, <1>2, UndisturbedIsInvariant, PTL
    DEF UndisturbedSpec, ImplementsLifecycle, Lifecycle!LifecycleSpec

-----------------------------------------------------------------------------
(***************************************************************************)
(* One completed job per audit.  A row is past its report when it is       *)
(* COMPLETED or about to be: the audit of such a row owns a report, and    *)
(* the unique constraint lets no second row past.                          *)
(***************************************************************************)
PastReport(j) == status[j] = "COMPLETED" \/ \E p \in Polls : pc[p] = "complete" /\ taken[p] = j

ReportInv ==
    /\ \A j \in Jobs : PastReport(j) /\ AuditOf[j] # NoAudit => AuditOf[j] \in reported
    /\ \A i, j \in Jobs :
          PastReport(i) /\ PastReport(j) /\ AuditOf[i] = AuditOf[j] /\ AuditOf[i] # NoAudit => i = j

(* A step that lets no row past its report and deletes none. *)
KeepsReports ==
    /\ reported \subseteq reported'
    /\ \A j \in Jobs : PastReport(j)' => PastReport(j)

LEMMA KeptReports ==
  ASSUME ReportInv, KeepsReports
  PROVE  ReportInv'
  <1> HIDE DEF PastReport
  <1>1. QED
    BY DEF ReportInv, KeepsReports

LEMMA RequestReports ==
  ASSUME TypeOK, Request
  PROVE  KeepsReports
  <1> USE DEF TypeOK, BaseTypeOK, workerVars, rowVars, KeepsReports, PastReport
  <1>1. ASSUME NEW s \in Submitters, NEW j \in Jobs, AddJobCheck(s, j)
        PROVE  KeepsReports
    BY <1>1 DEF AddJobCheck, CheckRateLimit
  <1>2. ASSUME NEW s \in Submitters, AddJobCreate(s)
        PROVE  KeepsReports
    BY <1>2 DEF AddJobCreate, CreateJob
  <1>3. ASSUME NEW r \in Requests, NEW j \in Jobs, CancelRead(r, j) \/ RetryRead(r, j)
        PROVE  KeepsReports
    BY <1>3 DEF CancelRead, ReadForCancel, RetryRead, ReadForRetry
  <1>4. ASSUME NEW r \in Requests, CancelWrite(r) \/ RetryWrite(r)
        PROVE  KeepsReports
    BY <1>4 DEF CancelWrite, WriteCancelled, RetryWrite, WriteRequeued
  <1>5. QED
    BY <1>1, <1>2, <1>3, <1>4 DEF Request

LEMMA PollReports ==
  ASSUME TypeOK, NEW p \in Polls, Poll(p) \/ Continue(p), ~SaveReport(p)
  PROVE  KeepsReports
  <1> USE DEF TypeOK, BaseTypeOK, baseVars, rowVars, KeepsReports, PastReport, Advance, Finish
  <1>1. CASE Poll(p) \/ CountProcessing(p) \/ FindNothing(p)
    BY <1>1 DEF Poll, CountProcessing, FindNothing
  <1>2. CASE FindNext(p)
    BY <1>2 DEF FindNext
  <1>3. CASE MarkProcessing(p)
    BY <1>3 DEF MarkProcessing, WriteProcessing
  <1>4. CASE ScanSucceeds(p) \/ ScanFails(p) \/ SaveRejected(p)
    BY <1>4 DEF ScanSucceeds, ScanFails, SaveRejected
  <1>5. CASE MarkCompleted(p)
    BY <1>5 DEF MarkCompleted, Executing
  <1>6. CASE RequeueWithBackoff(p) \/ MarkFailed(p)
    BY <1>6 DEF RequeueWithBackoff, MarkFailed, WriteOutcome, Executing
  <1>7. QED
    BY <1>1, <1>2, <1>3, <1>4, <1>5, <1>6 DEF Continue

LEMMA SaveReports ==
  ASSUME TypeOK, ReportInv, NEW p \in Polls, SaveReport(p)
  PROVE  ReportInv'
  <1>1. taken[p] \in Jobs
    BY DEF TypeOK, SaveReport, Executing
  <1>2. \A j \in Jobs : PastReport(j)' => PastReport(j) \/ j = taken[p]
    BY DEF TypeOK, SaveReport, Advance, PastReport, baseVars, rowVars
  <1>3. reported' = reported \cup ({AuditOf[taken[p]]} \ {NoAudit})
    BY DEF SaveReport
  <1>4. \A j \in Jobs : PastReport(j) /\ AuditOf[taken[p]] # NoAudit => AuditOf[j] # AuditOf[taken[p]]
    BY DEF SaveReport, AuditReported, ReportInv
  <1> HIDE DEF PastReport
  <1>5. QED
    BY <1>1, <1>2, <1>3, <1>4 DEF ReportInv

LEMMA FailureReports ==
  ASSUME TypeOK, Failure
  PROVE  KeepsReports
  <1> USE DEF TypeOK, BaseTypeOK, baseVars, rowVars, KeepsReports, PastReport, Advance, Finish
  <1>1. ASSUME NEW p \in Polls, MarkProcessingFails(p)
        PROVE  KeepsReports
    BY <1>1 DEF MarkProcessingFails, WriteProcessing
  <1>2. ASSUME NEW p \in Polls, SaveReportFails(p)
        PROVE  KeepsReports
    BY <1>2 DEF SaveReportFails
  <1>3. ASSUME NEW p \in Polls, MarkCompletedFails(p)
        PROVE  KeepsReports
    BY <1>3 DEF MarkCompletedFails, Executing
  <1>4. ASSUME NEW p \in Polls, OutcomeWriteFails(p)
        PROVE  KeepsReports
    BY <1>4 DEF OutcomeWriteFails
  <1>5. CASE Crash
    BY <1>5 DEF Crash
  <1>6. QED
    BY <1>1, <1>2, <1>3, <1>4, <1>5 DEF Failure

(* Of the jobs that carry one auditRequestId at most one is ever COMPLETED, through overlapping
   invocations, lost acknowledgements, replays and crashes: the unique column of AuditReport decides. *)
THEOREM OneJobCompletesPerAudit == Spec => []OneCompletedJobPerAudit
  <1>1. Init => ReportInv
    BY DEF Init, BaseInit, ReportInv, PastReport
  <1>2. TypeOK /\ ReportInv /\ [Next]_vars => ReportInv'
    <2> SUFFICES ASSUME TypeOK, ReportInv, [Next]_vars
                 PROVE  ReportInv'
      OBVIOUS
    <2>1. CASE UNCHANGED vars
      BY <2>1, KeptReports DEF vars, workerVars, baseVars, rowVars, KeepsReports, PastReport
    <2>2. ASSUME NEW p \in Polls, Poll(p) \/ Continue(p)
          PROVE  ReportInv'
      BY <2>2, PollReports, SaveReports, KeptReports
    <2>3. ASSUME NEW j \in Jobs, Backoff(j)
          PROVE  ReportInv'
      BY <2>3, KeptReports DEF Backoff, BackoffElapses, workerVars, KeepsReports, PastReport
    <2>4. QED
      BY <2>1, <2>2, <2>3, RequestReports, FailureReports, KeptReports DEF Next
  <1>3. ReportInv => OneCompletedJobPerAudit
    BY DEF ReportInv, PastReport, OneCompletedJobPerAudit
  <1>4. QED
    BY <1>1, <1>2, <1>3, TypeCorrect, PTL DEF Spec

-----------------------------------------------------------------------------
(***************************************************************************)
(* The position of a row and the choice of the poll are computed apart,    *)
(* from two orders that have to agree.                                     *)
(***************************************************************************)
LEMMA NobodyAhead ==
  ASSUME NEW j \in Jobs, status[j] = "QUEUED", QueuePosition(j) = 1
  PROVE  \A i \in Jobs : status[i] = "QUEUED" => ~Ahead(i, j)
  <1> DEFINE before == {i \in Jobs : status[i] = "QUEUED" /\ Ahead(i, j)}
  <1>1. IsFiniteSet(before) /\ Cardinality(before) \in Nat
    BY JobsAssumption, FS_Subset, FS_CardinalityType
  <1>2. 1 + Cardinality(before) = 1
    BY DEF QueuePosition
  <1>3. before = {}
    BY <1>1, <1>2, FS_EmptySet
  <1>4. QED
    BY <1>3

(* Whoever is told position 1, its backoff over, is a row the next poll may pick. *)
THEOREM FirstInLineIsAlwaysNext == Spec => []FirstInLineIsNext
  <1>1. \A i, j \in Jobs : OrderedBefore(i, j) => Ahead(i, j)
    BY DEF OrderedBefore, Ahead
  <1>2. FirstInLineIsNext
    BY <1>1, NobodyAhead DEF FirstInLineIsNext, Eligible, NextJobs
  <1>3. QED
    BY <1>2, PTL

-----------------------------------------------------------------------------
(***************************************************************************)
(* The per-client limit.  A row is claimed by the client it is counted     *)
(* for, or will be once the write in flight is made: an active row, a row  *)
(* about to be created, a row about to be queued again.                    *)
(***************************************************************************)
RetryHeld(j) == \E r \in Requests : reqOp[r] = "retry" /\ reqJob[r] = j
RetryRows == {j \in Jobs : RetryHeld(j)}
Claimed(j) == status[j] \in Active \/ (\E s \in Submitters : adding[s] = j) \/ RetryHeld(j)
ClaimedBy(c) == {j \in Jobs : ClientOf[j] = c /\ Claimed(j)}
Clients == {ClientOf[j] : j \in Jobs} \ {NoClient}

LimitInv ==
    /\ Cardinality(RetryRows) <= replays
    /\ \A c \in Clients :
          Cardinality(ClaimedBy(c)) <= MaxConcurrentPerClient - 1 + Cardinality(Submitters) + replays

LEMMA LimitNumbers ==
  /\ MaxConcurrentPerClient \in Nat /\ MaxConcurrentPerClient >= 1
  /\ Cardinality(Submitters) \in Nat
  BY ClientAssumption, FS_CardinalityType

LEMMA SmallerSet ==
  ASSUME NEW S \in SUBSET Jobs, NEW T \in SUBSET S
  PROVE  /\ IsFiniteSet(S) /\ IsFiniteSet(T)
         /\ Cardinality(S) \in Nat /\ Cardinality(T) \in Nat
         /\ Cardinality(T) <= Cardinality(S)
  BY JobsAssumption, FS_Subset, FS_CardinalityType

LEMMA OneRowMore ==
  ASSUME NEW S \in SUBSET Jobs, NEW T \in SUBSET Jobs, NEW j \in Jobs, T \subseteq S \cup {j}
  PROVE  Cardinality(T) <= Cardinality(S) + 1
  <1>1. IsFiniteSet(S) /\ Cardinality(S) \in Nat
    BY SmallerSet
  <1>2. S \cup {j} \in SUBSET Jobs
    OBVIOUS
  <1>3. /\ Cardinality(T) <= Cardinality(S \cup {j})
        /\ Cardinality(T) \in Nat /\ Cardinality(S \cup {j}) \in Nat
    BY <1>2, SmallerSet
  <1>4. Cardinality(S \cup {j}) <= Cardinality(S) + 1
    <2>1. CASE j \in S
      <3>1. S \cup {j} = S
        BY <2>1
      <3>2. QED
        BY <1>1, <3>1
    <2>2. CASE j \notin S
      <3>1. Cardinality(S \cup {j}) = Cardinality(S) + 1
        BY <1>1, <2>2, FS_AddElement
      <3>2. QED
        BY <1>1, <3>1
    <2>3. QED
      BY <2>1, <2>2
  <1>5. QED
    BY <1>1, <1>3, <1>4

(* A step that claims no row and answers no retry request. *)
ClaimsNothing ==
    /\ replays' = replays
    /\ \A j \in Jobs : (RetryHeld(j)' => RetryHeld(j)) /\ (Claimed(j)' => Claimed(j))

LEMMA NothingClaimed ==
  ASSUME TypeOK, LimitInv, ClaimsNothing
  PROVE  LimitInv'
  <1> HIDE DEF RetryHeld, Claimed
  <1>1. RetryRows' \subseteq RetryRows /\ \A c : ClaimedBy(c)' \subseteq ClaimedBy(c)
    BY DEF ClaimsNothing, RetryRows, ClaimedBy
  <1>2. /\ Cardinality(RetryRows') <= Cardinality(RetryRows)
        /\ Cardinality(RetryRows') \in Nat /\ Cardinality(RetryRows) \in Nat
    BY <1>1, SmallerSet DEF RetryRows
  <1>3. ASSUME NEW c \in Clients
        PROVE  /\ Cardinality(ClaimedBy(c)') <= Cardinality(ClaimedBy(c))
               /\ Cardinality(ClaimedBy(c)') \in Nat /\ Cardinality(ClaimedBy(c)) \in Nat
    BY <1>1, SmallerSet DEF ClaimedBy
  <1>4. replays \in Nat /\ replays' = replays
    BY DEF TypeOK, BaseTypeOK, ClaimsNothing
  <1>5. Cardinality(RetryRows') <= replays'
    BY <1>2, <1>4 DEF LimitInv
  <1>6. ASSUME NEW c \in Clients
        PROVE  Cardinality(ClaimedBy(c)') <= MaxConcurrentPerClient - 1 + Cardinality(Submitters) + replays'
    <2>1. Cardinality(ClaimedBy(c)) <= MaxConcurrentPerClient - 1 + Cardinality(Submitters) + replays
      BY DEF LimitInv
    <2>2. QED
      BY <1>3, <1>4, <2>1, LimitNumbers
  <1>7. QED
    BY <1>5, <1>6 DEF LimitInv, Clients

(* The rows about to be created are no more than the submitters. *)
LEMMA AddedRows ==
  ASSUME NEW T \in SUBSET Jobs, NEW add, \A j \in T : \E s \in Submitters : add[s] = j
  PROVE  IsFiniteSet(T) /\ Cardinality(T) \in Nat /\ Cardinality(T) <= Cardinality(Submitters)
  <1> DEFINE S == {s \in Submitters : add[s] \in T}
  <1> DEFINE f == [s \in S |-> add[s]]
  <1>1. f \in Surjection(S, T)
    BY DEF Surjection
  <1>2. IsFiniteSet(S) /\ Cardinality(S) <= Cardinality(Submitters) /\ Cardinality(S) \in Nat
    BY ClientAssumption, FS_Subset, FS_CardinalityType
  <1>3. IsFiniteSet(T) /\ Cardinality(T) <= Cardinality(S)
    BY <1>1, <1>2, FS_Surjection
  <1>4. Cardinality(T) \in Nat
    BY <1>3, FS_CardinalityType
  <1> HIDE DEF S
  <1>5. QED
    BY <1>2, <1>3, <1>4, LimitNumbers

LEMMA AddJobCheckLimit ==
  ASSUME TypeOK, LimitInv, NEW s \in Submitters, NEW j \in Jobs, AddJobCheck(s, j)
  PROVE  LimitInv'
  <1>1. /\ UNCHANGED <<status, reqOp, reqJob, replays>>
        /\ adding' = [adding EXCEPT ![s] = j]
        /\ WithinClientRateLimit(ClientOf[j])
    BY DEF AddJobCheck, CheckRateLimit, rowVars
  <1>2. RetryRows' = RetryRows
    BY <1>1 DEF RetryRows, RetryHeld
  <1>3. Cardinality(RetryRows) <= replays /\ replays \in Nat /\ Cardinality(RetryRows) \in Nat
    BY SmallerSet DEF LimitInv, TypeOK, BaseTypeOK, RetryRows
  <1>4. ASSUME NEW c \in Clients
        PROVE  Cardinality(ClaimedBy(c)') <= MaxConcurrentPerClient - 1 + Cardinality(Submitters) + replays
    <2>1. CASE ClientOf[j] # c
      <3>1. ClaimedBy(c)' \subseteq ClaimedBy(c)
        BY <1>1, <2>1 DEF ClaimedBy, Claimed, RetryHeld, TypeOK, BaseTypeOK
      <3>2. /\ Cardinality(ClaimedBy(c)') <= Cardinality(ClaimedBy(c))
            /\ Cardinality(ClaimedBy(c)') \in Nat /\ Cardinality(ClaimedBy(c)) \in Nat
        BY <3>1, SmallerSet DEF ClaimedBy
      <3>3. Cardinality(ClaimedBy(c)) <= MaxConcurrentPerClient - 1 + Cardinality(Submitters) + replays
        BY DEF LimitInv
      <3>4. QED
        BY <1>3, <3>2, <3>3, LimitNumbers
    <2>2. CASE ClientOf[j] = c
      <3> DEFINE added == {i \in Jobs : ClientOf[i] = c /\ \E t \in Submitters : adding'[t] = i}
      <3> DEFINE held == {i \in RetryRows : ClientOf[i] = c}
      <3>1. ClaimedBy(c)' = (ActiveJobsOf(c) \cup added) \cup held
        BY <1>1 DEF ClaimedBy, Claimed, RetryHeld, RetryRows, ActiveJobsOf
      <3>2. Cardinality(ActiveJobsOf(c)) < MaxConcurrentPerClient
        BY <1>1, <2>2 DEF WithinClientRateLimit, Clients
      <3>3. IsFiniteSet(ActiveJobsOf(c)) /\ Cardinality(ActiveJobsOf(c)) \in Nat
        BY SmallerSet DEF ActiveJobsOf
      <3>4. IsFiniteSet(added) /\ Cardinality(added) \in Nat /\ Cardinality(added) <= Cardinality(Submitters)
        <4>1. added \in SUBSET Jobs /\ \A i \in added : \E t \in Submitters : adding'[t] = i
          OBVIOUS
        <4> HIDE DEF added
        <4>2. QED
          BY <4>1, AddedRows
      <3>5. IsFiniteSet(held) /\ Cardinality(held) \in Nat /\ Cardinality(held) <= replays
        <4>1. RetryRows \in SUBSET Jobs /\ held \in SUBSET RetryRows
          BY DEF RetryRows
        <4> HIDE DEF held
        <4>2. IsFiniteSet(held) /\ Cardinality(held) \in Nat /\ Cardinality(held) <= Cardinality(RetryRows)
          BY <4>1, SmallerSet
        <4>3. QED
          BY <1>3, <4>2
      <3> HIDE DEF added, held
      <3>6. /\ IsFiniteSet(ActiveJobsOf(c) \cup added)
            /\ Cardinality(ActiveJobsOf(c) \cup added) <= Cardinality(ActiveJobsOf(c)) + Cardinality(added)
            /\ Cardinality(ActiveJobsOf(c) \cup added) \in Nat
        <4>1. Cardinality(ActiveJobsOf(c) \cap added) \in Nat
          BY <3>4, FS_Subset, FS_CardinalityType
        <4>2. /\ IsFiniteSet(ActiveJobsOf(c) \cup added)
              /\ Cardinality(ActiveJobsOf(c) \cup added)
                   = Cardinality(ActiveJobsOf(c)) + Cardinality(added) - Cardinality(ActiveJobsOf(c) \cap added)
          BY <3>3, <3>4, FS_Union
        <4>3. Cardinality(ActiveJobsOf(c) \cup added) \in Nat
          BY <4>2, FS_CardinalityType
        <4>4. QED
          BY <3>3, <3>4, <4>1, <4>2, <4>3
      <3>7. Cardinality(ClaimedBy(c)') <= Cardinality(ActiveJobsOf(c) \cup added) + Cardinality(held)
        <4>1. Cardinality((ActiveJobsOf(c) \cup added) \cap held) \in Nat
          BY <3>5, FS_Subset, FS_CardinalityType
        <4>2. Cardinality((ActiveJobsOf(c) \cup added) \cup held)
                = Cardinality(ActiveJobsOf(c) \cup added) + Cardinality(held)
                    - Cardinality((ActiveJobsOf(c) \cup added) \cap held)
          BY <3>5, <3>6, FS_Union
        <4>3. QED
          BY <3>1, <3>5, <3>6, <4>1, <4>2
      <3>8. Cardinality(ClaimedBy(c)') \in Nat
        BY <3>1, <3>5, <3>6, FS_Union, FS_CardinalityType
      <3>9. QED
        BY <1>3, <3>2, <3>3, <3>4, <3>5, <3>6, <3>7, <3>8, LimitNumbers
    <2>3. QED
      BY <2>1, <2>2
  <1>5. QED
    BY <1>1, <1>2, <1>3, <1>4 DEF LimitInv, Clients

LEMMA RetryReadLimit ==
  ASSUME TypeOK, LimitInv, NEW r \in Requests, NEW j \in Jobs, RetryRead(r, j)
  PROVE  LimitInv'
  <1>1. /\ UNCHANGED <<status, adding>>
        /\ reqOp' = [reqOp EXCEPT ![r] = "retry"]
        /\ reqJob' = [reqJob EXCEPT ![r] = j]
        /\ replays' = replays + 1
    BY DEF RetryRead, ReadForRetry, rowVars
  <1>2. replays \in Nat
    BY DEF TypeOK, BaseTypeOK
  <1>3. RetryRows' \subseteq RetryRows \cup {j} /\ \A c : ClaimedBy(c)' \subseteq ClaimedBy(c) \cup {j}
    BY <1>1 DEF RetryRows, RetryHeld, ClaimedBy, Claimed, TypeOK, BaseTypeOK
  <1>4. /\ Cardinality(RetryRows') <= Cardinality(RetryRows) + 1
        /\ Cardinality(RetryRows') \in Nat /\ Cardinality(RetryRows) \in Nat
    BY <1>3, OneRowMore, SmallerSet DEF RetryRows
  <1>5. Cardinality(RetryRows') <= replays'
    BY <1>1, <1>2, <1>4 DEF LimitInv
  <1>6. ASSUME NEW c \in Clients
        PROVE  Cardinality(ClaimedBy(c)') <= MaxConcurrentPerClient - 1 + Cardinality(Submitters) + replays'
    <2>1. Cardinality(ClaimedBy(c)) <= MaxConcurrentPerClient - 1 + Cardinality(Submitters) + replays
      BY DEF LimitInv
    <2>2. /\ Cardinality(ClaimedBy(c)') <= Cardinality(ClaimedBy(c)) + 1
          /\ Cardinality(ClaimedBy(c)') \in Nat /\ Cardinality(ClaimedBy(c)) \in Nat
      BY <1>3, OneRowMore, SmallerSet DEF ClaimedBy
    <2>3. QED
      BY <1>1, <1>2, <2>1, <2>2, LimitNumbers
  <1>7. QED
    BY <1>5, <1>6 DEF LimitInv, Clients

LEMMA RequestClaims ==
  ASSUME UndisturbedInv, LimitInv, Request
  PROVE  LimitInv'
  <1> USE DEF TypeOK, BaseTypeOK, rowVars, ClaimsNothing, Claimed, RetryHeld, Active
  <1>0. TypeOK
    BY DEF UndisturbedInv
  <1>1. ASSUME NEW s \in Submitters, NEW j \in Jobs, AddJobCheck(s, j)
        PROVE  LimitInv'
    BY <1>0, <1>1, AddJobCheckLimit
  <1>2. ASSUME NEW s \in Submitters, AddJobCreate(s)
        PROVE  ClaimsNothing
    <2>1. /\ adding[s] \in Jobs
          /\ adding' = [adding EXCEPT ![s] = NoJob]
          /\ status' = [status EXCEPT ![adding[s]] = "QUEUED"]
          /\ UNCHANGED <<reqOp, reqJob, replays>>
      BY <1>0, <1>2 DEF AddJobCreate, CreateJob
    <2>2. ASSUME NEW j \in Jobs, Claimed(j)'
          PROVE  Claimed(j)
      <3>1. CASE j = adding[s]
        BY <3>1
      <3>2. CASE j # adding[s]
        BY <1>0, <2>1, <2>2, <3>2, JobsAssumption
      <3>3. QED
        BY <3>1, <3>2
    <2>3. QED
      BY <2>1, <2>2
  <1>3. ASSUME NEW r \in Requests, NEW j \in Jobs, CancelRead(r, j)
        PROVE  ClaimsNothing
    BY <1>0, <1>3 DEF CancelRead, ReadForCancel
  <1>4. ASSUME NEW r \in Requests, NEW j \in Jobs, RetryRead(r, j)
        PROVE  LimitInv'
    BY <1>0, <1>4, RetryReadLimit
  <1>5. ASSUME NEW r \in Requests, CancelWrite(r)
        PROVE  ClaimsNothing
    BY <1>0, <1>5 DEF CancelWrite, WriteCancelled
  <1>6. ASSUME NEW r \in Requests, RetryWrite(r)
        PROVE  ClaimsNothing
    BY <1>0, <1>6 DEF RetryWrite, WriteRequeued
  <1> HIDE DEF ClaimsNothing
  <1>7. QED
    BY <1>0, <1>1, <1>2, <1>3, <1>4, <1>5, <1>6, NothingClaimed DEF Request

LEMMA PollClaims ==
  ASSUME UndisturbedInv, NEW p \in Polls, Poll(p) \/ Continue(p)
  PROVE  ClaimsNothing
  <1> USE DEF TypeOK, BaseTypeOK, baseVars, rowVars, requestVars, ClaimsNothing, Claimed, RetryHeld,
              Active
  <1>0. TypeOK
    BY DEF UndisturbedInv
  <1>1. CASE Poll(p) \/ CountProcessing(p) \/ FindNothing(p) \/ FindNext(p)
    BY <1>1 DEF Poll, CountProcessing, FindNothing, FindNext
  <1>2. CASE MarkProcessing(p)
    <2>1. taken[p] \in Jobs /\ status[taken[p]] = "QUEUED"
      BY <1>0, <1>2 DEF MarkProcessing, Executing, UndisturbedInv, FreshReadsInv
    <2>2. QED
      BY <1>0, <1>2, <2>1 DEF MarkProcessing, WriteProcessing
  <1>3. CASE ScanSucceeds(p) \/ ScanFails(p) \/ SaveReport(p) \/ SaveRejected(p)
    BY <1>3 DEF ScanSucceeds, ScanFails, SaveReport, SaveRejected
  <1>4. CASE MarkCompleted(p)
    BY <1>0, <1>4 DEF MarkCompleted
  <1>5. CASE RequeueWithBackoff(p)
    <2>1. taken[p] \in Jobs /\ status[taken[p]] = "PROCESSING"
      BY <1>0, <1>5 DEF RequeueWithBackoff, Executing, Scanning, UndisturbedInv, FreshReadsInv
    <2>2. QED
      BY <1>0, <1>5, <2>1 DEF RequeueWithBackoff, WriteOutcome
  <1>6. CASE MarkFailed(p)
    BY <1>0, <1>6 DEF MarkFailed, WriteOutcome
  <1>7. QED
    BY <1>1, <1>2, <1>3, <1>4, <1>5, <1>6 DEF Continue

LEMMA FailureClaims ==
  ASSUME UndisturbedInv, Failure
  PROVE  ClaimsNothing
  <1> USE DEF TypeOK, BaseTypeOK, baseVars, rowVars, requestVars, ClaimsNothing, Claimed, RetryHeld,
              Active
  <1>0. TypeOK
    BY DEF UndisturbedInv
  <1>1. ASSUME NEW p \in Polls, MarkProcessingFails(p)
        PROVE  ClaimsNothing
    <2>1. taken[p] \in Jobs /\ status[taken[p]] = "QUEUED"
      BY <1>0, <1>1 DEF MarkProcessingFails, Executing, UndisturbedInv, FreshReadsInv
    <2>2. QED
      BY <1>0, <1>1, <2>1 DEF MarkProcessingFails, WriteProcessing
  <1>2. ASSUME NEW p \in Polls, MarkCompletedFails(p)
        PROVE  ClaimsNothing
    BY <1>0, <1>2 DEF MarkCompletedFails
  <1>3. ASSUME NEW p \in Polls, SaveReportFails(p) \/ OutcomeWriteFails(p)
        PROVE  ClaimsNothing
    BY <1>3 DEF SaveReportFails, OutcomeWriteFails
  <1>4. CASE Crash
    BY <1>0, <1>4, JobsAssumption DEF Crash, DropRequests
  <1>5. QED
    BY <1>1, <1>2, <1>3, <1>4 DEF Failure

(* The active rows of a client and its submitters in flight are claims of different rows. *)
LEMMA LimitMeaning == UndisturbedInv /\ LimitInv => ClientLimitOvershoot
  <1> SUFFICES ASSUME UndisturbedInv, LimitInv, NEW c \in Clients
               PROVE  Cardinality(ActiveJobsOf(c)) + Cardinality(Submitting(c))
                        <= MaxConcurrentPerClient - 1 + Cardinality(Submitters) + replays
    BY DEF ClientLimitOvershoot, Clients
  <1> DEFINE added == {i \in Jobs : ClientOf[i] = c /\ \E t \in Submitters : adding[t] = i}
  <1> DEFINE f == [s \in Submitting(c) |-> adding[s]]
  <1>1. f \in Injection(Submitting(c), added)
    BY DEF Injection, IsInjective, Submitting, UndisturbedInv, FreshReadsInv, TypeOK, BaseTypeOK
  <1>2. IsFiniteSet(added) /\ Cardinality(added) \in Nat
    BY SmallerSet
  <1>3. IsFiniteSet(ActiveJobsOf(c)) /\ Cardinality(ActiveJobsOf(c)) \in Nat
    BY SmallerSet DEF ActiveJobsOf
  <1>4. ActiveJobsOf(c) \cap added = {}
    BY JobsAssumption DEF ActiveJobsOf, Active, UndisturbedInv, FreshReadsInv
  <1>5. ActiveJobsOf(c) \cup added \subseteq ClaimedBy(c)
    BY DEF ActiveJobsOf, ClaimedBy, Claimed
  <1> HIDE DEF added
  <1>6. Cardinality(Submitting(c)) <= Cardinality(added) /\ Cardinality(Submitting(c)) \in Nat
    BY <1>1, <1>2, FS_Injection, FS_CardinalityType
  <1>7. Cardinality(ActiveJobsOf(c) \cup added) = Cardinality(ActiveJobsOf(c)) + Cardinality(added)
    BY <1>2, <1>3, <1>4, FS_Union, FS_EmptySet
  <1>8. /\ Cardinality(ActiveJobsOf(c) \cup added) <= Cardinality(ClaimedBy(c))
        /\ Cardinality(ClaimedBy(c)) \in Nat
    BY <1>5, SmallerSet DEF ClaimedBy
  <1>9. /\ Cardinality(ClaimedBy(c)) <= MaxConcurrentPerClient - 1 + Cardinality(Submitters) + replays
        /\ replays \in Nat
    BY DEF LimitInv, UndisturbedInv, TypeOK, BaseTypeOK
  <1>10. QED
    BY <1>2, <1>3, <1>6, <1>7, <1>8, <1>9, LimitNumbers

(* The check-then-create of addJob and the unchecked retry together let a client exceed its limit by
   one less than the submitters in flight and one for every replay, and by no more. *)
THEOREM OvershootIsBounded == UndisturbedSpec => []ClientLimitOvershoot
  <1>1. Init => LimitInv
    <2> SUFFICES ASSUME Init
                 PROVE  LimitInv
      OBVIOUS
    <2>1. \A j \in Jobs : ~RetryHeld(j) /\ ~Claimed(j)
      BY JobsAssumption DEF Init, BaseInit, RetryHeld, Claimed, Active
    <2>2. RetryRows = {} /\ \A c : ClaimedBy(c) = {}
      BY <2>1 DEF RetryRows, ClaimedBy
    <2>3. replays = 0
      BY DEF Init, BaseInit
    <2>4. QED
      BY <2>2, <2>3, LimitNumbers, FS_EmptySet DEF LimitInv
  <1>2. UndisturbedInv /\ LimitInv /\ [Next /\ Undisturbed']_vars => LimitInv'
    <2> SUFFICES ASSUME UndisturbedInv, LimitInv, [Next]_vars
                 PROVE  LimitInv'
      OBVIOUS
    <2>0. TypeOK
      BY DEF UndisturbedInv
    <2>1. CASE UNCHANGED vars
      BY <2>0, <2>1, NothingClaimed
      DEF vars, baseVars, rowVars, requestVars, ClaimsNothing, Claimed, RetryHeld
    <2>2. ASSUME NEW j \in Jobs, Backoff(j)
          PROVE  LimitInv'
      BY <2>0, <2>2, NothingClaimed
      DEF Backoff, BackoffElapses, requestVars, ClaimsNothing, Claimed, RetryHeld
    <2>3. QED
      BY <2>0, <2>1, <2>2, RequestClaims, PollClaims, FailureClaims, NothingClaimed DEF Next
  <1>3. QED
    BY <1>1, <1>2, LimitMeaning, UndisturbedIsInvariant, PTL DEF UndisturbedSpec

=============================================================================
