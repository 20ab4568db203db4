------------------------ MODULE CloudRunQueueProofs ------------------------
(***************************************************************************)
(* Theorems about CloudRunQueue and the worker it asks for scans, for any  *)
(* number of jobs, instances, executions and requests, and every bound.    *)
(***************************************************************************)
EXTENDS CloudRunQueue, FiniteSetTheorems, TLAPS

LEMMA InitTypeOK == Init => TypeOK
  <1> SUFFICES ASSUME Init
               PROVE  TypeOK
    OBVIOUS
  <1>1. BaseTypeOK
    BY DEF Init, BaseInit, BaseTypeOK, Statuses
  <1>2. WorkerTypeOK
    BY DEF Init, WorkerInit, WorkerTypeOK, Accepted, Counted, Marks
  <1>3. QED
    BY <1>1, <1>2 DEF Init, TypeOK

(* Requests, the fallback and the restart keep the types. *)
LEMMA ApiTypeOK == TypeOK /\ (Request \/ Fallback) => TypeOK'
  <1> SUFFICES ASSUME TypeOK, Request \/ Fallback
               PROVE  TypeOK'
    OBVIOUS
  <1> USE DEF TypeOK, BaseTypeOK, WorkerTypeOK, rowVars, requestVars, baseVars, executionVars,
              workerVars, fallbackVars
  <1>1. ASSUME NEW s \in Submitters, NEW j \in Jobs, AddJobCheck(s, j)
        PROVE  TypeOK'
    BY <1>1 DEF AddJobCheck, CheckRateLimit
  <1>2. ASSUME NEW s \in Submitters, AddJobCreate(s)
        PROVE  TypeOK'
    BY <1>2 DEF AddJobCreate, CreateJob, Send, Statuses
  <1>3. ASSUME NEW r \in Requests, NEW j \in Jobs, CancelRead(r, j) \/ RetryRead(r, j)
        PROVE  TypeOK'
    BY <1>3 DEF CancelRead, ReadForCancel, RetryRead, ReadForRetry
  <1>4. ASSUME NEW r \in Requests, CancelWrite(r)
        PROVE  TypeOK'
    BY <1>4 DEF CancelWrite, WriteCancelled, Statuses
  <1>5. ASSUME NEW r \in Requests, RetryWrite(r)
        PROVE  TypeOK'
    BY <1>5 DEF RetryWrite, WriteRequeued, Send, Note, Marks, Statuses
  <1>6. ASSUME NEW j \in Jobs, GrowStale(j)
        PROVE  TypeOK'
    BY <1>6 DEF GrowStale
  <1>7. ASSUME NEW k \in Checks, CheckStale(k)
        PROVE  TypeOK'
    BY <1>7 DEF CheckStale, StaleJobs
  <1>8. ASSUME NEW k \in Checks, Retrigger(k)
        PROVE  TypeOK'
    BY <1>8 DEF Retrigger, Send, Note, Marks
  <1>9. CASE Restart
    BY <1>9 DEF Restart, DropRequests, Fault
  <1>10. QED
    BY <1>1, <1>2, <1>3, <1>4, <1>5, <1>6, <1>7, <1>8, <1>9 DEF Request, Fallback

(* So does the worker. *)
LEMMA WorkerStepTypeOK == TypeOK /\ WorkerNext /\ UNCHANGED fallbackVars => TypeOK'
  <1> SUFFICES ASSUME TypeOK, WorkerNext, UNCHANGED fallbackVars
               PROVE  TypeOK'
    OBVIOUS
  <1> USE DEF TypeOK, BaseTypeOK, WorkerTypeOK, rowVars, requestVars, baseVars, executionVars,
              workerVars, fallbackVars, outsideVars, Fault
  <1>1. ASSUME NEW j \in Jobs, NEW w \in Workers, NEW e \in Executions, Accept(w, e, j)
        PROVE  TypeOK'
    BY <1>1 DEF Accept, Received, Accepted
  <1>2. ASSUME NEW j \in Jobs, Lose(j) \/ \E w \in Workers : TurnAway(w, j)
        PROVE  TypeOK'
    BY <1>2 DEF Lose, TurnAway, Received
  <1>3. ASSUME NEW e \in Executions, Execute(e) \/ CallFails(e)
        PROVE  TypeOK'
    <2> USE DEF Advance, Finish, SetStatus, Statuses, Accepted, Counted
    <2>1. CASE FindJob(e) \/ Skip(e) \/ MarkProcessing(e) \/ ScanSucceeds(e) \/ ScanFails(e)
      BY <2>1 DEF FindJob, Skip, MarkProcessing, ScanSucceeds, ScanFails
    <2>2. CASE SaveReport(e) \/ SaveRejected(e)
      BY <2>2 DEF SaveReport, SaveRejected, AddReport
    <2>3. CASE MarkCompleted(e) \/ MarkFailed(e)
      BY <2>3 DEF MarkCompleted, MarkFailed
    <2>4. CASE ReadFails(e) \/ MarkProcessingFails(e)
      BY <2>4 DEF ReadFails, MarkProcessingFails, Note, Marks
    <2>5. CASE SaveReportFails(e)
      BY <2>5 DEF SaveReportFails, AddReport
    <2>6. CASE MarkCompletedFails(e) \/ MarkFailedFails(e)
      BY <2>6 DEF MarkCompletedFails, MarkFailedFails, Note, Marks
    <2>7. QED
      BY <1>3, <2>1, <2>2, <2>3, <2>4, <2>5, <2>6 DEF Execute, CallFails
  <1>4. ASSUME NEW w \in Workers, ShutDown(w)
        PROVE  TypeOK'
    BY <1>4 DEF ShutDown
  <1>5. ASSUME NEW w \in Workers, Exit(w)
        PROVE  TypeOK'
    <2>1. \A e \in Executions : \/ /\ on[e] = w /\ at'[e] = "idle"
                                   /\ job'[e] = NoJob /\ on'[e] = NoWorker
                                \/ at'[e] = at[e] /\ job'[e] = job[e] /\ on'[e] = on[e]
      BY <1>5 DEF Exit
    <2>2. /\ at' \in [Executions -> {"idle"} \cup Accepted \cup Counted]
          /\ job' \in [Executions -> Jobs \cup {NoJob}]
          /\ on' \in [Executions -> Workers \cup {NoWorker}]
      BY <1>5 DEF Exit
    <2>3. history' \in [Jobs -> SUBSET Marks]
      BY <1>5 DEF Exit, Note, Marks
    <2>4. QED
      BY <1>5, <2>1, <2>2, <2>3 DEF Exit
  <1>6. QED
    BY <1>1, <1>2, <1>3, <1>4, <1>5 DEF WorkerNext, Deliver

(***************************************************************************)
(* Every reachable state has the types of the columns, the requests and    *)
(* the executions: what runs, runs a row on an instance.                   *)
(***************************************************************************)
THEOREM TypeCorrect == Spec => []TypeOK
  <1>1. TypeOK /\ [Next]_vars => TypeOK'
    <2> SUFFICES ASSUME TypeOK, [Next]_vars
                 PROVE  TypeOK'
      OBVIOUS
    <2>1. CASE UNCHANGED vars
      BY <2>1 DEF vars, TypeOK, BaseTypeOK, WorkerTypeOK, rowVars, requestVars, baseVars,
                  executionVars, workerVars, fallbackVars
    <2>2. QED
      BY <2>1, ApiTypeOK, WorkerStepTypeOK DEF Next
  <1>2. QED
    BY <1>1, InitTypeOK, PTL DEF Spec

-----------------------------------------------------------------------------
(***************************************************************************)
(* What steps do to executions and to the history of a row.                *)
(***************************************************************************)
LEMMA HistoryGrows ==
  ASSUME TypeOK, NEW mark \in Marks, NEW S \in SUBSET Jobs, Note(mark, S)
  PROVE  /\ \A j \in Jobs : history[j] \subseteq history'[j]
         /\ \A j \in S : mark \in history'[j]
         /\ \A j \in Jobs \ S : history'[j] = history[j]
  BY DEF Note, TypeOK, WorkerTypeOK

LEMMA ExitEffect ==
  ASSUME TypeOK, NEW w \in Workers, Exit(w)
  PROVE  /\ \A e \in Executions : \/ /\ on[e] = w /\ at'[e] = "idle"
                                     /\ job'[e] = NoJob /\ on'[e] = NoWorker
                                  \/ at'[e] = at[e] /\ job'[e] = job[e] /\ on'[e] = on[e]
         /\ \A j \in Jobs : history[j] \subseteq history'[j]
         /\ \A e \in Executions : at[e] \in Counted /\ at'[e] # at[e] => "cutShort" \in history'[job[e]]
         /\ UNCHANGED <<baseVars, posts, reported, faults, crowded>>
  <1> DEFINE ended == {e \in Executions : on[e] = w}
  <1> DEFINE cut == {job[e] : e \in {f \in ended : at[f] \in Counted}}
  <1>1. /\ at' = [e \in Executions |-> IF e \in ended THEN "idle" ELSE at[e]]
        /\ job' = [e \in Executions |-> IF e \in ended THEN NoJob ELSE job[e]]
        /\ on' = [e \in Executions |-> IF e \in ended THEN NoWorker ELSE on[e]]
        /\ Note("cutShort", cut)
    BY DEF Exit
  <1>2. cut \in SUBSET Jobs /\ "cutShort" \in Marks
    BY DEF TypeOK, WorkerTypeOK, Marks, Counted
  <1>3. /\ \A j \in Jobs : history[j] \subseteq history'[j]
        /\ \A j \in cut : "cutShort" \in history'[j]
    BY <1>1, <1>2, HistoryGrows
  <1>4. \A e \in Executions : \/ /\ on[e] = w /\ at'[e] = "idle"
                                 /\ job'[e] = NoJob /\ on'[e] = NoWorker
                              \/ at'[e] = at[e] /\ job'[e] = job[e] /\ on'[e] = on[e]
    BY <1>1
  <1>5. ASSUME NEW e \in Executions, at[e] \in Counted, at'[e] # at[e]
        PROVE  "cutShort" \in history'[job[e]]
    <2>1. job[e] \in cut
      BY <1>1, <1>5
    <2>2. QED
      BY <1>3, <2>1
  <1>6. UNCHANGED <<baseVars, posts, reported, faults, crowded>>
    BY DEF Exit
  <1>7. QED
    BY <1>3, <1>4, <1>5, <1>6

(***************************************************************************)
(* Of the rows that say PROCESSING.                                        *)
(***************************************************************************)
(* Requests, the fallback and the restart touch no execution, and write no PROCESSING. *)
LEMMA ApiOwned == TypeOK /\ ProcessingIsOwned /\ (Request \/ Fallback) => ProcessingIsOwned'
  <1> SUFFICES ASSUME TypeOK, ProcessingIsOwned, Request \/ Fallback
               PROVE  ProcessingIsOwned'
    OBVIOUS
  <1> DEFINE Frame == /\ UNCHANGED <<at, job>>
                      /\ \A j \in Jobs : history[j] \subseteq history'[j]
                      /\ \A j \in Jobs : status'[j] = "PROCESSING" => status[j] = "PROCESSING"
  <1>1. Frame
    <2> USE DEF TypeOK, BaseTypeOK, WorkerTypeOK, rowVars, requestVars, baseVars, executionVars,
                workerVars, fallbackVars
    <2>1. ASSUME NEW s \in Submitters, NEW j \in Jobs, AddJobCheck(s, j)
          PROVE  Frame
      BY <2>1 DEF AddJobCheck, CheckRateLimit
    <2>2. ASSUME NEW s \in Submitters, AddJobCreate(s)
          PROVE  Frame
      BY <2>2 DEF AddJobCreate, CreateJob
    <2>3. ASSUME NEW r \in Requests, NEW j \in Jobs, CancelRead(r, j) \/ RetryRead(r, j)
          PROVE  Frame
      BY <2>3 DEF CancelRead, ReadForCancel, RetryRead, ReadForRetry
    <2>4. ASSUME NEW r \in Requests, CancelWrite(r)
          PROVE  Frame
      BY <2>4 DEF CancelWrite, WriteCancelled
    <2>5. ASSUME NEW r \in Requests, RetryWrite(r)
          PROVE  Frame
      BY <2>5 DEF RetryWrite, WriteRequeued, Note
    <2>6. ASSUME NEW j \in Jobs, GrowStale(j)
          PROVE  Frame
      BY <2>6 DEF GrowStale
    <2>7. ASSUME NEW k \in Checks, CheckStale(k)
          PROVE  Frame
      BY <2>7 DEF CheckStale
    <2>8. ASSUME NEW k \in Checks, Retrigger(k)
          PROVE  Frame
      BY <2>8 DEF Retrigger, Note
    <2>9. CASE Restart
      BY <2>9 DEF Restart
    <2>10. QED
      BY <2>1, <2>2, <2>3, <2>4, <2>5, <2>6, <2>7, <2>8, <2>9 DEF Request, Fallback
  <1>2. QED
    BY <1>1 DEF ProcessingIsOwned

(* A step of one execution: the row it may have written is owned by it or not PROCESSING, and
   the others own what they owned. *)
LEMMA ExecutionFrame ==
  ASSUME TypeOK, ProcessingIsOwned, NEW e \in Executions,
         \A d \in Executions \ {e} : at'[d] = at[d] /\ job'[d] = job[d],
         \A j \in Jobs : history[j] \subseteq history'[j],
         \A j \in Jobs : j # job[e] => status'[j] = status[j],
         \/ at'[e] \in Counted /\ job'[e] = job[e]
         \/ status'[job[e]] # "PROCESSING"
         \/ "cutShort" \in history'[job[e]]
         \/ at[e] \notin Counted /\ status'[job[e]] = status[job[e]]
  PROVE  ProcessingIsOwned'
  <1> SUFFICES ASSUME NEW j \in Jobs, status'[j] = "PROCESSING", "cutShort" \notin history'[j]
               PROVE  \E d \in Executions : job'[d] = j /\ at'[d] \in Counted
    BY DEF ProcessingIsOwned, Counted
  <1>1. CASE j = job[e] /\ at'[e] \in Counted /\ job'[e] = job[e]
    BY <1>1
  <1>2. CASE j = job[e] /\ at[e] \notin Counted /\ status'[job[e]] = status[job[e]]
    <2>1. PICK d \in Executions : job[d] = j /\ at[d] \in Counted
      BY <1>2 DEF ProcessingIsOwned
    <2>2. d # e
      BY <1>2, <2>1
    <2>3. QED
      BY <2>1, <2>2
  <1>3. CASE j # job[e]
    <2>1. PICK d \in Executions : job[d] = j /\ at[d] \in Counted
      BY <1>3 DEF ProcessingIsOwned
    <2>2. d # e
      BY <1>3, <2>1
    <2>3. QED
      BY <2>1, <2>2
  <1>4. QED
    BY <1>1, <1>2, <1>3

LEMMA WorkerOwned == TypeOK /\ ProcessingIsOwned /\ WorkerNext => ProcessingIsOwned'
  <1> SUFFICES ASSUME TypeOK, ProcessingIsOwned, WorkerNext
               PROVE  ProcessingIsOwned'
    OBVIOUS
  <1> USE DEF rowVars, baseVars, executionVars
  <1>1. ASSUME NEW j \in Jobs, NEW w \in Workers, NEW e \in Executions, Accept(w, e, j)
        PROVE  ProcessingIsOwned'
    <2>1. /\ \A d \in Executions : at[d] # "idle" => at'[d] = at[d] /\ job'[d] = job[d]
          /\ UNCHANGED <<status, history>>
      BY <1>1 DEF Accept, TypeOK, WorkerTypeOK
    <2>2. QED
      BY <2>1 DEF ProcessingIsOwned, Counted
  <1>2. ASSUME NEW j \in Jobs, Lose(j) \/ \E w \in Workers : TurnAway(w, j)
        PROVE  ProcessingIsOwned'
    BY <1>2 DEF Lose, TurnAway, ProcessingIsOwned
  <1>3. ASSUME NEW e \in Executions, Execute(e) \/ CallFails(e)
        PROVE  ProcessingIsOwned'
    <2> USE DEF Advance, Finish, SetStatus, Counted, TypeOK, WorkerTypeOK, BaseTypeOK, Active
    <2>1. CASE FindJob(e) \/ Skip(e) \/ ReadFails(e)
      BY <2>1, ExecutionFrame DEF FindJob, Skip, ReadFails
    <2>2. CASE MarkProcessing(e)
      BY <2>2, ExecutionFrame DEF MarkProcessing
    <2>3. CASE ScanSucceeds(e) \/ ScanFails(e) \/ SaveReport(e) \/ SaveRejected(e) \/ SaveReportFails(e)
      BY <2>3, ExecutionFrame DEF ScanSucceeds, ScanFails, SaveReport, SaveRejected, SaveReportFails
    <2>4. CASE MarkCompleted(e) \/ MarkFailed(e)
      BY <2>4, ExecutionFrame DEF MarkCompleted, MarkFailed
    <2>5. CASE MarkProcessingFails(e)
      BY <2>5, ExecutionFrame DEF MarkProcessingFails, Note
    <2>6. CASE MarkCompletedFails(e)
      BY <2>6, ExecutionFrame DEF MarkCompletedFails, Note
    <2>7. CASE MarkFailedFails(e)
      BY <2>7, ExecutionFrame DEF MarkFailedFails, Note
    <2>8. QED
      BY <1>3, <2>1, <2>2, <2>3, <2>4, <2>5, <2>6, <2>7 DEF Execute, CallFails
  <1>4. ASSUME NEW w \in Workers, ShutDown(w)
        PROVE  ProcessingIsOwned'
    BY <1>4 DEF ShutDown, ProcessingIsOwned
  <1>5. ASSUME NEW w \in Workers, Exit(w)
        PROVE  ProcessingIsOwned'
    BY <1>5, ExitEffect DEF ProcessingIsOwned, Counted
  <1>6. QED
    BY <1>1, <1>2, <1>3, <1>4, <1>5 DEF WorkerNext, Deliver

(***************************************************************************)
(* A row that says PROCESSING has an instance working on it, or one of its *)
(* executions was cut short: with any number of duplicate triggers,        *)
(* cancels, replays, faults and restarts.                                  *)
(***************************************************************************)
THEOREM ProcessingIsAlwaysOwned == Spec => []ProcessingIsOwned
  <1>1. Init => ProcessingIsOwned
    BY DEF Init, BaseInit, ProcessingIsOwned
  <1>2. TypeOK /\ ProcessingIsOwned /\ [Next]_vars => ProcessingIsOwned'
    <2> SUFFICES ASSUME TypeOK, ProcessingIsOwned, [Next]_vars
                 PROVE  ProcessingIsOwned'
      OBVIOUS
    <2>1. CASE UNCHANGED vars
      BY <2>1 DEF vars, ProcessingIsOwned, rowVars, baseVars, executionVars, workerVars
    <2>2. QED
      BY <2>1, ApiOwned, WorkerOwned DEF Next
  <1>3. QED
    BY <1>1, <1>2, TypeCorrect, PTL DEF Spec

-----------------------------------------------------------------------------
(***************************************************************************)
(* Of the reports.  COMPLETED is written only by an execution that has     *)
(* saved the report of its audit, and auditRequestId is unique: there is   *)
(* one such execution per audit, before the write, and one such row after. *)
(***************************************************************************)
OneSaves ==
    \A d, e \in Executions :
        at[d] = "complete" /\ at[e] = "complete" =>
            AuditOf[job[d]] # AuditOf[job[e]] \/ AuditOf[job[d]] = NoAudit \/ d = e

SavedFirst ==
    \A e \in Executions : at[e] = "complete" /\ AuditOf[job[e]] # NoAudit =>
        /\ AuditOf[job[e]] \in reported
        /\ \A j \in Jobs : AuditOf[j] = AuditOf[job[e]] => status[j] # "COMPLETED"

ReportInv == CompletedIsReported /\ OneSaves /\ SavedFirst

(* Most steps complete nothing and take no report away. *)
LEMMA ReportFrame ==
  ASSUME ReportInv,
         reported \subseteq reported',
         \A e \in Executions : at'[e] = "complete" => at[e] = "complete" /\ job'[e] = job[e],
         \A j \in Jobs : status'[j] = "COMPLETED" => status[j] = "COMPLETED"
  PROVE  ReportInv'
  <1>1. CompletedIsReported'
    BY DEF ReportInv, CompletedIsReported
  <1>2. OneSaves'
    BY DEF ReportInv, OneSaves
  <1>3. SavedFirst'
    BY DEF ReportInv, SavedFirst
  <1>4. QED
    BY <1>1, <1>2, <1>3 DEF ReportInv

LEMMA ApiReport == TypeOK /\ ReportInv /\ (Request \/ Fallback) => ReportInv'
  <1> SUFFICES ASSUME TypeOK, ReportInv, Request \/ Fallback
               PROVE  ReportInv'
    OBVIOUS
  <1> DEFINE Frame == /\ UNCHANGED <<at, job, reported>>
                      /\ \A j \in Jobs : status'[j] = "COMPLETED" => status[j] = "COMPLETED"
  <1>1. Frame
    <2> USE DEF TypeOK, BaseTypeOK, rowVars, requestVars, baseVars, executionVars, workerVars,
                fallbackVars
    <2>1. ASSUME NEW s \in Submitters, NEW j \in Jobs, AddJobCheck(s, j)
          PROVE  Frame
      BY <2>1 DEF AddJobCheck, CheckRateLimit
    <2>2. ASSUME NEW s \in Submitters, AddJobCreate(s)
          PROVE  Frame
      BY <2>2 DEF AddJobCreate, CreateJob
    <2>3. ASSUME NEW r \in Requests, NEW j \in Jobs, CancelRead(r, j) \/ RetryRead(r, j)
          PROVE  Frame
      BY <2>3 DEF CancelRead, ReadForCancel, RetryRead, ReadForRetry
    <2>4. ASSUME NEW r \in Requests, CancelWrite(r) \/ RetryWrite(r)
          PROVE  Frame
      BY <2>4 DEF CancelWrite, WriteCancelled, RetryWrite, WriteRequeued
    <2>5. ASSUME NEW j \in Jobs, GrowStale(j)
          PROVE  Frame
      BY <2>5 DEF GrowStale
    <2>6. ASSUME NEW k \in Checks, CheckStale(k) \/ Retrigger(k)
          PROVE  Frame
      BY <2>6 DEF CheckStale, Retrigger
    <2>7. CASE Restart
      BY <2>7 DEF Restart
    <2>8. QED
      BY <2>1, <2>2, <2>3, <2>4, <2>5, <2>6, <2>7 DEF Request, Fallback
  <1>2. QED
    BY <1>1, ReportFrame

(* The execution that saves a report is the first of its audit. *)
LEMMA SaveReportStep == \A e \in Executions : TypeOK /\ ReportInv /\ SaveReport(e) => ReportInv'
  <1> SUFFICES ASSUME NEW e \in Executions, TypeOK, ReportInv, SaveReport(e)
               PROVE  ReportInv'
    OBVIOUS
  <1> USE DEF SaveReport, AddReport, AuditReported, Advance, rowVars
  <1>1. /\ \A d \in Executions \ {e} : at'[d] = at[d]
        /\ UNCHANGED <<job, status>>
        /\ reported' = reported \cup ({AuditOf[job[e]]} \ {NoAudit})
        /\ AuditOf[job[e]] # NoAudit => AuditOf[job[e]] \notin reported
    BY DEF TypeOK, WorkerTypeOK
  <1>2. CompletedIsReported'
    BY <1>1 DEF ReportInv, CompletedIsReported
  <1>3. OneSaves'
    BY <1>1 DEF ReportInv, OneSaves, SavedFirst
  <1>4. SavedFirst'
    BY <1>1 DEF ReportInv, CompletedIsReported, SavedFirst, TypeOK, WorkerTypeOK
  <1>5. QED
    BY <1>2, <1>3, <1>4 DEF ReportInv

(* The execution that writes COMPLETED passes its claim on to the row. *)
LEMMA CompletedStep ==
  ASSUME TypeOK, ReportInv, NEW e \in Executions, at[e] = "complete",
         at'[e] # "complete",
         \A d \in Executions \ {e} : at'[d] = at[d] /\ job'[d] = job[d],
         \A j \in Jobs : j # job[e] => status'[j] = status[j],
         UNCHANGED reported
  PROVE  ReportInv'
  <1>1. CompletedIsReported'
    BY DEF ReportInv, CompletedIsReported, SavedFirst
  <1>2. OneSaves'
    BY DEF ReportInv, OneSaves
  <1>3. SavedFirst'
    <2> SUFFICES ASSUME NEW d \in Executions, at'[d] = "complete", AuditOf[job'[d]] # NoAudit
                 PROVE  /\ AuditOf[job'[d]] \in reported'
                        /\ \A j \in Jobs : AuditOf[j] = AuditOf[job'[d]] => status'[j] # "COMPLETED"
      BY DEF SavedFirst
    <2>1. d # e /\ at[d] = "complete" /\ job'[d] = job[d]
      OBVIOUS
    <2>2. AuditOf[job[d]] # AuditOf[job[e]]
      BY <2>1 DEF ReportInv, OneSaves
    <2>3. QED
      BY <2>1, <2>2 DEF ReportInv, SavedFirst
  <1>4. QED
    BY <1>1, <1>2, <1>3 DEF ReportInv

LEMMA WorkerReport == TypeOK /\ ReportInv /\ WorkerNext => ReportInv'
  <1> SUFFICES ASSUME TypeOK, ReportInv, WorkerNext
               PROVE  ReportInv'
    OBVIOUS
  <1> USE DEF rowVars, baseVars, executionVars
  <1>1. ASSUME NEW j \in Jobs, NEW w \in Workers, NEW e \in Executions, Accept(w, e, j)
        PROVE  ReportInv'
    <2>1. /\ \A d \in Executions : at'[d] = "complete" => at[d] = "complete" /\ job'[d] = job[d]
          /\ UNCHANGED <<status, reported>>
      BY <1>1 DEF Accept, TypeOK, WorkerTypeOK
    <2>2. QED
      BY <2>1, ReportFrame
  <1>2. ASSUME NEW j \in Jobs, Lose(j) \/ \E w \in Workers : TurnAway(w, j)
        PROVE  ReportInv'
    BY <1>2, ReportFrame DEF Lose, TurnAway
  <1>3. ASSUME NEW e \in Executions, Execute(e) \/ CallFails(e)
        PROVE  ReportInv'
    <2> USE DEF Advance, Finish, SetStatus, TypeOK, WorkerTypeOK, BaseTypeOK
    <2>1. CASE FindJob(e) \/ Skip(e) \/ MarkProcessing(e) \/ ReadFails(e) \/ MarkProcessingFails(e)
      BY <2>1, ReportFrame DEF FindJob, Skip, MarkProcessing, ReadFails, MarkProcessingFails
    <2>2. CASE ScanSucceeds(e) \/ ScanFails(e) \/ SaveRejected(e) \/ SaveReportFails(e)
      BY <2>2, ReportFrame DEF ScanSucceeds, ScanFails, SaveRejected, SaveReportFails, AddReport
    <2>3. CASE SaveReport(e)
      BY <2>3, SaveReportStep
    <2>4. CASE MarkCompleted(e) \/ MarkCompletedFails(e)
      BY <2>4, CompletedStep DEF MarkCompleted, MarkCompletedFails
    <2>5. CASE MarkFailed(e) \/ MarkFailedFails(e)
      BY <2>5, ReportFrame DEF MarkFailed, MarkFailedFails
    <2>6. QED
      BY <1>3, <2>1, <2>2, <2>3, <2>4, <2>5 DEF Execute, CallFails
  <1>4. ASSUME NEW w \in Workers, ShutDown(w)
        PROVE  ReportInv'
    BY <1>4, ReportFrame DEF ShutDown
  <1>5. ASSUME NEW w \in Workers, Exit(w)
        PROVE  ReportInv'
    BY <1>5, ExitEffect, ReportFrame
  <1>6. QED
    BY <1>1, <1>2, <1>3, <1>4, <1>5 DEF WorkerNext, Deliver

(***************************************************************************)
(* COMPLETED is only said of an audit whose report is there, and of one    *)
(* row of the audit.                                                       *)
(***************************************************************************)
THEOREM CompletedIsAlwaysReported == Spec => []CompletedIsReported
  <1>1. Init => ReportInv
    BY DEF Init, BaseInit, WorkerInit, ReportInv, CompletedIsReported, OneSaves, SavedFirst
  <1>2. TypeOK /\ ReportInv /\ [Next]_vars => ReportInv'
    <2> SUFFICES ASSUME TypeOK, ReportInv, [Next]_vars
                 PROVE  ReportInv'
      OBVIOUS
    <2>1. CASE UNCHANGED vars
      BY <2>1, ReportFrame DEF vars, rowVars, baseVars, executionVars, workerVars
    <2>2. QED
      BY <2>1, ApiReport, WorkerReport DEF Next
  <1>3. ReportInv => CompletedIsReported
    BY DEF ReportInv
  <1>4. QED
    BY <1>1, <1>2, <1>3, TypeCorrect, PTL DEF Spec

-----------------------------------------------------------------------------
(***************************************************************************)
(* Of capacity.  Only Accept adds to what an instance has to do; on an     *)
(* instance that is not crowded all it had accepted was in activeJobs when *)
(* the test was made.                                                      *)
(***************************************************************************)
Busy(w) == {e \in Executions : on[e] = w /\ at[e] # "idle"}

CapacityInv == \A w \in Workers : w \notin crowded => Cardinality(Busy(w)) <= MAX_CONCURRENT

LEMMA BusyIsFinite ==
  \A w \in Workers : IsFiniteSet(Busy(w)) /\ Cardinality(Busy(w)) \in Nat
  BY ScanWorkerAssumption, FS_Subset, FS_CardinalityType DEF Busy

LEMMA BusyIsFiniteNext ==
  \A w \in Workers : IsFiniteSet(Busy(w)') /\ Cardinality(Busy(w)') \in Nat
  BY ScanWorkerAssumption, FS_Subset, FS_CardinalityType DEF Busy

LEMMA CapacityFrame ==
  ASSUME CapacityInv,
         crowded \subseteq crowded',
         \A e \in Executions : at'[e] # "idle" => at[e] # "idle" /\ on'[e] = on[e]
  PROVE  CapacityInv'
  <1> SUFFICES ASSUME NEW w \in Workers, w \notin crowded'
               PROVE  Cardinality(Busy(w)') <= MAX_CONCURRENT
    BY DEF CapacityInv
  <1>1. Busy(w)' \subseteq Busy(w)
    BY DEF Busy
  <1>2. Cardinality(Busy(w)') <= Cardinality(Busy(w))
    BY <1>1, BusyIsFinite, FS_Subset
  <1>3. Cardinality(Busy(w)) <= MAX_CONCURRENT
    BY DEF CapacityInv
  <1>4. QED
    BY <1>2, <1>3, BusyIsFinite, BusyIsFiniteNext, ScanWorkerAssumption

LEMMA AcceptCapacity ==
  ASSUME TypeOK, CapacityInv, NEW w \in Workers, NEW e \in Executions, NEW j \in Jobs, Accept(w, e, j)
  PROVE  CapacityInv'
  <1> SUFFICES ASSUME NEW v \in Workers, v \notin crowded'
               PROVE  Cardinality(Busy(v)') <= MAX_CONCURRENT
    BY DEF CapacityInv
  <1>1. /\ at[e] = "idle" /\ at'[e] = "read" /\ on'[e] = w
        /\ \A d \in Executions \ {e} : at'[d] = at[d] /\ on'[d] = on[d]
        /\ v \notin crowded
        /\ activeJobs(w) < MAX_CONCURRENT
    BY DEF Accept, HasCapacity, TypeOK, WorkerTypeOK
  <1>2. CASE v # w
    <2>1. Busy(v)' = Busy(v)
      BY <1>1, <1>2 DEF Busy
    <2>2. QED
      BY <1>1, <2>1 DEF CapacityInv
  <1>3. CASE v = w
    <2>1. \A f \in Executions : on[f] = w => at[f] \notin Accepted
      BY <1>3 DEF Accept
    <2>2. Busy(w) = {f \in Executions : on[f] = w /\ at[f] \in Counted}
      BY <2>1 DEF Busy, TypeOK, WorkerTypeOK, Counted
    <2>3. Busy(w)' = Busy(w) \cup {e} /\ e \notin Busy(w)
      BY <1>1 DEF Busy
    <2>4. Cardinality(Busy(w) \cup {e}) = Cardinality(Busy(w)) + 1
      BY <2>3, BusyIsFinite, FS_AddElement
    <2>5. Cardinality(Busy(w)) < MAX_CONCURRENT
      BY <1>1, <2>2 DEF activeJobs
    <2>6. QED
      BY <1>3, <2>3, <2>4, <2>5, BusyIsFinite, ScanWorkerAssumption
  <1>4. QED
    BY <1>2, <1>3

LEMMA ApiCapacity == CapacityInv /\ (Request \/ Fallback) => CapacityInv'
  <1> SUFFICES ASSUME CapacityInv, Request \/ Fallback
               PROVE  CapacityInv'
    OBVIOUS
  <1>1. UNCHANGED <<at, on, crowded>>
    <2> USE DEF executionVars, workerVars
    <2>1. ASSUME NEW s \in Submitters, NEW j \in Jobs, AddJobCheck(s, j)
          PROVE  UNCHANGED <<at, on, crowded>>
      BY <2>1 DEF AddJobCheck
    <2>2. ASSUME NEW s \in Submitters, AddJobCreate(s)
          PROVE  UNCHANGED <<at, on, crowded>>
      BY <2>2 DEF AddJobCreate
    <2>3. ASSUME NEW r \in Requests, NEW j \in Jobs, CancelRead(r, j) \/ RetryRead(r, j)
          PROVE  UNCHANGED <<at, on, crowded>>
      BY <2>3 DEF CancelRead, RetryRead
    <2>4. ASSUME NEW r \in Requests, CancelWrite(r) \/ RetryWrite(r)
          PROVE  UNCHANGED <<at, on, crowded>>
      BY <2>4 DEF CancelWrite, RetryWrite
    <2>5. ASSUME NEW j \in Jobs, GrowStale(j)
          PROVE  UNCHANGED <<at, on, crowded>>
      BY <2>5 DEF GrowStale
    <2>6. ASSUME NEW k \in Checks, CheckStale(k) \/ Retrigger(k)
          PROVE  UNCHANGED <<at, on, crowded>>
      BY <2>6 DEF CheckStale, Retrigger
    <2>7. CASE Restart
      BY <2>7 DEF Restart
    <2>8. QED
      BY <2>1, <2>2, <2>3, <2>4, <2>5, <2>6, <2>7 DEF Request, Fallback
  <1>2. QED
    BY <1>1, CapacityFrame

LEMMA WorkerCapacity == TypeOK /\ CapacityInv /\ WorkerNext => CapacityInv'
  <1> SUFFICES ASSUME TypeOK, CapacityInv, WorkerNext
               PROVE  CapacityInv'
    OBVIOUS
  <1> USE DEF executionVars, outsideVars
  <1>1. ASSUME NEW j \in Jobs, NEW w \in Workers, NEW e \in Executions, Accept(w, e, j)
        PROVE  CapacityInv'
    BY <1>1, AcceptCapacity
  <1>2. ASSUME NEW j \in Jobs, Lose(j) \/ \E w \in Workers : TurnAway(w, j)
        PROVE  CapacityInv'
    BY <1>2, CapacityFrame DEF Lose, TurnAway
  <1>3. ASSUME NEW e \in Executions, Execute(e) \/ CallFails(e)
        PROVE  CapacityInv'
    <2> USE DEF Advance, Finish, TypeOK, WorkerTypeOK
    <2>1. CASE FindJob(e) \/ Skip(e) \/ MarkProcessing(e) \/ ReadFails(e) \/ MarkProcessingFails(e)
      BY <2>1, CapacityFrame DEF FindJob, Skip, MarkProcessing, ReadFails, MarkProcessingFails
    <2>2. CASE ScanSucceeds(e) \/ ScanFails(e) \/ SaveReport(e) \/ SaveRejected(e) \/ SaveReportFails(e)
      BY <2>2, CapacityFrame DEF ScanSucceeds, ScanFails, SaveReport, SaveRejected, SaveReportFails
    <2>3. CASE MarkCompleted(e) \/ MarkCompletedFails(e) \/ MarkFailed(e) \/ MarkFailedFails(e)
      BY <2>3, CapacityFrame DEF MarkCompleted, MarkCompletedFails, MarkFailed, MarkFailedFails
    <2>4. QED
      BY <1>3, <2>1, <2>2, <2>3 DEF Execute, CallFails
  <1>4. ASSUME NEW w \in Workers, ShutDown(w)
        PROVE  CapacityInv'
    BY <1>4, CapacityFrame DEF ShutDown
  <1>5. ASSUME NEW w \in Workers, Exit(w)
        PROVE  CapacityInv'
    BY <1>5, ExitEffect, CapacityFrame
  <1>6. QED
    BY <1>1, <1>2, <1>3, <1>4, <1>5 DEF WorkerNext, Deliver

(***************************************************************************)
(* An instance that has accepted its scans one at a time never has more    *)
(* than MAX_CONCURRENT of them in activeJobs.                              *)
(***************************************************************************)
THEOREM CapacityIsKept == Spec => []WithinCapacity
  <1>1. Init => CapacityInv
    <2> SUFFICES ASSUME Init, NEW w \in Workers
                 PROVE  Cardinality(Busy(w)) <= MAX_CONCURRENT
      BY DEF CapacityInv
    <2>1. Busy(w) = {}
      BY DEF Init, WorkerInit, Busy
    <2>2. QED
      BY <2>1, FS_EmptySet, ScanWorkerAssumption
  <1>2. TypeOK /\ CapacityInv /\ [Next]_vars => CapacityInv'
    <2> SUFFICES ASSUME TypeOK, CapacityInv, [Next]_vars
                 PROVE  CapacityInv'
      OBVIOUS
    <2>1. CASE UNCHANGED vars
      BY <2>1, CapacityFrame DEF vars, executionVars, workerVars
    <2>2. QED
      BY <2>1, ApiCapacity, WorkerCapacity DEF Next
  <1>3. CapacityInv => WithinCapacity
    <2> SUFFICES ASSUME CapacityInv, NEW w \in Workers, w \notin crowded
                 PROVE  activeJobs(w) <= MAX_CONCURRENT
      BY DEF WithinCapacity
    <2> DEFINE counted == {e \in Executions : on[e] = w /\ at[e] \in Counted}
    <2>1. counted \subseteq Busy(w)
      BY DEF Busy, Counted
    <2>2. IsFiniteSet(counted) /\ Cardinality(counted) \in Nat /\ Cardinality(counted) <= Cardinality(Busy(w))
      BY <2>1, BusyIsFinite, FS_Subset, FS_CardinalityType
    <2>3. Cardinality(Busy(w)) <= MAX_CONCURRENT
      BY DEF CapacityInv
    <2>4. QED
      BY <2>2, <2>3, BusyIsFinite, ScanWorkerAssumption DEF activeJobs
  <1>4. QED
    BY <1>1, <1>2, <1>3, TypeCorrect, PTL DEF Spec

-----------------------------------------------------------------------------
(***************************************************************************)
(* Of triggers.  A row that is not there yet has none, addJob creates a    *)
(* row once and sends one, and whatever else sends one is marked.          *)
(***************************************************************************)
AbsentIsUnknown ==
    \A j \in Jobs : status[j] = "ABSENT" =>
        /\ posts[j] = 0
        /\ \A e \in Executions : job[e] # j
        /\ \A r \in Requests : reqOp[r] # "none" => reqJob[r] # j
        /\ \A k \in Checks : j \notin todo[k]

AddingIsNew ==
    /\ \A s \in Submitters : adding[s] # NoJob => status[adding[s]] = "ABSENT"
    /\ \A s, t \in Submitters : adding[s] # NoJob /\ adding[s] = adding[t] => s = t

OneTrigger ==
    \A j \in Jobs : "askedAgain" \notin history[j] =>
        /\ posts[j] <= 1
        /\ posts[j] = 1 => \A e \in Executions : job[e] # j
        /\ \A d, e \in Executions : job[d] = j /\ job[e] = j => d = e

TriggerInv == AbsentIsUnknown /\ AddingIsNew /\ OneTrigger

(* A step that creates no row, sends nothing and starts nothing. *)
LEMMA TriggerFrame ==
  ASSUME TypeOK, TypeOK', TriggerInv,
         UNCHANGED <<adding, reqOp, reqJob, todo>>,
         \A j \in Jobs : status'[j] = "ABSENT" <=> status[j] = "ABSENT",
         \A j \in Jobs : posts'[j] <= posts[j],
         \A e \in Executions : job'[e] = job[e] \/ job'[e] = NoJob,
         \A j \in Jobs : history[j] \subseteq history'[j]
  PROVE  TriggerInv'
  <1>1. AbsentIsUnknown'
    BY JobsAssumption DEF TriggerInv, AbsentIsUnknown, TypeOK, WorkerTypeOK
  <1>2. AddingIsNew'
    BY DEF TriggerInv, AddingIsNew, TypeOK, BaseTypeOK
  <1>3. OneTrigger'
    BY JobsAssumption DEF TriggerInv, OneTrigger, TypeOK, WorkerTypeOK
  <1>4. QED
    BY <1>1, <1>2, <1>3 DEF TriggerInv

(* The trigger of addJob is the first of its row. *)
LEMMA CreateTrigger ==
  \A s \in Submitters : TypeOK /\ TriggerInv /\ AddJobCreate(s) => TriggerInv'
  <1> SUFFICES ASSUME NEW s \in Submitters, TypeOK, TriggerInv, AddJobCreate(s)
               PROVE  TriggerInv'
    OBVIOUS
  <1> USE DEF TypeOK, BaseTypeOK, WorkerTypeOK
  <1>1. PICK j \in Jobs : j = adding[s]
    BY DEF AddJobCreate, CreateJob
  <1>2. /\ status' = [status EXCEPT ![j] = "QUEUED"]
        /\ posts' = [posts EXCEPT ![j] = @ + 1]
        /\ adding' = [adding EXCEPT ![s] = NoJob]
        /\ UNCHANGED <<reqOp, reqJob, job, history, todo>>
    BY <1>1 DEF AddJobCreate, CreateJob, Send, executionVars, fallbackVars
  <1>3. /\ status[j] = "ABSENT" /\ posts[j] = 0
        /\ \A e \in Executions : job[e] # j
    BY <1>1, JobsAssumption DEF TriggerInv, AbsentIsUnknown, AddingIsNew
  <1>4. AbsentIsUnknown'
    BY <1>2 DEF TriggerInv, AbsentIsUnknown
  <1>5. AddingIsNew'
    BY <1>1, <1>2 DEF TriggerInv, AddingIsNew
  <1>6. OneTrigger'
    BY <1>2, <1>3 DEF TriggerInv, OneTrigger
  <1>7. QED
    BY <1>4, <1>5, <1>6 DEF TriggerInv

(* Whoever asks again knows the row, and says so. *)
LEMMA AskAgain ==
  ASSUME TypeOK, TypeOK', TriggerInv, NEW j \in Jobs, status[j] # "ABSENT",
         posts' = [posts EXCEPT ![j] = @ + 1],
         "askedAgain" \in history'[j],
         \A i \in Jobs : history[i] \subseteq history'[i],
         \A i \in Jobs : status'[i] = "ABSENT" <=> status[i] = "ABSENT",
         \A r \in Requests : reqOp'[r] # "none" => reqOp[r] # "none" /\ reqJob'[r] = reqJob[r],
         \A k \in Checks : todo'[k] \subseteq todo[k],
         UNCHANGED <<adding, job>>
  PROVE  TriggerInv'
  <1>1. \A i \in Jobs : i # j => posts'[i] = posts[i]
    BY DEF TypeOK, WorkerTypeOK
  <1>2. AbsentIsUnknown'
    BY <1>1 DEF TriggerInv, AbsentIsUnknown
  <1>3. AddingIsNew'
    BY DEF TriggerInv, AddingIsNew, TypeOK, BaseTypeOK
  <1>4. OneTrigger'
    BY <1>1 DEF TriggerInv, OneTrigger
  <1>5. QED
    BY <1>2, <1>3, <1>4 DEF TriggerInv

LEMMA ApiTrigger == TypeOK /\ TypeOK' /\ TriggerInv /\ (Request \/ Fallback) => TriggerInv'
  <1> SUFFICES ASSUME TypeOK, TypeOK', TriggerInv, Request \/ Fallback
               PROVE  TriggerInv'
    OBVIOUS
  <1> USE DEF rowVars, requestVars, baseVars, executionVars, workerVars, fallbackVars
  <1>1. ASSUME NEW s \in Submitters, NEW j \in Jobs, AddJobCheck(s, j)
        PROVE  TriggerInv'
    BY <1>1 DEF AddJobCheck, CheckRateLimit, TriggerInv, AbsentIsUnknown, AddingIsNew, OneTrigger,
                TypeOK, BaseTypeOK
  <1>2. ASSUME NEW s \in Submitters, AddJobCreate(s)
        PROVE  TriggerInv'
    BY <1>2, CreateTrigger
  <1>3. ASSUME NEW r \in Requests, NEW j \in Jobs, CancelRead(r, j) \/ RetryRead(r, j)
        PROVE  TriggerInv'
    BY <1>3 DEF CancelRead, ReadForCancel, RetryRead, ReadForRetry, TriggerInv, AbsentIsUnknown,
                AddingIsNew, OneTrigger, TypeOK, BaseTypeOK
  <1>4. ASSUME NEW r \in Requests, CancelWrite(r)
        PROVE  TriggerInv'
    BY <1>4, JobsAssumption DEF CancelWrite, WriteCancelled, TriggerInv, AbsentIsUnknown, AddingIsNew,
                OneTrigger, TypeOK, BaseTypeOK
  <1>5. ASSUME NEW r \in Requests, RetryWrite(r)
        PROVE  TriggerInv'
    <2>1. reqJob[r] \in Jobs /\ status[reqJob[r]] # "ABSENT"
      BY <1>5 DEF RetryWrite, WriteRequeued, TriggerInv, AbsentIsUnknown, TypeOK, BaseTypeOK
    <2>2. "askedAgain" \in history'[reqJob[r]] /\ \A i \in Jobs : history[i] \subseteq history'[i]
      BY <1>5, <2>1 DEF RetryWrite, Note
    <2>3. /\ \A i \in Jobs : status'[i] = "ABSENT" <=> status[i] = "ABSENT"
          /\ \A q \in Requests : reqOp'[q] # "none" => reqOp[q] # "none" /\ reqJob'[q] = reqJob[q]
          /\ posts' = [posts EXCEPT ![reqJob[r]] = @ + 1]
          /\ UNCHANGED <<todo, adding, job>>
      BY <1>5, <2>1 DEF RetryWrite, WriteRequeued, Send, TypeOK, BaseTypeOK
    <2>4. QED
      BY <2>1, <2>2, <2>3, AskAgain
  <1>6. ASSUME NEW j \in Jobs, GrowStale(j)
        PROVE  TriggerInv'
    BY <1>6 DEF GrowStale, TriggerInv, AbsentIsUnknown, AddingIsNew, OneTrigger
  <1>7. ASSUME NEW k \in Checks, CheckStale(k)
        PROVE  TriggerInv'
    BY <1>7 DEF CheckStale, StaleJobs, TriggerInv, AbsentIsUnknown, AddingIsNew, OneTrigger, TypeOK
  <1>8. ASSUME NEW k \in Checks, Retrigger(k)
        PROVE  TriggerInv'
    <2>1. PICK j \in todo[k] : /\ Send(j)
                               /\ todo' = [todo EXCEPT ![k] = @ \ {j}]
                               /\ Note("askedAgain", {j})
      BY <1>8 DEF Retrigger
    <2>2. j \in Jobs /\ status[j] # "ABSENT"
      BY DEF TriggerInv, AbsentIsUnknown, TypeOK
    <2>3. "askedAgain" \in history'[j] /\ \A i \in Jobs : history[i] \subseteq history'[i]
      BY <2>1, <2>2 DEF Note
    <2>4. /\ \A l \in Checks : todo'[l] \subseteq todo[l]
          /\ posts' = [posts EXCEPT ![j] = @ + 1]
          /\ UNCHANGED <<status, reqOp, reqJob, adding, job>>
      BY <1>8, <2>1 DEF Retrigger, Send, TypeOK
    <2>5. QED
      BY <2>2, <2>3, <2>4, AskAgain
  <1>9. CASE Restart
    BY <1>9 DEF Restart, DropRequests, TriggerInv, AbsentIsUnknown, AddingIsNew, OneTrigger
  <1>10. QED
    BY <1>1, <1>2, <1>3, <1>4, <1>5, <1>6, <1>7, <1>8, <1>9 DEF Request, Fallback

LEMMA WorkerTrigger ==
  TypeOK /\ TypeOK' /\ TriggerInv /\ WorkerNext /\ UNCHANGED fallbackVars => TriggerInv'
  <1> SUFFICES ASSUME TypeOK, TypeOK', TriggerInv, WorkerNext, UNCHANGED fallbackVars
               PROVE  TriggerInv'
    OBVIOUS
  <1> USE DEF rowVars, requestVars, baseVars, executionVars, outsideVars, fallbackVars
  <1>1. ASSUME NEW j \in Jobs, NEW w \in Workers, NEW e \in Executions, Accept(w, e, j)
        PROVE  TriggerInv'
    <2>1. /\ posts[j] > 0 /\ posts' = [posts EXCEPT ![j] = @ - 1]
          /\ job' = [job EXCEPT ![e] = j]
          /\ UNCHANGED <<adding, reqOp, reqJob, todo, status, history>>
      BY <1>1 DEF Accept, Received
    <2>2. AbsentIsUnknown'
      BY <2>1 DEF TriggerInv, AbsentIsUnknown, TypeOK, WorkerTypeOK
    <2>3. AddingIsNew'
      BY <2>1 DEF TriggerInv, AddingIsNew
    <2>4. OneTrigger'
      <3> SUFFICES ASSUME NEW i \in Jobs, "askedAgain" \notin history[i]
                   PROVE  /\ posts'[i] <= 1
                          /\ posts'[i] = 1 => \A d \in Executions : job'[d] # i
                          /\ \A c, d \in Executions : job'[c] = i /\ job'[d] = i => c = d
        BY <2>1 DEF OneTrigger
      <3>1. /\ posts[i] \in Nat /\ posts[i] <= 1
            /\ posts[i] = 1 => \A d \in Executions : job[d] # i
            /\ \A c, d \in Executions : job[c] = i /\ job[d] = i => c = d
        BY DEF TriggerInv, OneTrigger, TypeOK, WorkerTypeOK
      <3>2. \A d \in Executions : job'[d] = IF d = e THEN j ELSE job[d]
        BY <2>1 DEF TypeOK, WorkerTypeOK
      <3>3. CASE i = j
        <4>1. posts[i] = 1 /\ posts'[i] = 0
          BY <2>1, <3>1, <3>3 DEF TypeOK, WorkerTypeOK
        <4>2. QED
          BY <3>1, <3>2, <4>1
      <3>4. CASE i # j
        <4>1. posts'[i] = posts[i]
          BY <2>1, <3>4 DEF TypeOK, WorkerTypeOK
        <4>2. QED
          BY <3>1, <3>2, <3>4, <4>1
      <3>5. QED
        BY <3>3, <3>4
    <2>5. QED
      BY <2>2, <2>3, <2>4 DEF TriggerInv
  <1>2. ASSUME NEW j \in Jobs, Lose(j) \/ \E w \in Workers : TurnAway(w, j)
        PROVE  TriggerInv'
    <2>1. \A i \in Jobs : posts'[i] <= posts[i]
      BY <1>2 DEF Lose, TurnAway, Received, TypeOK, WorkerTypeOK
    <2>2. UNCHANGED <<adding, reqOp, reqJob, todo, status, job, history>>
      BY <1>2 DEF Lose, TurnAway
    <2>3. QED
      BY <2>1, <2>2, TriggerFrame
  <1>3. ASSUME NEW e \in Executions, Execute(e) \/ CallFails(e)
        PROVE  TriggerInv'
    <2> DEFINE Frame == /\ UNCHANGED <<adding, reqOp, reqJob, todo, posts>>
                        /\ \A j \in Jobs : j # job[e] => status'[j] = status[j]
                        /\ status'[job[e]] = status[job[e]] \/ status'[job[e]] # "ABSENT"
                        /\ \A d \in Executions : job'[d] = job[d] \/ job'[d] = NoJob
                        /\ \A j \in Jobs : history[j] \subseteq history'[j]
                        /\ job[e] \in Jobs
    <2>1. Frame
      <3> USE DEF Advance, Finish, SetStatus, Note, TypeOK, WorkerTypeOK, BaseTypeOK
      <3>1. CASE FindJob(e) \/ Skip(e) \/ MarkProcessing(e) \/ ReadFails(e)
        BY <3>1 DEF FindJob, Skip, MarkProcessing, ReadFails
      <3>2. CASE MarkProcessingFails(e)
        BY <3>2 DEF MarkProcessingFails
      <3>3. CASE ScanSucceeds(e) \/ ScanFails(e) \/ SaveReport(e) \/ SaveRejected(e) \/ SaveReportFails(e)
        BY <3>3 DEF ScanSucceeds, ScanFails, SaveReport, SaveRejected, SaveReportFails
      <3>4. CASE MarkCompleted(e) \/ MarkFailed(e) \/ MarkFailedFails(e)
        BY <3>4 DEF MarkCompleted, MarkFailed, MarkFailedFails
      <3>5. CASE MarkCompletedFails(e)
        BY <3>5 DEF MarkCompletedFails
      <3>6. QED
        BY <1>3, <3>1, <3>2, <3>3, <3>4, <3>5 DEF Execute, CallFails
    <2>2. status[job[e]] # "ABSENT"
      BY <2>1 DEF TriggerInv, AbsentIsUnknown
    <2>3. QED
      BY <2>1, <2>2, TriggerFrame DEF TypeOK, WorkerTypeOK
  <1>4. ASSUME NEW w \in Workers, ShutDown(w)
        PROVE  TriggerInv'
    BY <1>4, TriggerFrame DEF ShutDown, TypeOK, WorkerTypeOK
  <1>5. ASSUME NEW w \in Workers, Exit(w)
        PROVE  TriggerInv'
    BY <1>5, ExitEffect, TriggerFrame DEF TypeOK, WorkerTypeOK
  <1>6. QED
    BY <1>1, <1>2, <1>3, <1>4, <1>5 DEF WorkerNext, Deliver

(***************************************************************************)
(* A row that was asked for once has one execution at most: requests that  *)
(* are lost or turned away, faults and restarts do not multiply it.        *)
(***************************************************************************)
THEOREM OneExecutionForOneTrigger == Spec => []OneExecutionPerTrigger
  <1>1. Init => TriggerInv
    BY JobsAssumption DEF Init, BaseInit, WorkerInit, TriggerInv, AbsentIsUnknown, AddingIsNew,
                          OneTrigger
  <1>2. TypeOK /\ TypeOK' /\ TriggerInv /\ [Next]_vars => TriggerInv'
    <2> SUFFICES ASSUME TypeOK, TypeOK', TriggerInv, [Next]_vars
                 PROVE  TriggerInv'
      OBVIOUS
    <2>1. CASE UNCHANGED vars
      BY <2>1 DEF vars, rowVars, requestVars, baseVars, executionVars, workerVars, fallbackVars,
                  TriggerInv, AbsentIsUnknown, AddingIsNew, OneTrigger
    <2>2. QED
      BY <2>1, ApiTrigger, WorkerTrigger DEF Next
  <1>3. TypeOK /\ TriggerInv => OneExecutionPerTrigger
    BY DEF TypeOK, WorkerTypeOK, TriggerInv, OneTrigger, OneExecutionPerTrigger
  <1>4. QED
    BY <1>1, <1>2, <1>3, TypeCorrect, PTL DEF Spec

-----------------------------------------------------------------------------
(***************************************************************************)
(* Of outcomes.  When a row that was asked for once has its outcome, or a  *)
(* replay of it is on its way, nothing works on it any more.               *)
(***************************************************************************)
PendingRetry(j) == \E r \in Requests : reqOp[r] = "retry" /\ reqJob[r] = j

Quiet(j) == posts[j] = 0 /\ \A e \in Executions : job[e] # j

FinalInv ==
    \A j \in Jobs : "askedAgain" \notin history[j] =>
        /\ status[j] = "FAILED" => Quiet(j)
        /\ status[j] = "COMPLETED" /\ "lostAck" \notin history[j] => Quiet(j)
        /\ PendingRetry(j) => Quiet(j) /\ status[j] # "COMPLETED"

(* A step that writes no outcome, and sends nothing for a row that is there and not marked. *)
LEMMA FinalFrame ==
  ASSUME TypeOK, TypeOK', TriggerInv, FinalInv,
         \A j \in Jobs : history[j] \subseteq history'[j],
         \A j \in Jobs : "askedAgain" \notin history'[j] /\ status[j] # "ABSENT" => posts'[j] <= posts[j],
         \A e \in Executions : job'[e] = job[e] \/ job'[e] = NoJob \/ posts[job'[e]] > 0,
         \A j \in Jobs : status'[j] = status[j] \/ status'[j] \notin {"COMPLETED", "FAILED"},
         \A r \in Requests : reqOp'[r] = "retry" =>
             \/ reqOp[r] = "retry" /\ reqJob'[r] = reqJob[r]
             \/ status[reqJob'[r]] = "FAILED" /\ UNCHANGED status
  PROVE  FinalInv'
  <1> SUFFICES ASSUME NEW j \in Jobs, "askedAgain" \notin history'[j]
               PROVE  /\ status'[j] = "FAILED" => Quiet(j)'
                      /\ status'[j] = "COMPLETED" /\ "lostAck" \notin history'[j] => Quiet(j)'
                      /\ PendingRetry(j)' => Quiet(j)' /\ status'[j] # "COMPLETED"
    BY DEF FinalInv
  <1>1. /\ status[j] = "FAILED" => Quiet(j)
        /\ status[j] = "COMPLETED" /\ "lostAck" \notin history[j] => Quiet(j)
        /\ PendingRetry(j) => Quiet(j) /\ status[j] # "COMPLETED" /\ status[j] # "ABSENT"
    BY DEF FinalInv, TriggerInv, AbsentIsUnknown, PendingRetry
  <1>2. Quiet(j) /\ status[j] # "ABSENT" => Quiet(j)'
    BY JobsAssumption DEF Quiet, TypeOK, WorkerTypeOK
  <1>3. PendingRetry(j)' => PendingRetry(j) \/ (status[j] = "FAILED" /\ status'[j] = "FAILED")
    <2> SUFFICES ASSUME NEW r \in Requests, reqOp'[r] = "retry", reqJob'[r] = j
                 PROVE  PendingRetry(j) \/ (status[j] = "FAILED" /\ status'[j] = "FAILED")
      BY DEF PendingRetry
    <2>1. CASE reqOp[r] = "retry" /\ reqJob'[r] = reqJob[r]
      BY <2>1 DEF PendingRetry
    <2>2. CASE status[reqJob'[r]] = "FAILED" /\ UNCHANGED status
      BY <2>2
    <2>3. QED
      BY <2>1, <2>2
  <1>4. QED
    BY <1>1, <1>2, <1>3

(* An execution that writes an outcome ends, or marks the row. *)
LEMMA OutcomeStep ==
  ASSUME TypeOK, TypeOK', TriggerInv, FinalInv, NEW e \in Executions, job[e] \in Jobs,
         job'[e] = NoJob \/ (status'[job[e]] = "COMPLETED" /\ "lostAck" \in history'[job[e]]),
         \A d \in Executions \ {e} : job'[d] = job[d],
         job'[e] = NoJob \/ job'[e] = job[e],
         \A j \in Jobs : j # job[e] => status'[j] = status[j],
         \A j \in Jobs : history[j] \subseteq history'[j],
         UNCHANGED <<posts, reqOp, reqJob>>
  PROVE  FinalInv'
  <1> SUFFICES ASSUME NEW j \in Jobs, "askedAgain" \notin history'[j]
               PROVE  /\ status'[j] = "FAILED" => Quiet(j)'
                      /\ status'[j] = "COMPLETED" /\ "lostAck" \notin history'[j] => Quiet(j)'
                      /\ PendingRetry(j)' => Quiet(j)' /\ status'[j] # "COMPLETED"
    BY DEF FinalInv
  <1>1. /\ status[j] = "FAILED" => Quiet(j)
        /\ status[j] = "COMPLETED" /\ "lostAck" \notin history[j] => Quiet(j)
        /\ PendingRetry(j) => Quiet(j) /\ status[j] # "COMPLETED"
    BY DEF FinalInv
  <1>2. PendingRetry(j)' => PendingRetry(j)
    BY DEF PendingRetry
  <1>3. CASE j # job[e]
    <2>1. Quiet(j) => Quiet(j)'
      BY <1>3, JobsAssumption DEF Quiet
    <2>2. QED
      BY <1>1, <1>2, <1>3, <2>1
  <1>4. CASE j = job[e]
    <2>1. ~PendingRetry(j)'
      BY <1>1, <1>2, <1>4 DEF Quiet
    <2>2. posts[j] = 0 /\ \A d \in Executions : job[d] = j => d = e
      <3>1. "askedAgain" \notin history[j]
        OBVIOUS
      <3>2. /\ posts[j] \in Nat /\ posts[j] <= 1 /\ posts[j] # 1
            /\ \A d \in Executions : job[d] = j => d = e
        BY <1>4, <3>1 DEF TriggerInv, OneTrigger, TypeOK, WorkerTypeOK
      <3>3. QED
        BY <3>2
    <2>3. job'[e] = NoJob => Quiet(j)'
      BY <2>2, JobsAssumption DEF Quiet
    <2>4. QED
      BY <1>4, <2>1, <2>3
  <1>5. QED
    BY <1>3, <1>4

LEMMA ApiFinal == TypeOK /\ TypeOK' /\ TriggerInv /\ FinalInv /\ (Request \/ Fallback) => FinalInv'
  <1> SUFFICES ASSUME TypeOK, TypeOK', TriggerInv, FinalInv, Request \/ Fallback
               PROVE  FinalInv'
    OBVIOUS
  <1> USE DEF rowVars, requestVars, baseVars, executionVars, workerVars, fallbackVars, TypeOK,
              BaseTypeOK, WorkerTypeOK
  <1>1. ASSUME NEW s \in Submitters, NEW j \in Jobs, AddJobCheck(s, j)
        PROVE  FinalInv'
    BY <1>1, FinalFrame DEF AddJobCheck, CheckRateLimit
  <1>2. ASSUME NEW s \in Submitters, AddJobCreate(s)
        PROVE  FinalInv'
    <2>1. PICK j \in Jobs : j = adding[s] /\ status[j] = "ABSENT"
      BY <1>2 DEF AddJobCreate, CreateJob, TriggerInv, AddingIsNew
    <2>2. /\ status' = [status EXCEPT ![j] = "QUEUED"]
          /\ posts' = [posts EXCEPT ![j] = @ + 1]
          /\ UNCHANGED <<reqOp, reqJob, job, history>>
      BY <1>2, <2>1 DEF AddJobCreate, CreateJob, Send
    <2>3. QED
      BY <2>1, <2>2, FinalFrame
  <1>3. ASSUME NEW r \in Requests, NEW j \in Jobs, CancelRead(r, j) \/ RetryRead(r, j)
        PROVE  FinalInv'
    BY <1>3, FinalFrame DEF CancelRead, ReadForCancel, RetryRead, ReadForRetry
  <1>4. ASSUME NEW r \in Requests, CancelWrite(r)
        PROVE  FinalInv'
    BY <1>4, FinalFrame DEF CancelWrite, WriteCancelled
  <1>5. ASSUME NEW r \in Requests, RetryWrite(r)
        PROVE  FinalInv'
    <2>1. /\ reqJob[r] \in Jobs
          /\ \A i \in Jobs : history[i] \subseteq history'[i]
          /\ "askedAgain" \in history'[reqJob[r]]
      BY <1>5 DEF RetryWrite, WriteRequeued, Note
    <2>2. /\ posts' = [posts EXCEPT ![reqJob[r]] = @ + 1]
          /\ status' = [status EXCEPT ![reqJob[r]] = "QUEUED"]
          /\ \A q \in Requests : reqOp'[q] = "retry" => reqOp[q] = "retry" /\ reqJob'[q] = reqJob[q]
          /\ UNCHANGED job
      BY <1>5, <2>1 DEF RetryWrite, WriteRequeued, Send
    <2>3. QED
      BY <2>1, <2>2, FinalFrame
  <1>6. ASSUME NEW j \in Jobs, GrowStale(j)
        PROVE  FinalInv'
    BY <1>6, FinalFrame DEF GrowStale
  <1>7. ASSUME NEW k \in Checks, CheckStale(k)
        PROVE  FinalInv'
    BY <1>7, FinalFrame DEF CheckStale
  <1>8. ASSUME NEW k \in Checks, Retrigger(k)
        PROVE  FinalInv'
    <2>1. PICK j \in todo[k] : Send(j) /\ Note("askedAgain", {j})
      BY <1>8 DEF Retrigger
    <2>2. j \in Jobs /\ "askedAgain" \in history'[j] /\ \A i \in Jobs : history[i] \subseteq history'[i]
      BY <2>1 DEF Note
    <2>3. posts' = [posts EXCEPT ![j] = @ + 1] /\ UNCHANGED <<status, reqOp, reqJob, job>>
      BY <1>8, <2>1 DEF Retrigger, Send
    <2>4. QED
      BY <2>2, <2>3, FinalFrame
  <1>9. CASE Restart
    BY <1>9, FinalFrame DEF Restart, DropRequests
  <1>10. QED
    BY <1>1, <1>2, <1>3, <1>4, <1>5, <1>6, <1>7, <1>8, <1>9 DEF Request, Fallback

LEMMA WorkerFinal ==
  TypeOK /\ TypeOK' /\ TriggerInv /\ FinalInv /\ WorkerNext => FinalInv'
  <1> SUFFICES ASSUME TypeOK, TypeOK', TriggerInv, FinalInv, WorkerNext
               PROVE  FinalInv'
    OBVIOUS
  <1> USE DEF rowVars, requestVars, baseVars, executionVars, outsideVars
  <1>1. ASSUME NEW j \in Jobs, NEW w \in Workers, NEW e \in Executions, Accept(w, e, j)
        PROVE  FinalInv'
    <2>1. /\ posts[j] > 0
          /\ \A i \in Jobs : posts'[i] <= posts[i]
          /\ \A d \in Executions : job'[d] = job[d] \/ job'[d] = j
          /\ UNCHANGED <<status, reqOp, reqJob, history>>
      BY <1>1 DEF Accept, Received, TypeOK, WorkerTypeOK
    <2>2. QED
      BY <2>1, FinalFrame
  <1>2. ASSUME NEW j \in Jobs, Lose(j) \/ \E w \in Workers : TurnAway(w, j)
        PROVE  FinalInv'
    <2>1. /\ \A i \in Jobs : posts'[i] <= posts[i]
          /\ UNCHANGED <<status, reqOp, reqJob, job, history>>
      BY <1>2 DEF Lose, TurnAway, Received, TypeOK, WorkerTypeOK
    <2>2. QED
      BY <2>1, FinalFrame
  <1>3. ASSUME NEW e \in Executions, Execute(e) \/ CallFails(e)
        PROVE  FinalInv'
    <2> USE DEF Advance, Finish, SetStatus, Note, TypeOK, WorkerTypeOK, BaseTypeOK
    <2>1. CASE FindJob(e) \/ Skip(e) \/ MarkProcessing(e) \/ ReadFails(e)
      BY <2>1, FinalFrame DEF FindJob, Skip, MarkProcessing, ReadFails
    <2>2. CASE MarkProcessingFails(e) \/ MarkFailedFails(e)
      BY <2>2, FinalFrame DEF MarkProcessingFails, MarkFailedFails
    <2>3. CASE ScanSucceeds(e) \/ ScanFails(e) \/ SaveReport(e) \/ SaveRejected(e) \/ SaveReportFails(e)
      BY <2>3, FinalFrame DEF ScanSucceeds, ScanFails, SaveReport, SaveRejected, SaveReportFails
    <2>4. CASE MarkCompleted(e) \/ MarkFailed(e)
      BY <2>4, OutcomeStep DEF MarkCompleted, MarkFailed
    <2>5. CASE MarkCompletedFails(e)
      <3>1. CASE UNCHANGED <<rowVars, history>>
        BY <2>5, <3>1, FinalFrame DEF MarkCompletedFails
      <3>2. CASE SetStatus(e, "COMPLETED") /\ Note("lostAck", {job[e]})
        BY <2>5, <3>2, OutcomeStep DEF MarkCompletedFails
      <3>3. QED
        BY <2>5, <3>1, <3>2 DEF MarkCompletedFails
    <2>6. QED
      BY <1>3, <2>1, <2>2, <2>3, <2>4, <2>5 DEF Execute, CallFails
  <1>4. ASSUME NEW w \in Workers, ShutDown(w)
        PROVE  FinalInv'
    BY <1>4, FinalFrame DEF ShutDown, TypeOK, WorkerTypeOK
  <1>5. ASSUME NEW w \in Workers, Exit(w)
        PROVE  FinalInv'
    BY <1>5, ExitEffect, FinalFrame DEF TypeOK, WorkerTypeOK
  <1>6. QED
    BY <1>1, <1>2, <1>3, <1>4, <1>5 DEF WorkerNext, Deliver

(* No step takes the outcome away from a row that is quiet and that no cancel request has read. *)
LEMMA CompletedStays ==
  ASSUME TypeOK, TriggerInv, FinalInv, [Next]_vars, NEW j \in Jobs,
         status[j] = "COMPLETED",
         history[j] \cap {"askedAgain", "lostAck"} = {},
         \A r \in Requests : reqOp[r] = "cancel" => reqJob[r] # j
  PROVE  status'[j] = "COMPLETED"
  <1>1. Quiet(j) /\ ~PendingRetry(j)
    BY DEF FinalInv
  <1> USE DEF rowVars, requestVars, baseVars, executionVars, workerVars, outsideVars, TypeOK, BaseTypeOK
  <1>2. CASE UNCHANGED vars
    BY <1>2 DEF vars
  <1>3. CASE Request
    <2>1. ASSUME NEW s \in Submitters, AddJobCreate(s)
          PROVE  status'[j] = "COMPLETED"
      BY <2>1 DEF AddJobCreate, CreateJob, TriggerInv, AddingIsNew
    <2>2. ASSUME NEW r \in Requests, CancelWrite(r) \/ RetryWrite(r)
          PROVE  status'[j] = "COMPLETED"
      BY <1>1, <2>2 DEF CancelWrite, WriteCancelled, RetryWrite, WriteRequeued, PendingRetry
    <2>3. ASSUME NEW s \in Submitters, NEW i \in Jobs, AddJobCheck(s, i)
          PROVE  status'[j] = "COMPLETED"
      BY <2>3 DEF AddJobCheck, CheckRateLimit
    <2>4. ASSUME NEW r \in Requests, NEW i \in Jobs, CancelRead(r, i) \/ RetryRead(r, i)
          PROVE  status'[j] = "COMPLETED"
      BY <2>4 DEF CancelRead, ReadForCancel, RetryRead, ReadForRetry
    <2>5. QED
      BY <1>3, <2>1, <2>2, <2>3, <2>4 DEF Request
  <1>4. CASE Fallback
    BY <1>4 DEF Fallback, GrowStale, CheckStale, Retrigger, Restart
  <1>5. CASE WorkerNext
    <2>1. ASSUME NEW e \in Executions, Execute(e) \/ CallFails(e)
          PROVE  status'[j] = "COMPLETED"
      <3>1. job[e] # j
        BY <1>1 DEF Quiet
      <3> USE DEF SetStatus
      <3>2. CASE Execute(e)
        BY <3>1, <3>2 DEF Execute, FindJob, Skip, MarkProcessing, ScanSucceeds, ScanFails, SaveReport,
                          SaveRejected, MarkCompleted, MarkFailed
      <3>3. CASE CallFails(e)
        BY <3>1, <3>3 DEF CallFails, ReadFails, MarkProcessingFails, SaveReportFails,
                          MarkCompletedFails, MarkFailedFails
      <3>4. QED
        BY <2>1, <3>2, <3>3
    <2>2. ASSUME NEW i \in Jobs, Deliver(i) \/ Lose(i) \/ \E w \in Workers : TurnAway(w, i)
          PROVE  status'[j] = "COMPLETED"
      BY <2>2 DEF Deliver, Accept, Lose, TurnAway
    <2>3. ASSUME NEW w \in Workers, ShutDown(w) \/ Exit(w)
          PROVE  status'[j] = "COMPLETED"
      BY <2>3 DEF ShutDown, Exit
    <2>4. QED
      BY <1>5, <2>1, <2>2, <2>3 DEF WorkerNext
  <1>6. QED
    BY <1>2, <1>3, <1>4, <1>5 DEF Next

(***************************************************************************)
(* The outcome COMPLETED is final, but for the three ways the property     *)
(* names in which the code takes it back.                                  *)
(***************************************************************************)
THEOREM CompletedStaysFinal == Spec => CompletedIsFinal
  <1>1. Init => TriggerInv /\ FinalInv
    BY JobsAssumption DEF Init, BaseInit, WorkerInit, TriggerInv, AbsentIsUnknown, AddingIsNew,
                          OneTrigger, FinalInv, PendingRetry
  <1>2. TypeOK /\ TypeOK' /\ TriggerInv /\ FinalInv /\ [Next]_vars => TriggerInv' /\ FinalInv'
    <2> SUFFICES ASSUME TypeOK, TypeOK', TriggerInv, FinalInv, [Next]_vars
                 PROVE  TriggerInv' /\ FinalInv'
      OBVIOUS
    <2>1. CASE UNCHANGED vars
      BY <2>1 DEF vars, rowVars, requestVars, baseVars, executionVars, workerVars, fallbackVars,
                  TriggerInv, AbsentIsUnknown, AddingIsNew, OneTrigger, FinalInv, PendingRetry, Quiet
    <2>2. QED
      BY <2>1, ApiTrigger, WorkerTrigger, ApiFinal, WorkerFinal DEF Next
  <1>3. TypeOK /\ TriggerInv /\ FinalInv /\ [Next]_vars =>
          [\A j \in Jobs :
             /\ status[j] = "COMPLETED"
             /\ history[j] \cap {"askedAgain", "lostAck"} = {}
             /\ \A r \in Requests : reqOp[r] = "cancel" => reqJob[r] # j
             => status'[j] = "COMPLETED"]_vars
    BY CompletedStays
  <1>4. QED
    BY <1>1, <1>2, <1>3, TypeCorrect, PTL DEF Spec, CompletedIsFinal

-----------------------------------------------------------------------------
(***************************************************************************)
(* RemoteScan.  A row that nobody has asked for again says where its one   *)
(* request or its one execution is, but for cancels and lost answers.      *)
(***************************************************************************)
RemoteRow(j) ==
    /\ status[j] = "ABSENT" => ~Repeated(j)
    /\ ~Repeated(j) =>
        /\ posts[j] > 0 \/ ScannedAt(j, Accepted) => status[j] \in {"QUEUED", "CANCELLED"}
        /\ ScannedAt(j, {"scan", "save", "complete"}) => status[j] \in {"PROCESSING", "CANCELLED"}
        /\ ScannedAt(j, {"caught"}) => status[j] \in {"PROCESSING", "CANCELLED", "COMPLETED"}

RemoteInv == \A j \in Jobs : RemoteRow(j)

(* A step that starts and moves no execution, and writes nothing but a cancel to a row that it does
   not ask for again. *)
LEMMA RemoteFrame ==
  ASSUME TypeOK, TypeOK', RemoteInv,
         \A j \in Jobs : Repeated(j) => Repeated(j)',
         \A j \in Jobs : ~Repeated(j)' =>
             /\ posts'[j] <= posts[j]
             /\ status'[j] = status[j] \/ status'[j] = "CANCELLED",
         \A j \in Jobs : status'[j] = "ABSENT" => status[j] = "ABSENT" /\ (Repeated(j)' => Repeated(j)),
         \A e \in Executions : (at'[e] = at[e] /\ job'[e] = job[e]) \/ job'[e] = NoJob
  PROVE  RemoteInv'
  <1> SUFFICES ASSUME NEW j \in Jobs
               PROVE  RemoteRow(j)'
    BY DEF RemoteInv
  <1> USE DEF RemoteRow
  <1>1. /\ ScannedAt(j, Accepted)' => ScannedAt(j, Accepted)
        /\ ScannedAt(j, {"scan", "save", "complete"})' => ScannedAt(j, {"scan", "save", "complete"})
        /\ ScannedAt(j, {"caught"})' => ScannedAt(j, {"caught"})
    BY JobsAssumption DEF ScannedAt, Accepted
  <1>2. posts[j] \in Nat /\ posts'[j] \in Nat
    BY DEF TypeOK, WorkerTypeOK
  <1>3. QED
    BY <1>1, <1>2 DEF RemoteInv

(* An execution of a row that nobody has asked for again is the only one, and nothing is on its way to it. *)
LEMMA OnlyExecution ==
  ASSUME TypeOK, TriggerInv, NEW e \in Executions, job[e] \in Jobs, ~Repeated(job[e])
  PROVE  /\ posts[job[e]] = 0
         /\ \A d \in Executions : job[d] = job[e] => d = e
         /\ \A S : ScannedAt(job[e], S) <=> at[e] \in S
  <1>1. /\ posts[job[e]] \in Nat /\ posts[job[e]] <= 1 /\ posts[job[e]] # 1
        /\ \A d \in Executions : job[d] = job[e] => d = e
    BY DEF TriggerInv, OneTrigger, Repeated, TypeOK, WorkerTypeOK
  <1>2. QED
    BY <1>1 DEF ScannedAt

(* What a step of execution e leaves alone. *)
StepOf(e) ==
    /\ job[e] \in Jobs
    /\ \A d \in Executions \ {e} : at'[d] = at[d] /\ job'[d] = job[d]
    /\ job'[e] \in {job[e], NoJob}
    /\ \A j \in Jobs : j # job[e] => status'[j] = status[j]
    /\ \A j \in Jobs : Repeated(j)' <=> Repeated(j)
    /\ UNCHANGED <<posts, reqOp, reqJob>>

LEMMA ExecutionSteps ==
  ASSUME TypeOK, NEW e \in Executions, Execute(e) \/ CallFails(e)
  PROVE  StepOf(e) /\ at[e] # "idle" /\ (job'[e] = job[e] \/ at'[e] = "idle")
  <1> USE DEF Advance, Finish, SetStatus, TypeOK, WorkerTypeOK, BaseTypeOK, StepOf, Repeated, Note,
              rowVars, requestVars, outsideVars
  <1>1. CASE FindJob(e) \/ Skip(e) \/ MarkProcessing(e) \/ ScanSucceeds(e) \/ ScanFails(e)
    BY <1>1 DEF FindJob, Skip, MarkProcessing, ScanSucceeds, ScanFails
  <1>2. CASE SaveReport(e) \/ SaveRejected(e) \/ MarkCompleted(e) \/ MarkFailed(e)
    BY <1>2 DEF SaveReport, SaveRejected, MarkCompleted, MarkFailed
  <1>3. CASE ReadFails(e) \/ MarkProcessingFails(e) \/ SaveReportFails(e)
    BY <1>3 DEF ReadFails, MarkProcessingFails, SaveReportFails
  <1>4. CASE MarkCompletedFails(e) \/ MarkFailedFails(e)
    BY <1>4 DEF MarkCompletedFails, MarkFailedFails
  <1>5. QED
    BY <1>1, <1>2, <1>3, <1>4 DEF Execute, CallFails

(* Before and after a step of e, its row has no other execution, and the other rows have theirs. *)
LEMMA ScannedAfter ==
  ASSUME TypeOK, TriggerInv, NEW e \in Executions, StepOf(e), NEW j \in Jobs
  PROVE  /\ j # job[e] => \A S : ScannedAt(j, S)' <=> ScannedAt(j, S)
         /\ j = job[e] /\ ~Repeated(j) /\ job'[e] = NoJob => \A S : ~ScannedAt(j, S)'
         /\ j = job[e] /\ ~Repeated(j) /\ job'[e] = job[e] => \A S : ScannedAt(j, S)' <=> at'[e] \in S
  <1>1. NoJob \notin Jobs
    BY JobsAssumption
  <1>2. ASSUME j # job[e], NEW S
        PROVE  ScannedAt(j, S)' <=> ScannedAt(j, S)
    <2>1. \A d \in Executions : job'[d] = j /\ at'[d] \in S <=> job[d] = j /\ at[d] \in S
      BY <1>1, <1>2 DEF StepOf
    <2>2. QED
      BY <2>1 DEF ScannedAt
  <1>3. ASSUME j = job[e], ~Repeated(j)
        PROVE  \A d \in Executions : job'[d] = j => d = e
    BY <1>3, OnlyExecution DEF StepOf
  <1>4. QED
    BY <1>1, <1>2, <1>3 DEF ScannedAt

LEMMA ExecutionRemote ==
  ASSUME TypeOK, TriggerInv, RemoteInv, NEW e \in Executions, StepOf(e),
         status'[job[e]] = "ABSENT" => status[job[e]] = "ABSENT",
         \/ Repeated(job[e])
         \/ job'[e] = NoJob
         \/ at'[e] \in Accepted /\ status'[job[e]] \in {"QUEUED", "CANCELLED"}
         \/ at'[e] \in {"scan", "save", "complete"} /\ status'[job[e]] \in {"PROCESSING", "CANCELLED"}
         \/ at'[e] = "caught" /\ status'[job[e]] \in {"PROCESSING", "CANCELLED", "COMPLETED"}
  PROVE  RemoteInv'
  <1> SUFFICES ASSUME NEW j \in Jobs
               PROVE  RemoteRow(j)'
    BY DEF RemoteInv
  <1> USE DEF RemoteRow
  <1>1. /\ status'[j] = "ABSENT" => status[j] = "ABSENT"
        /\ Repeated(j)' <=> Repeated(j)
        /\ posts'[j] = posts[j]
    BY DEF StepOf
  <1>2. CASE j # job[e]
    <2>1. /\ status'[j] = status[j]
          /\ \A S : ScannedAt(j, S)' <=> ScannedAt(j, S)
      BY <1>2, ScannedAfter DEF StepOf
    <2>2. QED
      BY <1>1, <2>1 DEF RemoteInv
  <1>3. CASE j = job[e] /\ ~Repeated(j) /\ job'[e] = NoJob
    <2>1. posts[j] = 0 /\ \A S : ~ScannedAt(j, S)'
      BY <1>3, OnlyExecution, ScannedAfter
    <2>2. QED
      BY <1>1, <1>3, <2>1
  <1>4. CASE j = job[e] /\ ~Repeated(j) /\ job'[e] = job[e]
    <2>1. posts[j] = 0 /\ \A S : ScannedAt(j, S)' <=> at'[e] \in S
      BY <1>4, OnlyExecution, ScannedAfter
    <2>2. NoJob # job[e]
      BY JobsAssumption DEF StepOf
    <2>3. QED
      BY <1>1, <1>4, <2>1, <2>2 DEF Accepted
  <1>5. CASE Repeated(j)
    BY <1>1, <1>5 DEF RemoteInv
  <1>6. QED
    BY <1>2, <1>3, <1>4, <1>5 DEF StepOf

(* What the row says while its only execution is where it is. *)
LEMMA RowWhenScanned ==
  ASSUME TypeOK, TriggerInv, RemoteInv, NEW e \in Executions, job[e] \in Jobs, ~Repeated(job[e])
  PROVE  /\ at[e] \in Accepted => status[job[e]] \in {"QUEUED", "CANCELLED"}
         /\ at[e] \in {"scan", "save", "complete"} => status[job[e]] \in {"PROCESSING", "CANCELLED"}
         /\ at[e] = "caught" => status[job[e]] \in {"PROCESSING", "CANCELLED", "COMPLETED"}
  BY OnlyExecution DEF RemoteInv, RemoteRow

LEMMA WorkerRemote == TypeOK /\ TypeOK' /\ TriggerInv /\ RemoteInv /\ WorkerNext => RemoteInv'
  <1> SUFFICES ASSUME TypeOK, TypeOK', TriggerInv, RemoteInv, WorkerNext
               PROVE  RemoteInv'
    OBVIOUS
  <1> USE DEF rowVars, requestVars, baseVars, executionVars, outsideVars
  <1>1. ASSUME NEW j \in Jobs, NEW w \in Workers, NEW e \in Executions, Accept(w, e, j)
        PROVE  RemoteInv'
    <2>1. /\ posts[j] > 0
          /\ posts' = [posts EXCEPT ![j] = @ - 1]
          /\ at' = [at EXCEPT ![e] = "read"]
          /\ job' = [job EXCEPT ![e] = j]
          /\ UNCHANGED <<status, history>>
      BY <1>1 DEF Accept, Received
    <2>2. ~Repeated(j) => /\ posts[j] = 1 /\ posts'[j] = 0
                          /\ \A d \in Executions : job[d] # j
                          /\ status[j] \in {"QUEUED", "CANCELLED"}
      BY <2>1 DEF TriggerInv, OneTrigger, Repeated, RemoteInv, RemoteRow, TypeOK, WorkerTypeOK
    <2>3. ASSUME NEW i \in Jobs, i # j
          PROVE  /\ posts'[i] = posts[i]
                 /\ ScannedAt(i, Accepted)' => ScannedAt(i, Accepted)
                 /\ ScannedAt(i, {"scan", "save", "complete"})' => ScannedAt(i, {"scan", "save", "complete"})
                 /\ ScannedAt(i, {"caught"})' => ScannedAt(i, {"caught"})
      BY <2>1, <2>3 DEF ScannedAt, TypeOK, WorkerTypeOK
    <2>4. ~Repeated(j) => /\ ~ScannedAt(j, {"scan", "save", "complete"})'
                          /\ ~ScannedAt(j, {"caught"})'
      BY <2>1, <2>2 DEF ScannedAt, TypeOK, WorkerTypeOK
    <2>5. \A i \in Jobs : Repeated(i)' <=> Repeated(i)
      BY <2>1 DEF Repeated
    <2>6. QED
      BY <2>1, <2>2, <2>3, <2>4, <2>5 DEF RemoteInv, RemoteRow
  <1>2. ASSUME NEW j \in Jobs, Lose(j) \/ \E w \in Workers : TurnAway(w, j)
        PROVE  RemoteInv'
    <2>1. /\ \A i \in Jobs : posts'[i] <= posts[i]
          /\ UNCHANGED <<status, at, job, history>>
      BY <1>2 DEF Lose, TurnAway, Received, TypeOK, WorkerTypeOK
    <2>2. QED
      BY <2>1, RemoteFrame DEF Repeated
  <1>3. ASSUME NEW e \in Executions, Execute(e) \/ CallFails(e)
        PROVE  RemoteInv'
    <2>1. StepOf(e) /\ job[e] \in Jobs /\ (job'[e] = NoJob => NoJob # job[e])
      BY <1>3, ExecutionSteps, JobsAssumption DEF StepOf
    <2> DEFINE Kept == \/ Repeated(job[e])
                       \/ job'[e] = NoJob
                       \/ at'[e] \in Accepted /\ status'[job[e]] \in {"QUEUED", "CANCELLED"}
                       \/ /\ at'[e] \in {"scan", "save", "complete"}
                          /\ status'[job[e]] \in {"PROCESSING", "CANCELLED"}
                       \/ at'[e] = "caught" /\ status'[job[e]] \in {"PROCESSING", "CANCELLED", "COMPLETED"}
    <2>2. (status'[job[e]] = "ABSENT" => status[job[e]] = "ABSENT") /\ Kept
      <3> USE <2>1, RowWhenScanned DEF Advance, Finish, SetStatus, TypeOK, WorkerTypeOK, BaseTypeOK, Accepted
      <3>1. CASE FindJob(e) \/ Skip(e) \/ ReadFails(e)
        BY <3>1 DEF FindJob, Skip, ReadFails, Active
      <3>2. CASE MarkProcessing(e)
        BY <3>2 DEF MarkProcessing
      <3>3. CASE ScanSucceeds(e) \/ ScanFails(e) \/ SaveReport(e) \/ SaveRejected(e) \/ SaveReportFails(e)
        BY <3>3 DEF ScanSucceeds, ScanFails, SaveReport, SaveRejected, SaveReportFails
      <3>4. CASE MarkCompleted(e) \/ MarkFailed(e) \/ MarkProcessingFails(e) \/ MarkFailedFails(e)
        BY <3>4 DEF MarkCompleted, MarkFailed, MarkProcessingFails, MarkFailedFails
      <3>5. CASE MarkCompletedFails(e)
        BY <3>5 DEF MarkCompletedFails
      <3>6. QED
        BY <1>3, <3>1, <3>2, <3>3, <3>4, <3>5 DEF Execute, CallFails
    <2>3. QED
      BY <2>1, <2>2, ExecutionRemote
  <1>4. ASSUME NEW w \in Workers, ShutDown(w)
        PROVE  RemoteInv'
    BY <1>4, RemoteFrame DEF ShutDown, Repeated, TypeOK, WorkerTypeOK
  <1>5. ASSUME NEW w \in Workers, Exit(w)
        PROVE  RemoteInv'
    <2>1. \A j \in Jobs : Repeated(j)' <=> Repeated(j)
      BY <1>5 DEF Exit, Note, Repeated, TypeOK, WorkerTypeOK
    <2>2. QED
      BY <1>5, <2>1, ExitEffect, RemoteFrame DEF TypeOK, WorkerTypeOK
  <1>6. QED
    BY <1>1, <1>2, <1>3, <1>4, <1>5 DEF WorkerNext, Deliver

LEMMA ApiRemote == TypeOK /\ TypeOK' /\ TriggerInv /\ RemoteInv /\ (Request \/ Fallback) => RemoteInv'
  <1> SUFFICES ASSUME TypeOK, TypeOK', TriggerInv, RemoteInv, Request \/ Fallback
               PROVE  RemoteInv'
    OBVIOUS
  <1> USE DEF rowVars, requestVars, baseVars, executionVars, workerVars, fallbackVars, TypeOK,
              BaseTypeOK, WorkerTypeOK, Repeated
  <1>1. ASSUME NEW s \in Submitters, NEW j \in Jobs, AddJobCheck(s, j)
        PROVE  RemoteInv'
    BY <1>1, RemoteFrame DEF AddJobCheck, CheckRateLimit
  <1>2. ASSUME NEW s \in Submitters, AddJobCreate(s)
        PROVE  RemoteInv'
    <2>1. PICK j \in Jobs : j = adding[s] /\ status[j] = "ABSENT"
      BY <1>2 DEF AddJobCreate, CreateJob, TriggerInv, AddingIsNew
    <2>2. /\ status' = [status EXCEPT ![j] = "QUEUED"]
          /\ posts' = [posts EXCEPT ![j] = @ + 1]
          /\ UNCHANGED <<at, job, history>>
      BY <1>2, <2>1 DEF AddJobCreate, CreateJob, Send
    <2>3. \A e \in Executions : job[e] # j
      BY <2>1 DEF TriggerInv, AbsentIsUnknown
    <2>4. QED
      BY <2>1, <2>2, <2>3 DEF RemoteInv, RemoteRow, ScannedAt
  <1>3. ASSUME NEW r \in Requests, NEW j \in Jobs, CancelRead(r, j) \/ RetryRead(r, j)
        PROVE  RemoteInv'
    BY <1>3, RemoteFrame DEF CancelRead, ReadForCancel, RetryRead, ReadForRetry
  <1>4. ASSUME NEW r \in Requests, CancelWrite(r)
        PROVE  RemoteInv'
    BY <1>4, RemoteFrame DEF CancelWrite, WriteCancelled
  <1>5. ASSUME NEW r \in Requests, RetryWrite(r)
        PROVE  RemoteInv'
    <2>1. reqJob[r] \in Jobs /\ status[reqJob[r]] # "ABSENT"
      BY <1>5 DEF RetryWrite, WriteRequeued, TriggerInv, AbsentIsUnknown
    <2>2. /\ posts' = [posts EXCEPT ![reqJob[r]] = @ + 1]
          /\ status' = [status EXCEPT ![reqJob[r]] = "QUEUED"]
          /\ history' = [j \in Jobs |-> history[j] \cup IF j \in {reqJob[r]} THEN {"askedAgain"} ELSE {}]
          /\ UNCHANGED <<at, job>>
      BY <1>5 DEF RetryWrite, WriteRequeued, Send, Note
    <2>3. QED
      BY <2>1, <2>2, RemoteFrame
  <1>6. ASSUME NEW j \in Jobs, GrowStale(j)
        PROVE  RemoteInv'
    BY <1>6, RemoteFrame DEF GrowStale
  <1>7. ASSUME NEW k \in Checks, CheckStale(k)
        PROVE  RemoteInv'
    BY <1>7, RemoteFrame DEF CheckStale
  <1>8. ASSUME NEW k \in Checks, Retrigger(k)
        PROVE  RemoteInv'
    <2>1. PICK j \in todo[k] : Send(j) /\ Note("askedAgain", {j})
      BY <1>8 DEF Retrigger
    <2>2. j \in Jobs /\ status[j] # "ABSENT"
      BY DEF TriggerInv, AbsentIsUnknown
    <2>3. /\ posts' = [posts EXCEPT ![j] = @ + 1]
          /\ history' = [i \in Jobs |-> history[i] \cup IF i \in {j} THEN {"askedAgain"} ELSE {}]
          /\ UNCHANGED <<status, at, job>>
      BY <1>8, <2>1 DEF Retrigger, Send, Note
    <2>4. QED
      BY <2>2, <2>3, RemoteFrame
  <1>9. CASE Restart
    BY <1>9, RemoteFrame DEF Restart, DropRequests
  <1>10. QED
    BY <1>1, <1>2, <1>3, <1>4, <1>5, <1>6, <1>7, <1>8, <1>9 DEF Request, Fallback

-----------------------------------------------------------------------------
(***************************************************************************)
(* The mapping.  Mapped is what a step of the code is under it.            *)
(***************************************************************************)
Mapped == Remote!RemoteNext \/ UNCHANGED Remote!remoteVars

Stage(place) ==
    CASE place = "mark" -> "found"
      [] place \in {"scan", "save"} -> "running"
      [] place = "complete" -> "saved"
      [] place = "caught" -> "failing"
      [] OTHER -> "none"

LEMMA RowOf ==
  ASSUME NEW j \in Jobs
  PROVE  /\ Repeated(j) => rowOf[j] = "REPEATED" /\ scanOf[j] = "none"
         /\ ~Repeated(j) => rowOf[j] = IF status[j] = "PROCESSING" /\ ~ScannedAt(j, Counted)
                                       THEN "LOST" ELSE status[j]
  BY DEF rowOf, scanOf

(* The row and the scan of j are what they were when the row, and the execution that is the scan, are. *)
LEMMA SameRow ==
  ASSUME NEW j \in Jobs, Repeated(j)' <=> Repeated(j),
         ~Repeated(j) =>
             /\ status'[j] = status[j]
             /\ \A S : "read" \notin S => (ScannedAt(j, S)' <=> ScannedAt(j, S))
  PROVE  rowOf'[j] = rowOf[j] /\ scanOf'[j] = scanOf[j]
  <1>1. ~Repeated(j) =>
          /\ ScannedAt(j, Counted)' <=> ScannedAt(j, Counted)
          /\ ScannedAt(j, {"mark"})' <=> ScannedAt(j, {"mark"})
          /\ ScannedAt(j, {"scan", "save"})' <=> ScannedAt(j, {"scan", "save"})
          /\ ScannedAt(j, {"complete"})' <=> ScannedAt(j, {"complete"})
          /\ ScannedAt(j, {"caught"})' <=> ScannedAt(j, {"caught"})
    BY DEF Counted
  <1>2. QED
    BY <1>1 DEF rowOf, scanOf

LEMMA SameFunctions ==
  /\ (\A j \in Jobs : rowOf'[j] = rowOf[j]) => rowOf' = rowOf
  /\ (\A j \in Jobs : scanOf'[j] = scanOf[j]) => scanOf' = scanOf
  /\ \A v : \A j \in Jobs : rowOf'[j] = v /\ (\A i \in Jobs \ {j} : rowOf'[i] = rowOf[i])
        => rowOf' = [rowOf EXCEPT ![j] = v]
  /\ \A v : \A j \in Jobs : scanOf'[j] = v /\ (\A i \in Jobs \ {j} : scanOf'[i] = scanOf[i])
        => scanOf' = [scanOf EXCEPT ![j] = v]
  <1>1. /\ rowOf = [j \in Jobs |-> rowOf[j]] /\ rowOf' = [j \in Jobs |-> rowOf'[j]]
        /\ scanOf = [j \in Jobs |-> scanOf[j]] /\ scanOf' = [j \in Jobs |-> scanOf'[j]]
    BY DEF rowOf, scanOf
  <1>2. QED
    BY <1>1

(* The scan of a row that nobody has asked for again is at the stage of its execution. *)
LEMMA ScanBefore ==
  ASSUME TypeOK, TriggerInv, RemoteInv, NEW e \in Executions, at[e] # "idle",
         job[e] \in Jobs, ~Repeated(job[e])
  PROVE  /\ scanOf[job[e]] = Stage(at[e])
         /\ rowOf[job[e]] = status[job[e]]
  <1>1. \A S : ScannedAt(job[e], S) <=> at[e] \in S
    BY OnlyExecution
  <1>2. at[e] \in Accepted \cup Counted
    BY DEF TypeOK, WorkerTypeOK
  <1>3. at[e] \in Accepted => status[job[e]] # "PROCESSING"
    BY RowWhenScanned
  <1>4. scanOf[job[e]] = Stage(at[e])
    BY <1>1 DEF scanOf, Stage
  <1>5. rowOf[job[e]] = status[job[e]]
    BY <1>1, <1>2, <1>3 DEF rowOf
  <1>6. QED
    BY <1>4, <1>5

(* What a step of execution e is under the mapping: it moves the scan of its row, or nothing at all. *)
LEMMA ExecutionMoves ==
  ASSUME TypeOK, TriggerInv, RemoteInv, NEW e \in Executions, StepOf(e), job'[e] = job[e] \/ at'[e] = "idle"
  PROVE  /\ askedOf' = askedOf
         /\ Repeated(job[e]) => UNCHANGED <<rowOf, scanOf>>
         /\ ~Repeated(job[e]) =>
              LET ended == job'[e] = NoJob
                  j == job[e]
              IN  /\ scanOf' = [scanOf EXCEPT ![j] = IF ended THEN "none" ELSE Stage(at'[e])]
                  /\ rowOf' = [rowOf EXCEPT ![j] =
                                 IF status'[j] = "PROCESSING" /\ (ended \/ at'[e] \notin Counted)
                                 THEN "LOST" ELSE status'[j]]
  <1> PICK j \in Jobs : j = job[e]
    BY DEF StepOf
  <1>1. \A i \in Jobs : Repeated(i)' <=> Repeated(i)
    BY DEF StepOf
  <1>2. askedOf' = askedOf
    BY <1>1 DEF askedOf, StepOf
  <1>3. \A i \in Jobs \ {j} : rowOf'[i] = rowOf[i] /\ scanOf'[i] = scanOf[i]
    <2> SUFFICES ASSUME NEW i \in Jobs \ {j}
                 PROVE  rowOf'[i] = rowOf[i] /\ scanOf'[i] = scanOf[i]
      OBVIOUS
    <2>1. status'[i] = status[i] /\ \A S : ScannedAt(i, S)' <=> ScannedAt(i, S)
      BY ScannedAfter DEF StepOf
    <2>2. QED
      BY <1>1, <2>1, SameRow
  <1>4. CASE Repeated(j)
    <2>1. rowOf'[j] = rowOf[j] /\ scanOf'[j] = scanOf[j]
      BY <1>1, <1>4, SameRow
    <2>2. UNCHANGED <<rowOf, scanOf>>
      BY <1>3, <2>1, SameFunctions
    <2>3. QED
      BY <1>2, <1>4, <2>2
  <1>5. CASE ~Repeated(j)
    <2> DEFINE ended == job'[e] = NoJob
               newScan == IF ended THEN "none" ELSE Stage(at'[e])
               newRow == IF status'[j] = "PROCESSING" /\ (ended \/ at'[e] \notin Counted)
                         THEN "LOST" ELSE status'[j]
    <2>1. /\ ended => \A S : ~ScannedAt(j, S)'
          /\ ~ended => \A S : ScannedAt(j, S)' <=> at'[e] \in S
      BY <1>1, <1>5, ScannedAfter DEF StepOf
    <2>2. scanOf'[j] = newScan
      BY <1>1, <1>5, <2>1 DEF scanOf, Stage
    <2>3. rowOf'[j] = newRow
      BY <1>1, <1>5, <2>1 DEF rowOf
    <2> HIDE DEF newScan, newRow
    <2>4. scanOf' = [scanOf EXCEPT ![j] = newScan] /\ rowOf' = [rowOf EXCEPT ![j] = newRow]
      BY <1>1, <1>3, <2>2, <2>3, SameFunctions
    <2>5. QED
      BY <1>2, <1>5, <2>4 DEF newScan, newRow
  <1>6. QED
    BY <1>4, <1>5

LEMMA Unmoved == UNCHANGED <<rowOf, scanOf, askedOf, reported>> => Mapped
  BY DEF Mapped, Remote!remoteVars

(* Of a row that was asked for again, an execution changes nothing but the reports. *)
LEMMA RepeatedMapped ==
  ASSUME TypeOK, TriggerInv, RemoteInv, NEW e \in Executions, Execute(e) \/ CallFails(e), Repeated(job[e])
  PROVE  Mapped
  <1>1. StepOf(e) /\ (job'[e] = job[e] \/ at'[e] = "idle")
    BY ExecutionSteps
  <1>2. PICK j \in Jobs : j = job[e]
    BY <1>1 DEF StepOf
  <1>3. UNCHANGED <<rowOf, scanOf, askedOf>>
    BY <1>1, ExecutionMoves
  <1>4. reported' = reported \/ reported' = reported \cup ({AuditOf[j]} \ {NoAudit})
    <2>1. CASE SaveReport(e) \/ SaveReportFails(e)
      BY <1>2, <2>1 DEF SaveReport, SaveReportFails, AddReport
    <2>2. CASE ~(SaveReport(e) \/ SaveReportFails(e))
      BY <2>2 DEF Execute, CallFails, FindJob, Skip, MarkProcessing, ScanSucceeds, ScanFails,
                  SaveRejected, MarkCompleted, MarkFailed, ReadFails, MarkProcessingFails,
                  MarkCompletedFails, MarkFailedFails
    <2>3. QED
      BY <2>1, <2>2
  <1>5. CASE reported' = reported
    BY <1>3, <1>5, Unmoved
  <1>6. CASE reported' = reported \cup ({AuditOf[j]} \ {NoAudit})
    <2>1. Remote!SaveRepeated(j)
      BY <1>2, <1>3, <1>6, RowOf DEF Remote!SaveRepeated, Remote!WithReport
    <2>2. QED
      BY <2>1 DEF Mapped, Remote!RemoteNext
  <1>7. QED
    BY <1>4, <1>5, <1>6

(* Of any other row it is a step of its scan, or nothing. *)
LEMMA ExecutionMapped ==
  ASSUME TypeOK, TriggerInv, RemoteInv, NEW e \in Executions, Execute(e) \/ CallFails(e)
  PROVE  Mapped
  <1>1. StepOf(e) /\ at[e] # "idle" /\ (job'[e] = job[e] \/ at'[e] = "idle")
    BY ExecutionSteps
  <1>2. PICK j \in Jobs : j = job[e]
    BY <1>1 DEF StepOf
  <1>3. CASE Repeated(j)
    BY <1>2, <1>3, RepeatedMapped
  <1>4. CASE ~Repeated(j)
    <2> DEFINE ended == job'[e] = NoJob
               newScan == IF ended THEN "none" ELSE Stage(at'[e])
               newRow == IF status'[j] = "PROCESSING" /\ (ended \/ at'[e] \notin Counted)
                         THEN "LOST" ELSE status'[j]
    <2>1. /\ askedOf' = askedOf
          /\ scanOf' = [scanOf EXCEPT ![j] = newScan]
          /\ rowOf' = [rowOf EXCEPT ![j] = newRow]
      BY <1>1, <1>2, <1>4, ExecutionMoves
    <2>2. scanOf[j] = Stage(at[e]) /\ rowOf[j] = status[j]
      BY <1>1, <1>2, <1>4, ScanBefore
    <2>3. /\ at[e] \in Accepted => status[j] \in {"QUEUED", "CANCELLED"}
          /\ at[e] \in {"scan", "save", "complete"} => status[j] \in {"PROCESSING", "CANCELLED"}
          /\ at[e] = "caught" => status[j] \in {"PROCESSING", "CANCELLED", "COMPLETED"}
      BY <1>2, <1>4, RowWhenScanned
    <2>4. /\ job[e] = j /\ j # NoJob
          /\ at \in [Executions -> {"idle"} \cup Accepted \cup Counted]
          /\ job \in [Executions -> Jobs \cup {NoJob}]
          /\ status \in [Jobs -> Statuses]
          /\ rowOf = [i \in Jobs |-> rowOf[i]] /\ scanOf = [i \in Jobs |-> scanOf[i]]
      <3>1. rowOf = [i \in Jobs |-> rowOf[i]] /\ scanOf = [i \in Jobs |-> scanOf[i]]
        BY DEF rowOf, scanOf
      <3>2. QED
        BY <1>2, <3>1, JobsAssumption DEF TypeOK, BaseTypeOK, WorkerTypeOK
    <2> DEFINE Goal == Remote!RemoteNext \/ UNCHANGED <<rowOf, scanOf, askedOf, reported>>
    <2>5. SUFFICES Goal
      BY Unmoved DEF Mapped
    <2> USE DEF rowVars, outsideVars, Advance, SetStatus, Stage, Accepted, Counted
    <2>6. CASE FindJob(e)
      <3>1. newScan = "found" /\ newRow = status[j] /\ status[j] = "QUEUED" /\ scanOf[j] = "none"
        BY <2>2, <2>3, <2>4, <2>6 DEF FindJob, Active
      <3> HIDE DEF newScan, newRow
      <3>2. Remote!Find(j)
        BY <2>1, <2>2, <2>4, <2>6, <3>1 DEF FindJob, Remote!Find
      <3>3. QED
        BY <3>2 DEF Remote!RemoteNext
    <2>7. CASE Skip(e) \/ ReadFails(e)
      <3>1. newScan = "none" /\ newRow = status[j] /\ scanOf[j] = "none" /\ reported' = reported
        BY <2>2, <2>3, <2>4, <2>7 DEF Skip, ReadFails, Finish
      <3> HIDE DEF newScan, newRow
      <3>2. QED
        BY <2>1, <2>2, <2>4, <3>1
    <2>8. CASE MarkProcessing(e)
      <3>1. newScan = "running" /\ newRow = "PROCESSING" /\ scanOf[j] = "found" /\ reported' = reported
        BY <2>2, <2>4, <2>8 DEF MarkProcessing
      <3>2. status[j] \in {"QUEUED", "CANCELLED"}
        BY <2>3, <2>8 DEF MarkProcessing
      <3> HIDE DEF newScan, newRow
      <3>3. Remote!Start(j)
        BY <2>1, <2>2, <2>4, <3>1, <3>2 DEF Remote!Start
      <3>4. QED
        BY <3>3 DEF Remote!RemoteNext
    <2>9. CASE ScanSucceeds(e)
      <3>1. newScan = "running" /\ newRow = status[j] /\ scanOf[j] = "running" /\ reported' = reported
        BY <2>2, <2>3, <2>4, <2>9 DEF ScanSucceeds
      <3> HIDE DEF newScan, newRow
      <3>2. QED
        BY <2>1, <2>2, <2>4, <3>1
    <2>10. CASE SaveReport(e)
      <3>1. newScan = "saved" /\ newRow = status[j] /\ scanOf[j] = "running"
        BY <2>2, <2>3, <2>4, <2>10 DEF SaveReport
      <3>2. /\ reported' = reported \cup ({AuditOf[j]} \ {NoAudit})
            /\ AuditOf[j] # NoAudit => AuditOf[j] \notin reported
        BY <2>4, <2>10 DEF SaveReport, AuditReported, AddReport
      <3> HIDE DEF newScan, newRow
      <3>3. Remote!Save(j)
        BY <2>1, <2>2, <2>4, <3>1, <3>2 DEF Remote!Save, Remote!WithReport
      <3>4. QED
        BY <3>3 DEF Remote!RemoteNext
    <2>11. CASE \/ ScanFails(e) \/ SaveRejected(e) \/ SaveReportFails(e)
                \/ MarkCompletedFails(e) /\ UNCHANGED rowVars
      <3>1. /\ newScan = "failing" /\ newRow = status[j] /\ scanOf[j] \in {"running", "saved"}
            /\ reported' \in {reported, reported \cup ({AuditOf[j]} \ {NoAudit})}
        BY <2>2, <2>3, <2>4, <2>11 DEF ScanFails, SaveRejected, SaveReportFails, MarkCompletedFails, AddReport
      <3> HIDE DEF newScan, newRow
      <3>2. Remote!Break(j)
        BY <2>1, <2>2, <2>4, <3>1 DEF Remote!Break, Remote!WithReport
      <3>3. QED
        BY <3>2 DEF Remote!RemoteNext
    <2>12. CASE MarkCompleted(e) \/ (MarkCompletedFails(e) /\ SetStatus(e, "COMPLETED"))
      <3>1. /\ newScan \in {"none", "failing"} /\ newRow = "COMPLETED" /\ scanOf[j] = "saved"
            /\ status[j] \in {"PROCESSING", "CANCELLED"} /\ reported' = reported
        BY <2>2, <2>3, <2>4, <2>12 DEF MarkCompleted, MarkCompletedFails, Finish
      <3> HIDE DEF newScan, newRow
      <3>2. Remote!Complete(j)
        BY <2>1, <2>2, <2>4, <3>1 DEF Remote!Complete
      <3>3. QED
        BY <3>2 DEF Remote!RemoteNext
    <2>13. CASE MarkFailed(e)
      <3>1. /\ newScan = "none" /\ newRow = "FAILED" /\ scanOf[j] = "failing"
            /\ status[j] \in {"PROCESSING", "CANCELLED", "COMPLETED"} /\ reported' = reported
        BY <2>2, <2>3, <2>4, <2>13 DEF MarkFailed, Finish
      <3> HIDE DEF newScan, newRow
      <3>2. Remote!Fail(j)
        BY <2>1, <2>2, <2>4, <3>1 DEF Remote!Fail
      <3>3. QED
        BY <3>2 DEF Remote!RemoteNext
    <2>14. CASE MarkProcessingFails(e) /\ SetStatus(e, "PROCESSING")
      <3>1. /\ newScan = "none" /\ newRow = "LOST" /\ scanOf[j] = "found"
            /\ status[j] \in {"QUEUED", "CANCELLED"} /\ reported' = reported
        BY <2>2, <2>3, <2>4, <2>14 DEF MarkProcessingFails, Finish
      <3> HIDE DEF newScan, newRow
      <3>2. Remote!StartInVain(j)
        BY <2>1, <2>2, <2>4, <3>1 DEF Remote!StartInVain
      <3>3. QED
        BY <3>2 DEF Remote!RemoteNext
    <2>15. CASE (MarkProcessingFails(e) /\ UNCHANGED rowVars) \/ MarkFailedFails(e)
      <3>1. /\ newScan = "none" /\ newRow = (IF rowOf[j] = "PROCESSING" THEN "LOST" ELSE rowOf[j])
            /\ reported' = reported
        BY <2>2, <2>3, <2>4, <2>15 DEF MarkProcessingFails, MarkFailedFails, Finish
      <3> HIDE DEF newScan, newRow
      <3>2. /\ scanOf' = [i \in Jobs |-> IF i \in {j} THEN "none" ELSE scanOf[i]]
            /\ rowOf' = [i \in Jobs |-> IF i \in {j} /\ rowOf[i] = "PROCESSING" THEN "LOST" ELSE rowOf[i]]
        BY <2>1, <2>4, <3>1
      <3>3. Remote!Stop({j})
        BY <2>1, <3>1, <3>2 DEF Remote!Stop
      <3>4. QED
        BY <3>3 DEF Remote!RemoteNext
    <2>16. /\ MarkProcessingFails(e) => SetStatus(e, "PROCESSING") \/ UNCHANGED rowVars
           /\ MarkCompletedFails(e) => SetStatus(e, "COMPLETED") \/ UNCHANGED rowVars
      BY DEF MarkProcessingFails, MarkCompletedFails
    <2> HIDE DEF Goal, rowVars, outsideVars, Advance, SetStatus, Stage, Accepted, Counted
    <2>17. CASE Execute(e)
      BY <2>6, <2>7, <2>8, <2>9, <2>10, <2>11, <2>12, <2>13, <2>17 DEF Execute
    <2>18. CASE CallFails(e)
      BY <2>7, <2>11, <2>12, <2>14, <2>15, <2>16, <2>18 DEF CallFails
    <2>19. QED
      BY <2>17, <2>18
  <1>5. QED
    BY <1>3, <1>4

(* When no execution moves, the rows a step does not touch are what they were under the mapping. *)
LEMMA ApiFrame ==
  ASSUME TypeOK, NEW j \in Jobs,
         \A i \in Jobs \ {j} : (Repeated(i)' <=> Repeated(i)) /\ status'[i] = status[i],
         UNCHANGED <<at, job>>
  PROVE  \A i \in Jobs \ {j} : rowOf'[i] = rowOf[i] /\ scanOf'[i] = scanOf[i]
  <1> SUFFICES ASSUME NEW i \in Jobs \ {j}
               PROVE  rowOf'[i] = rowOf[i] /\ scanOf'[i] = scanOf[i]
    OBVIOUS
  <1>1. \A S : ScannedAt(i, S)' <=> ScannedAt(i, S)
    BY DEF ScannedAt
  <1>2. QED
    BY <1>1, SameRow

LEMMA RowsStay ==
  ASSUME \A j \in Jobs : Repeated(j)' <=> Repeated(j), UNCHANGED <<status, at, job>>
  PROVE  rowOf' = rowOf /\ scanOf' = scanOf
  <1>1. ASSUME NEW j \in Jobs
        PROVE  rowOf'[j] = rowOf[j] /\ scanOf'[j] = scanOf[j]
    <2>1. \A S : ScannedAt(j, S)' <=> ScannedAt(j, S)
      BY DEF ScannedAt
    <2>2. QED
      BY <2>1, SameRow
  <1>2. QED
    BY <1>1, SameFunctions

(* A second scan is asked for: the row is REPEATED from now on, or has been. *)
LEMMA RepeatMapped ==
  ASSUME TypeOK, RemoteInv, NEW j \in Jobs, status[j] # "ABSENT", Repeated(j)',
         \A i \in Jobs \ {j} : (Repeated(i)' <=> Repeated(i)) /\ status'[i] = status[i],
         \A i \in Jobs \ {j} : (\E r \in Requests : reqOp'[r] = "cancel" /\ reqJob'[r] = i)
                                 <=> (\E r \in Requests : reqOp[r] = "cancel" /\ reqJob[r] = i),
         UNCHANGED <<at, job, reported>>
  PROVE  Mapped
  <1>1. rowOf'[j] = "REPEATED" /\ scanOf'[j] = "none"
    BY DEF rowOf, scanOf
  <1>2. rowOf' = [rowOf EXCEPT ![j] = "REPEATED"] /\ scanOf' = [scanOf EXCEPT ![j] = "none"]
    BY <1>1, ApiFrame, SameFunctions
  <1>3. askedOf' = askedOf \ {j}
    <2>1. \A i \in Jobs : i \in askedOf' <=> i \in askedOf /\ i # j
      BY DEF askedOf
    <2>2. askedOf \subseteq Jobs /\ askedOf' \subseteq Jobs
      BY DEF askedOf
    <2>3. QED
      BY <2>1, <2>2
  <1>4. rowOf[j] # "ABSENT"
    BY RowOf
  <1>5. Remote!Repeat(j)
    BY <1>2, <1>3, <1>4 DEF Remote!Repeat
  <1>6. QED
    BY <1>5 DEF Mapped, Remote!RemoteNext

LEMMA ApiMapped == TypeOK /\ TriggerInv /\ RemoteInv /\ (Request \/ Fallback) => Mapped
  <1> SUFFICES ASSUME TypeOK, TriggerInv, RemoteInv, Request \/ Fallback
               PROVE  Mapped
    OBVIOUS
  <1> USE DEF rowVars, requestVars, baseVars, executionVars, workerVars, fallbackVars
  <1>1. ASSUME NEW s \in Submitters, NEW j \in Jobs, AddJobCheck(s, j)
        PROVE  Mapped
    <2>1. UNCHANGED <<status, at, job, history, reqOp, reqJob, reported>>
      BY <1>1 DEF AddJobCheck, CheckRateLimit
    <2>2. QED
      BY <2>1, RowsStay, Unmoved DEF Repeated, askedOf
  <1>2. ASSUME NEW s \in Submitters, AddJobCreate(s)
        PROVE  Mapped
    <2>1. PICK j \in Jobs : j = adding[s] /\ status[j] = "ABSENT"
      BY <1>2 DEF AddJobCreate, CreateJob, TriggerInv, AddingIsNew, TypeOK, BaseTypeOK
    <2>2. /\ status' = [status EXCEPT ![j] = "QUEUED"]
          /\ UNCHANGED <<at, job, history, reqOp, reqJob, reported>>
      BY <1>2, <2>1 DEF AddJobCreate, CreateJob
    <2>3. /\ ~Repeated(j) /\ \A i \in Jobs : Repeated(i)' <=> Repeated(i)
          /\ status'[j] = "QUEUED" /\ \A i \in Jobs \ {j} : status'[i] = status[i]
      BY <2>1, <2>2 DEF RemoteInv, RemoteRow, Repeated, TypeOK, BaseTypeOK
    <2>4. rowOf[j] = "ABSENT" /\ rowOf'[j] = "QUEUED"
      BY <2>1, <2>3 DEF rowOf
    <2>5. scanOf'[j] = scanOf[j]
      <3>1. \A S : ScannedAt(j, S)' <=> ScannedAt(j, S)
        BY <2>2 DEF ScannedAt
      <3>2. QED
        BY <2>3, <3>1 DEF scanOf
    <2>6. rowOf' = [rowOf EXCEPT ![j] = "QUEUED"] /\ scanOf' = scanOf
      BY <2>2, <2>3, <2>4, <2>5, ApiFrame, SameFunctions
    <2>7. askedOf' = askedOf
      BY <2>2, <2>3 DEF askedOf
    <2>8. Remote!Create(j)
      BY <2>2, <2>4, <2>6, <2>7 DEF Remote!Create
    <2>9. QED
      BY <2>8 DEF Mapped, Remote!RemoteNext
  <1>3. ASSUME NEW r \in Requests, NEW j \in Jobs, CancelRead(r, j)
        PROVE  Mapped
    <2>1. /\ reqOp[r] = "none" /\ status[j] = "QUEUED"
          /\ reqOp' = [reqOp EXCEPT ![r] = "cancel"] /\ reqJob' = [reqJob EXCEPT ![r] = j]
          /\ UNCHANGED <<status, at, job, history, reported>>
      BY <1>3 DEF CancelRead, ReadForCancel
    <2>2. /\ UNCHANGED <<rowOf, scanOf>> /\ \A i \in Jobs : Repeated(i)' <=> Repeated(i)
      BY <2>1, RowsStay DEF Repeated
    <2>3. askedOf' = IF Repeated(j) THEN askedOf ELSE askedOf \cup {j}
      <3>1. \A i \in Jobs : (\E q \in Requests : reqOp'[q] = "cancel" /\ reqJob'[q] = i)
                              <=> (i = j \/ \E q \in Requests : reqOp[q] = "cancel" /\ reqJob[q] = i)
        BY <2>1 DEF TypeOK, BaseTypeOK
      <3>2. QED
        BY <2>2, <3>1 DEF askedOf
    <2>4. CASE Repeated(j)
      BY <2>1, <2>2, <2>3, <2>4, Unmoved
    <2>5. CASE ~Repeated(j)
      <3>1. rowOf[j] = "QUEUED"
        BY <2>1, <2>5, RowOf
      <3>2. Remote!AskCancel(j)
        BY <2>1, <2>2, <2>3, <2>5, <3>1 DEF Remote!AskCancel
      <3>3. QED
        BY <3>2 DEF Mapped, Remote!RemoteNext
    <2>6. QED
      BY <2>4, <2>5
  <1>4. ASSUME NEW r \in Requests, CancelWrite(r)
        PROVE  Mapped
    <2>1. PICK j \in Jobs : j = reqJob[r]
      BY <1>4 DEF CancelWrite, WriteCancelled, TypeOK, BaseTypeOK
    <2>2. /\ reqOp[r] = "cancel"
          /\ status' = [status EXCEPT ![j] = "CANCELLED"]
          /\ reqOp' = [reqOp EXCEPT ![r] = "none"] /\ reqJob' = [reqJob EXCEPT ![r] = NoJob]
          /\ UNCHANGED <<at, job, history, reported>>
      BY <1>4, <2>1 DEF CancelWrite, WriteCancelled
    <2>3. /\ \A i \in Jobs : Repeated(i)' <=> Repeated(i)
          /\ status'[j] = "CANCELLED" /\ \A i \in Jobs \ {j} : status'[i] = status[i]
          /\ \A i \in Jobs \ {j} : (\E q \in Requests : reqOp'[q] = "cancel" /\ reqJob'[q] = i)
                                     <=> (\E q \in Requests : reqOp[q] = "cancel" /\ reqJob[q] = i)
          /\ (\E q \in Requests : reqOp'[q] = "cancel" /\ reqJob'[q] = j)
               => (\E q \in Requests : reqOp[q] = "cancel" /\ reqJob[q] = j)
      BY <2>1, <2>2, JobsAssumption DEF Repeated, TypeOK, BaseTypeOK
    <2>4. scanOf'[j] = scanOf[j]
      <3>1. \A S : ScannedAt(j, S)' <=> ScannedAt(j, S)
        BY <2>2 DEF ScannedAt
      <3>2. QED
        BY <2>3, <3>1 DEF scanOf
    <2>5. /\ \A i \in Jobs \ {j} : rowOf'[i] = rowOf[i] /\ scanOf'[i] = scanOf[i]
          /\ scanOf' = scanOf
      BY <2>2, <2>3, <2>4, ApiFrame, SameFunctions
    <2>6. CASE Repeated(j)
      <3>1. rowOf'[j] = rowOf[j]
        BY <2>3, <2>6 DEF rowOf
      <3>2. askedOf' = askedOf
        BY <2>3, <2>6 DEF askedOf
      <3>3. QED
        BY <2>2, <2>5, <3>1, <3>2, SameFunctions, Unmoved
    <2>7. CASE ~Repeated(j)
      <3>1. j \in askedOf
        BY <2>1, <2>2, <2>7 DEF askedOf
      <3>2. askedOf' \in {askedOf, askedOf \ {j}}
        <4>1. /\ \A i \in Jobs \ {j} : i \in askedOf' <=> i \in askedOf
              /\ askedOf \subseteq Jobs /\ askedOf' \subseteq Jobs
          BY <2>3 DEF askedOf
        <4>2. QED
          BY <3>1, <4>1
      <3>3. rowOf'[j] = "CANCELLED"
        BY <2>3, <2>7 DEF rowOf
      <3>4. rowOf' = [rowOf EXCEPT ![j] = "CANCELLED"]
        BY <2>5, <3>3, SameFunctions
      <3>5. Remote!Cancel(j)
        BY <2>2, <2>5, <3>1, <3>2, <3>4 DEF Remote!Cancel
      <3>6. QED
        BY <3>5 DEF Mapped, Remote!RemoteNext
    <2>8. QED
      BY <2>6, <2>7
  <1>5. ASSUME NEW r \in Requests, NEW j \in Jobs, RetryRead(r, j)
        PROVE  Mapped
    <2>1. /\ reqOp[r] = "none"
          /\ reqOp' = [reqOp EXCEPT ![r] = "retry"] /\ reqJob' = [reqJob EXCEPT ![r] = j]
          /\ UNCHANGED <<status, at, job, history, reported>>
      BY <1>5 DEF RetryRead, ReadForRetry
    <2>2. \A i \in Jobs : (\E q \in Requests : reqOp'[q] = "cancel" /\ reqJob'[q] = i)
                            <=> (\E q \in Requests : reqOp[q] = "cancel" /\ reqJob[q] = i)
      BY <2>1 DEF TypeOK, BaseTypeOK
    <2>3. QED
      BY <2>1, <2>2, RowsStay, Unmoved DEF Repeated, askedOf
  <1>6. ASSUME NEW r \in Requests, RetryWrite(r)
        PROVE  Mapped
    <2>1. PICK j \in Jobs : j = reqJob[r] /\ status[j] # "ABSENT"
      BY <1>6 DEF RetryWrite, WriteRequeued, TriggerInv, AbsentIsUnknown, TypeOK, BaseTypeOK
    <2>2. /\ reqOp[r] = "retry"
          /\ status' = [status EXCEPT ![j] = "QUEUED"]
          /\ reqOp' = [reqOp EXCEPT ![r] = "none"] /\ reqJob' = [reqJob EXCEPT ![r] = NoJob]
          /\ history' = [i \in Jobs |-> history[i] \cup IF i \in {j} THEN {"askedAgain"} ELSE {}]
          /\ UNCHANGED <<at, job, reported>>
      BY <1>6, <2>1 DEF RetryWrite, WriteRequeued, Note
    <2>3. /\ Repeated(j)'
          /\ \A i \in Jobs \ {j} : (Repeated(i)' <=> Repeated(i)) /\ status'[i] = status[i]
          /\ \A i \in Jobs : (\E q \in Requests : reqOp'[q] = "cancel" /\ reqJob'[q] = i)
                               <=> (\E q \in Requests : reqOp[q] = "cancel" /\ reqJob[q] = i)
      BY <2>2 DEF Repeated, TypeOK, BaseTypeOK, WorkerTypeOK
    <2>4. QED
      BY <2>1, <2>2, <2>3, RepeatMapped
  <1>7. ASSUME NEW j \in Jobs, GrowStale(j)
        PROVE  Mapped
    BY <1>7, RowsStay, Unmoved DEF GrowStale, Repeated, askedOf
  <1>8. ASSUME NEW k \in Checks, CheckStale(k)
        PROVE  Mapped
    BY <1>8, RowsStay, Unmoved DEF CheckStale, Repeated, askedOf
  <1>9. ASSUME NEW k \in Checks, Retrigger(k)
        PROVE  Mapped
    <2>1. PICK j \in todo[k] : Note("askedAgain", {j})
      BY <1>9 DEF Retrigger
    <2>2. j \in Jobs /\ status[j] # "ABSENT"
      BY DEF TriggerInv, AbsentIsUnknown, TypeOK
    <2>3. /\ history' = [i \in Jobs |-> history[i] \cup IF i \in {j} THEN {"askedAgain"} ELSE {}]
          /\ UNCHANGED <<status, reqOp, reqJob, at, job, reported>>
      BY <1>9, <2>1 DEF Retrigger, Note
    <2>4. Repeated(j)' /\ \A i \in Jobs \ {j} : Repeated(i)' <=> Repeated(i)
      BY <2>2, <2>3 DEF Repeated
    <2>5. QED
      BY <2>2, <2>3, <2>4, RepeatMapped
  <1>10. CASE Restart
    <2>1. /\ reqOp' = [r \in Requests |-> "none"]
          /\ UNCHANGED <<status, at, job, history, reported>>
      BY <1>10 DEF Restart, DropRequests
    <2>2. UNCHANGED <<rowOf, scanOf>>
      BY <2>1, RowsStay DEF Repeated
    <2>3. askedOf' = {}
      BY <2>1 DEF askedOf
    <2>4. Remote!ForgetCancels
      BY <2>1, <2>2, <2>3 DEF Remote!ForgetCancels
    <2>5. QED
      BY <2>4 DEF Mapped, Remote!RemoteNext
  <1>11. QED
    BY <1>1, <1>2, <1>3, <1>4, <1>5, <1>6, <1>7, <1>8, <1>9, <1>10 DEF Request, Fallback

(* An instance ends: the scans of its executions stop, and their rows are lost if they say PROCESSING. *)
LEMMA ExitMapped ==
  ASSUME TypeOK, TriggerInv, RemoteInv, NEW w \in Workers, Exit(w)
  PROVE  Mapped
  <1> DEFINE ended == {e \in Executions : on[e] = w}
             stopped == {j \in Jobs : ~Repeated(j) /\ \E e \in ended : job[e] = j}
  <1>1. /\ \A e \in ended : job'[e] = NoJob
        /\ \A e \in Executions \ ended : at'[e] = at[e] /\ job'[e] = job[e]
        /\ UNCHANGED <<status, reqOp, reqJob, reported>>
    BY DEF Exit, baseVars, rowVars, requestVars
  <1>2. \A j \in Jobs : Repeated(j)' <=> Repeated(j)
    BY DEF Exit, Note, Repeated, TypeOK, WorkerTypeOK
  <1>3. ASSUME NEW j \in stopped
        PROVE  /\ scanOf'[j] = "none"
               /\ rowOf'[j] = IF rowOf[j] = "PROCESSING" THEN "LOST" ELSE rowOf[j]
    <2>1. PICK e \in ended : job[e] = j
      OBVIOUS
    <2>2. \A d \in Executions : job[d] = j => d = e
      BY <2>1, OnlyExecution
    <2>3. \A S : ~ScannedAt(j, S)'
      BY <1>1, <2>1, <2>2, JobsAssumption DEF ScannedAt
    <2>4. j \in Jobs /\ ~Repeated(j) /\ ~Repeated(j)' /\ status'[j] = status[j]
      BY <1>1, <1>2
    <2>5. scanOf'[j] = "none"
      BY <2>3, <2>4 DEF scanOf
    <2>6. rowOf'[j] = IF status[j] = "PROCESSING" THEN "LOST" ELSE status[j]
      BY <2>3, <2>4 DEF rowOf
    <2>7. rowOf[j] \in {"LOST", status[j]} /\ (rowOf[j] = "LOST" => status[j] = "PROCESSING")
      <3>1. status[j] # "LOST"
        BY <2>4 DEF TypeOK, BaseTypeOK, Statuses
      <3>2. QED
        BY <2>4, <3>1, RowOf
    <2>8. QED
      BY <2>5, <2>6, <2>7
  <1>4. ASSUME NEW j \in Jobs \ stopped
        PROVE  scanOf'[j] = scanOf[j] /\ rowOf'[j] = rowOf[j]
    <2>1. ASSUME ~Repeated(j), NEW S
          PROVE  ScannedAt(j, S)' <=> ScannedAt(j, S)
      <3>1. \A e \in Executions : job'[e] = j /\ at'[e] \in S <=> job[e] = j /\ at[e] \in S
        BY <1>1, <2>1, JobsAssumption
      <3>2. QED
        BY <3>1 DEF ScannedAt
    <2>2. QED
      BY <1>1, <1>2, <2>1, SameRow
  <1> HIDE DEF stopped
  <1>5. stopped \in SUBSET Jobs
    BY DEF stopped
  <1>6. /\ scanOf' = [j \in Jobs |-> IF j \in stopped THEN "none" ELSE scanOf[j]]
        /\ rowOf' = [j \in Jobs |-> IF j \in stopped /\ rowOf[j] = "PROCESSING" THEN "LOST" ELSE rowOf[j]]
    <2>1. rowOf' = [j \in Jobs |-> rowOf'[j]] /\ scanOf' = [j \in Jobs |-> scanOf'[j]]
      BY DEF rowOf, scanOf
    <2>2. QED
      BY <1>3, <1>4, <1>5, <2>1
  <1>7. askedOf' = askedOf
    BY <1>1, <1>2 DEF askedOf
  <1>8. Remote!Stop(stopped)
    BY <1>1, <1>6, <1>7 DEF Remote!Stop
  <1>9. QED
    BY <1>5, <1>8 DEF Mapped, Remote!RemoteNext

LEMMA WorkerMapped == TypeOK /\ TriggerInv /\ RemoteInv /\ WorkerNext => Mapped
  <1> SUFFICES ASSUME TypeOK, TriggerInv, RemoteInv, WorkerNext
               PROVE  Mapped
    OBVIOUS
  <1> USE DEF rowVars, requestVars, baseVars, executionVars
  <1>1. ASSUME NEW j \in Jobs, NEW w \in Workers, NEW e \in Executions, Accept(w, e, j)
        PROVE  Mapped
    <2>1. /\ at[e] = "idle" /\ at' = [at EXCEPT ![e] = "read"]
          /\ \A d \in Executions \ {e} : job'[d] = job[d]
          /\ UNCHANGED <<status, history, reqOp, reqJob, reported>>
      BY <1>1 DEF Accept
    <2>2. ASSUME NEW i \in Jobs
          PROVE  rowOf'[i] = rowOf[i] /\ scanOf'[i] = scanOf[i]
      <3>1. ASSUME NEW S, S \subseteq Counted \cup {"mark"}
            PROVE  ScannedAt(i, S)' <=> ScannedAt(i, S)
        BY <2>1, <3>1 DEF ScannedAt, Counted, TypeOK, WorkerTypeOK
      <3>2. /\ ScannedAt(i, Counted)' <=> ScannedAt(i, Counted)
            /\ ScannedAt(i, {"mark"})' <=> ScannedAt(i, {"mark"})
            /\ ScannedAt(i, {"scan", "save"})' <=> ScannedAt(i, {"scan", "save"})
            /\ ScannedAt(i, {"complete"})' <=> ScannedAt(i, {"complete"})
            /\ ScannedAt(i, {"caught"})' <=> ScannedAt(i, {"caught"})
        BY <3>1 DEF Counted
      <3>3. (Repeated(i)' <=> Repeated(i)) /\ status'[i] = status[i]
        BY <2>1 DEF Repeated
      <3>4. QED
        BY <3>2, <3>3 DEF rowOf, scanOf
    <2>3. askedOf' = askedOf
      BY <2>1 DEF askedOf, Repeated
    <2>4. QED
      BY <2>1, <2>2, <2>3, SameFunctions, Unmoved
  <1>2. ASSUME NEW j \in Jobs, Lose(j) \/ \E w \in Workers : TurnAway(w, j)
        PROVE  Mapped
    BY <1>2, RowsStay, Unmoved DEF Lose, TurnAway, Repeated, askedOf
  <1>3. ASSUME NEW w \in Workers, ShutDown(w)
        PROVE  Mapped
    BY <1>3, RowsStay, Unmoved DEF ShutDown, Repeated, askedOf
  <1>4. QED
    BY <1>1, <1>2, <1>3, ExecutionMapped, ExitMapped DEF WorkerNext, Deliver

(***************************************************************************)
(* The workers, the requests to them and the fallback implement RemoteScan *)
(* under every loss, repetition, failed call and stop: what the workers do *)
(* to a row that was asked for once is a step of its one scan, and what    *)
(* they do to any other row adds at most the report of its audit.          *)
(***************************************************************************)
THEOREM QueueImplementsRemoteScan == Spec => ImplementsRemoteScan
  <1>1. Init => TriggerInv /\ RemoteInv
    BY JobsAssumption DEF Init, BaseInit, WorkerInit, TriggerInv, AbsentIsUnknown, AddingIsNew,
                          OneTrigger, RemoteInv, RemoteRow, Repeated, ScannedAt, Accepted
  <1>2. TypeOK /\ TypeOK' /\ TriggerInv /\ RemoteInv /\ [Next]_vars => TriggerInv' /\ RemoteInv'
    <2> SUFFICES ASSUME TypeOK, TypeOK', TriggerInv, RemoteInv, [Next]_vars
                 PROVE  TriggerInv' /\ RemoteInv'
      OBVIOUS
    <2>1. CASE UNCHANGED vars
      BY <2>1 DEF vars, rowVars, requestVars, baseVars, executionVars, workerVars, fallbackVars,
                  TriggerInv, AbsentIsUnknown, AddingIsNew, OneTrigger, RemoteInv, RemoteRow, Repeated,
                  ScannedAt
    <2>2. QED
      BY <2>1, ApiTrigger, WorkerTrigger, ApiRemote, WorkerRemote DEF Next
  <1>3. Init => Remote!RemoteInit
    BY DEF Init, BaseInit, WorkerInit, Remote!RemoteInit, rowOf, scanOf, askedOf, Repeated, ScannedAt, Counted
  <1>4. TypeOK /\ TriggerInv /\ RemoteInv /\ [Next]_vars => [Remote!RemoteNext]_(Remote!remoteVars)
    <2> SUFFICES ASSUME TypeOK, TriggerInv, RemoteInv, [Next]_vars
                 PROVE  Mapped
      BY DEF Mapped
    <2>1. CASE UNCHANGED vars
      BY <2>1, RowsStay, Unmoved DEF vars, rowVars, requestVars, baseVars, executionVars, workerVars,
                                     Repeated, askedOf
    <2>2. QED
      BY <2>1, ApiMapped, WorkerMapped DEF Next
  <1>5. QED
    BY <1>1, <1>2, <1>3, <1>4, TypeCorrect, PTL DEF Spec, ImplementsRemoteScan, Remote!RemoteSpec

=============================================================================
