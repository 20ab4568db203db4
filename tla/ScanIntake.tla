----------------------------- MODULE ScanIntake -----------------------------
(***************************************************************************)
(* POST /scanner/queue from the client to the ScanJob row: TurnstileGuard, *)
(* IdempotencyInterceptor, TimeoutInterceptor, queueScan, AuditService and *)
(* addJob: the limit, the row, the hand-over to the transport and the      *)
(* position in the answer.  A request is split at its awaits.  Guards run  *)
(* before interceptors, and the idempotency interceptor (an                *)
(* APP_INTERCEPTOR) is outside the time-out one (added in main.ts).        *)
(*                                                                         *)
(* A client that repeats a request makes another one, with the key and the *)
(* form of the first and a captcha token of its choice.                    *)
(***************************************************************************)
EXTENDS Naturals, FiniteSets

CONSTANTS
    Requests,  \* HTTP requests; a row a request creates is named by the request
    NoRequest,
    Keys,      \* values of the Idempotency-Key header
    NoKey,     \* a request without the header
    Forms,     \* request bodies without turnstileToken, as hashRequestBody sees them
    Consents,  \* the forms with userEmail and agreeScan and without auditRequestId
    Tokens,    \* turnstile tokens
    MaxConcurrentPerClient, \* MAX_CONCURRENT_PER_CLIENT_IP; the requests have one clientIp
    MaxFaults  \* BOUND on crashes, failed database calls, time-outs and expiries

ASSUME IntakeAssumption ==
    /\ NoRequest \notin Requests /\ NoKey \notin Keys
    /\ Consents \subseteq Forms
    /\ MaxConcurrentPerClient \in Nat /\ MaxFaults \in Nat

VARIABLES
    captcha,  \* "enforced": there is a secret; without one "closed" in production, else "open"
    pc,       \* pc[q]: where q is
    call,     \* call[q]: the key, form and token q came with
    spent,    \* tokens siteverify has been asked about
    record,   \* record[k]: the job in the response stored under k, or NoRequest
    storing,  \* responses whose upsert is under way
    audits,   \* AuditRequest rows
    jobs,     \* ScanJob rows
    auditOf,  \* auditOf[j]: column auditRequestId
    live,     \* rows QUEUED or PROCESSING
    reply,    \* reply[q]: what the client of q was told
    told,     \* told[q]: the job in a 2xx reply
    faults,
    rivals,   \* rivals[q]: requests with the key of q still open when q was sent
    excused,  \* requests whose response was not stored, or has expired
    failedLate \* requests that were answered with an error though their row exists;
              \* a history variable, as rivals and excused

rows == <<audits, jobs, auditOf, live>>
history == <<rivals, excused, failedLate>>
vars == <<captcha, pc, call, spent, record, storing, rows, reply, told, faults, history>>

Calls == [key : Keys \cup {NoKey}, form : Forms, token : Tokens]
Queued == {"enqueue", "position"}  \* the row exists and the answer does not
InHandler == {"validate", "audit", "mail", "limit", "create"} \cup Queued

TypeOK ==
    /\ captcha \in {"enforced", "closed", "open"}
    /\ pc \in [Requests -> {"new", "guard", "lookup", "done"} \cup InHandler]
    /\ call \in [Requests -> Calls \cup {NoRequest}]
    /\ \A q \in Requests : pc[q] # "new" => call[q] \in Calls
    /\ spent \subseteq Tokens
    /\ record \in [Keys -> Requests \cup {NoRequest}]
    /\ storing \cup audits \cup jobs \cup live \cup excused \cup failedLate \subseteq Requests
    /\ auditOf \in [Requests -> Requests \cup {NoRequest}]
    /\ reply \in [Requests -> {"none", "created", "replayed", "403", "409", "400", "error", "408"}]
    /\ told \in [Requests -> Requests \cup {NoRequest}]
    /\ rivals \in [Requests -> SUBSET Requests]

Init ==
    /\ captcha \in {"enforced", "closed", "open"}
    /\ pc = [q \in Requests |-> "new"]
    /\ call = [q \in Requests |-> NoRequest]
    /\ spent = {}
    /\ record = [k \in Keys |-> NoRequest]
    /\ storing = {}
    /\ audits = {} /\ jobs = {} /\ live = {}
    /\ auditOf = [q \in Requests |-> NoRequest]
    /\ reply = [q \in Requests |-> "none"]
    /\ told = [q \in Requests |-> NoRequest]
    /\ faults = 0
    /\ rivals = [q \in Requests |-> {}]
    /\ excused = {}
    /\ failedLate = {}

Goto(q, p) == pc' = [pc EXCEPT ![q] = p]
Fault == faults < MaxFaults /\ faults' = faults + 1

(* The request ends; a client that has been told 408 already hears no more. *)
Answer(q, r, j) ==
    /\ Goto(q, "done")
    /\ reply' = [reply EXCEPT ![q] = IF @ = "none" THEN r ELSE @]
    /\ told' = [told EXCEPT ![q] = IF reply[q] = "none" THEN j ELSE @]

Open == {q \in Requests : pc[q] \notin {"new", "done"}} \cup storing

Send(q) ==
    /\ pc[q] = "new"
    /\ \E c \in Calls :
        /\ call' = [call EXCEPT ![q] = c]
        /\ rivals' = [rivals EXCEPT ![q] = {p \in Open : call[p].key = c.key}]
    /\ Goto(q, "guard")
    /\ UNCHANGED <<captcha, spent, record, storing, rows, reply, told, faults, excused, failedLate>>

-----------------------------------------------------------------------------
(***************************************************************************)
(* TurnstileGuard.  siteverify (external) accepts a token once; a call of  *)
(* it may fail before or after it has been counted.                        *)
(***************************************************************************)
(* Faulty variant: a call of siteverify that fails lets the request through. *)
VerifyFailsOpen(q) ==
    /\ captcha = "enforced"
    /\ Fault
    /\ Goto(q, "lookup")
    /\ UNCHANGED <<reply, told, spent>>

VerifyFails(q) ==
    /\ captcha = "enforced"
    /\ Fault
    /\ Answer(q, "403", NoRequest)
    /\ spent' \in {spent, spent \cup {call[q].token}}

Verify(q) ==
    /\ captcha = "enforced"
    /\ spent' = spent \cup {call[q].token}
    /\ IF call[q].token \in spent THEN Answer(q, "403", NoRequest)
                                  ELSE Goto(q, "lookup") /\ UNCHANGED <<reply, told>>
    /\ UNCHANGED faults

VerifyUnconfigured(q) ==
    /\ \/ captcha = "closed" /\ Answer(q, "403", NoRequest)
       \/ captcha = "open" /\ Goto(q, "lookup") /\ UNCHANGED <<reply, told>>
    /\ UNCHANGED <<spent, faults>>

CanActivate(q) ==
    /\ pc[q] = "guard"
    /\ Verify(q) \/ VerifyFails(q) \/ VerifyUnconfigured(q)
    /\ UNCHANGED <<captcha, call, record, storing, rows, history>>

-----------------------------------------------------------------------------
(***************************************************************************)
(* IdempotencyInterceptor.  An expired record reads as none, so it is      *)
(* forgotten when its time is up, before the nightly clean-up deletes it.  *)
(***************************************************************************)
(* Faulty variant: the record is looked up by the hash of the body, too. *)
StoredForForm(q) ==
    IF call[q].key = NoKey THEN NoRequest
    ELSE LET j == record[call[q].key] IN
         IF j # NoRequest /\ call[j].form = call[q].form THEN j ELSE NoRequest

Stored(q) == IF call[q].key = NoKey THEN NoRequest ELSE record[call[q].key]

(* Faulty variant: the hash of the body is not compared. *)
ConflictsNever(q) == FALSE

Conflicts(q) == Stored(q) # NoRequest /\ call[Stored(q)].form # call[q].form

Lookup(q) ==
    /\ pc[q] = "lookup"
    /\ \/ Stored(q) = NoRequest /\ Goto(q, "validate") /\ UNCHANGED <<reply, told>>
       \/ Conflicts(q) /\ Answer(q, "409", NoRequest)
       \/ Stored(q) # NoRequest /\ ~Conflicts(q) /\ Answer(q, "replayed", Stored(q))
    /\ UNCHANGED <<captcha, call, spent, record, storing, rows, faults, history>>

(* a write that is reported as failed may have been applied *)
RowIsThere(q) ==
    \/ pc[q] = "audit" /\ audits' = audits \cup {q} /\ UNCHANGED <<jobs, live>>
    \/ pc[q] = "create" /\ jobs' = jobs \cup {q} /\ live' = live \cup {q} /\ UNCHANGED audits

(* The lookup throws, or the handler does: nothing is stored.  A row made before stays,
   whether it was enqueueOnTransport that threw or a read of the position. *)
Throws(q) ==
    /\ pc[q] \in {"lookup"} \cup InHandler
    /\ Fault
    /\ UNCHANGED <<audits, jobs, live>> \/ RowIsThere(q)
    /\ failedLate' = failedLate \cup ({q} \cap jobs')
    /\ Answer(q, "error", NoRequest)
    /\ UNCHANGED <<captcha, call, spent, record, storing, auditOf, rivals, excused>>

(* store() is started as the response leaves and not awaited.  The response of a request that has
   been told 408 comes from nowhere: tap() has been unsubscribed. *)
Stores(q) == call[q].key # NoKey /\ reply[q] = "none"

Store(q) ==
    /\ q \in storing
    /\ record' = [record EXCEPT ![call[q].key] = q]
    /\ storing' = storing \ {q}
    /\ UNCHANGED <<captcha, pc, call, spent, rows, reply, told, faults, history>>

StoreFails(q) ==
    /\ q \in storing
    /\ Fault
    /\ storing' = storing \ {q}
    /\ excused' = excused \cup {q}
    /\ UNCHANGED <<captcha, pc, call, spent, record, rows, reply, told, rivals, failedLate>>

Expire(k) ==
    /\ record[k] # NoRequest
    /\ Fault
    /\ record' = [record EXCEPT ![k] = NoRequest]
    /\ excused' = excused \cup {q \in Requests \ storing : call[q] \in Calls /\ call[q].key = k}
    /\ UNCHANGED <<captcha, pc, call, spent, storing, rows, reply, told, rivals, failedLate>>

(* TimeoutInterceptor: the client is told 408, the handler goes on *)
TimeOut(q) ==
    /\ pc[q] \in InHandler /\ reply[q] = "none"
    /\ Fault
    /\ reply' = [reply EXCEPT ![q] = "408"]
    /\ UNCHANGED <<captcha, pc, call, spent, record, storing, rows, told, history>>

-----------------------------------------------------------------------------
(***************************************************************************)
(* queueScan                                                               *)
(***************************************************************************)
(* Faulty variant: the consent is written down after the scan is queued. *)
ValidateLeavesConsent(q) ==
    /\ pc[q] = "validate"
    /\ Goto(q, "limit")
    /\ UNCHANGED <<captcha, call, spent, record, storing, rows, reply, told, faults, history>>

(* validateAndCheckUrl: a policy or a DNS answer, either way *)
Validate(q) ==
    /\ pc[q] = "validate"
    /\ \/ Answer(q, "400", NoRequest)
       \/ Goto(q, IF call[q].form \in Consents THEN "audit" ELSE "limit") /\ UNCHANGED <<reply, told>>
    /\ UNCHANGED <<captcha, call, spent, record, storing, rows, faults, history>>

CreateAuditRequest(q) ==
    /\ pc[q] = "audit"
    /\ audits' = audits \cup {q}
    /\ auditOf' = [auditOf EXCEPT ![q] = q]
    /\ Goto(q, "mail")
    /\ UNCHANGED <<captcha, call, spent, record, storing, jobs, live, reply, told, faults, history>>

(* the confirmation and the notification: both awaited, neither throws *)
SendMails(q) ==
    /\ pc[q] = "mail"
    /\ Goto(q, "limit")
    /\ UNCHANGED <<captcha, call, spent, record, storing, rows, reply, told, faults, history>>

AssertWithinLimit(q) ==
    /\ pc[q] = "limit"
    /\ IF Cardinality(live) < MaxConcurrentPerClient
       THEN Goto(q, "create") /\ UNCHANGED <<reply, told>>
       ELSE Answer(q, "error", NoRequest)
    /\ UNCHANGED <<captcha, call, spent, record, storing, rows, faults, history>>

CreateJob(q) ==
    /\ pc[q] = "create"
    /\ jobs' = jobs \cup {q}
    /\ live' = live \cup {q}
    /\ Goto(q, "enqueue")
    /\ UNCHANGED <<captcha, call, spent, record, storing, audits, auditOf, reply, told, faults,
                   history>>

(* What the transport does with the row is in the modules of the queue. *)
EnqueueOnTransport(q) ==
    /\ pc[q] = "enqueue"
    /\ Goto(q, "position")
    /\ UNCHANGED <<captcha, call, spent, record, storing, rows, reply, told, faults, history>>

(* getQueuePosition and formatJobStatus *)
Respond(q) ==
    /\ pc[q] = "position"
    /\ Answer(q, "created", q)
    /\ IF Stores(q) THEN storing' = storing \cup {q} /\ UNCHANGED excused
                    ELSE excused' = excused \cup {q} /\ UNCHANGED storing
    /\ UNCHANGED <<captcha, call, spent, record, rows, faults, rivals, failedLate>>

JobEnds(j) ==
    /\ live' = live \ {j}
    /\ j \in live
    /\ UNCHANGED <<captcha, pc, call, spent, record, storing, audits, jobs, auditOf, reply, told,
                   faults, history>>

Crash ==
    /\ Fault
    /\ Open # {}
    /\ pc' = [q \in Requests |-> IF pc[q] = "new" THEN "new" ELSE "done"]
    /\ reply' = [q \in Requests |-> IF q \in Open /\ reply[q] = "none" THEN "error" ELSE reply[q]]
    /\ storing' = {}
    /\ excused' = excused \cup Open
    /\ UNCHANGED <<captcha, call, spent, record, rows, told, rivals, failedLate>>

Handle(q) ==
    \/ Validate(q) \/ CreateAuditRequest(q) \/ SendMails(q)
    \/ AssertWithinLimit(q) \/ CreateJob(q) \/ EnqueueOnTransport(q) \/ Respond(q)

Next ==
    \/ \E q \in Requests :
        \/ Send(q) \/ CanActivate(q) \/ Lookup(q) \/ Throws(q)
        \/ Handle(q) \/ TimeOut(q) \/ Store(q) \/ StoreFails(q) \/ JobEnds(q)
    \/ \E k \in Keys : Expire(k)
    \/ Crash

Spec == Init /\ [][Next]_vars

-----------------------------------------------------------------------------
(***************************************************************************)
(* Properties                                                              *)
(***************************************************************************)
(* Two jobs come from one key only if the requests overlapped, or the response of one of them was
   never kept (a time-out, a crash, a failed store, the end of its 24 hours), or one of them was
   answered with an error after its row was made: nothing takes that row back, and the client that
   repeats the request makes another.  (Retries are not deduplicated while the first is running.) *)
DuplicatesHaveAnExcuse ==
    \A p, q \in jobs :
        p # q /\ call[p].key = call[q].key /\ call[p].key # NoKey =>
            \/ p \in rivals[q] \/ q \in rivals[p]
            \/ {p, q} \cap (excused \cup failedLate) # {}

(* A client is told of a job that exists and was made from its own form: a response is replayed to
   nobody else and a failure to nobody. *)
ReplyIsTrue ==
    \A q \in Requests :
        reply[q] \in {"created", "replayed"} =>
            told[q] \in jobs /\ call[told[q]].form = call[q].form

(* The consent flags are in the database before the scan is (scanner.controller.ts:437), and an audit
   nobody will scan belongs to a request that is still open or has failed for its client. *)
ConsentIsRecorded ==
    \A q \in Requests :
        /\ q \in jobs /\ call[q].form \in Consents => auditOf[q] \in audits
        /\ q \in audits \ jobs => q \in Open \/ reply[q] \notin {"none", "created", "replayed"}

(* Where the captcha is enforced every job has cost a token of its own. *)
CaptchaPerJob ==
    captcha = "enforced" =>
        \A p, q \in jobs : call[p].token \in spent /\ (p # q => call[p].token # call[q].token)

=============================================================================
