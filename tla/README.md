# TLA+ models of the GDPR scanner backend

This directory holds TLA+ models of the backend in `src/`: a NestJS API that
takes scan requests, queues and runs them, stores reports and sells the full
report through Stripe. The models are checked by TLC on small instances, and
most safety properties are proved by TLAPS for every value of the constants.
`PROJECT.json` names the lines of source every definition stands for.

Contents: [the system](#the-system) · [modules](#modules) ·
[correspondence with the code](#correspondence-with-the-code) ·
[runs](#runs) · [fairness](#fairness) · [proofs](#proofs) ·
[where code and docs disagree](#where-code-and-docs-disagree) ·
[not modelled](#not-modelled) · [plan](#plan)

## The system

One Node.js process serves the API; with two of the four queue backends scans
run in it too, and with the other two a separate worker process runs them. All
state that matters is in PostgreSQL, plus Redis (counters, BullMQ), Stripe and a
few fields in memory. JavaScript runs one callback at a time, so *every `await`
is a point where other requests run*, and nothing else is: the models split
each function at its awaited calls and nowhere else. What excludes others is a few
transactions and unique indexes of the database (report storage, launch slots, the
webhook); the flags in memory (`isProcessing`, `browserLock`) are tested before an
`await` and set after it.

| Part | State | Operations | Talks to |
|---|---|---|---|
| Queue operations (`scanner/queue/base-queue`) | `ScanJob` rows | addJob, cancelJob, retryJob, getQueuePosition | a backend, by enqueue/retry/cancelOnTransport |
| PostgreSQL backend (`postgres-queue`) | `isProcessing`, in memory | processNextJob, executeJob, driven by a timer, `startWorker` and a `setImmediate` after each addJob/retryJob | rows, scan engine, report storage |
| Cloud Run backend (`cloudrun-queue`) | a timer | triggerWorker, checkStaleJobs | `POST /scan` of the worker; rows |
| Worker (`worker/main.ts`) | `activeJobs`, `shuttingDown` | POST /scan, executeScan, shutdown | rows, scan engine, report storage |
| Redis and hybrid backends (`redis-queue`, `hybrid-queue`) | BullMQ queue, worker health | consumer, overflow to the worker | BullMQ, worker, rows |
| Intake (`scanner.controller`, `audit`, `idempotency`, `turnstile`) | `AuditRequest`, `IdempotencyRecord` | POST /scanner/queue and friends | queue operations, Cloudflare |
| Scan engine (`scanner.service`, `browser-manager`, analyzers) | one browser, `browserLock`, per-analyzer fields | scanWebsite | Playwright |
| Report storage (`scanner-report`) | `AuditReport` and children | saveScanResult, reads | rows |
| Launch pricing (`pricing`) | Redis counters, `LaunchPurchase` rows | reserveSlot, recordPurchase, updatePurchaseStatus, reset, restore | payment |
| Payment (`payment`) | `Payment`, `LaunchPurchase`, `AuditReport.fullReportUnlocked` | two checkouts, webhook, verify | Stripe, pricing |
| Analytics, email, PDF, health | sessions and events; counters | create, track, report, send | external services |

What is hard in each part, and what makes it correct:

* **Queue operations.** The per-client limit is a count and then a create; cancel
  and retry read a status and later write by id. Correct if the limit is overshot
  by no more than the requests in flight, and a row follows its life cycle.
* **PostgreSQL backend.** `isProcessing` is tested two awaits before it is set, so
  invocations overlap; a PROCESSING row is a lock that nobody releases after a crash.
  Correct if the flag and the PROCESSING rows always have an owner, one job runs at
  a time, an audit is completed once, no job is lost, attempts are counted.
* **Cloud Run backend and worker.** Requests are lost, late or turned away;
  instances are stopped in the middle of a scan; capacity is tested long before a
  scan is counted; one row may be scanned twice. Correct if what is lost on the way
  is asked for again, COMPLETED implies a report, PROCESSING implies an execution.
* **Launch pricing.** Concurrent requests are given one slot, counters are reset and
  restored from stale reads. Correct if no slot is sold twice.
* **Payment.** A Stripe session exists before its row; webhooks come late,
  repeatedly and in any order, or are refused every time for their signature; verify
  requests do the same writes piecemeal. Correct if access is given to those who paid,
  only to them, and to all of them who ask.
* **Redis and hybrid backends.** Rows and BullMQ jobs are written one after the other and
  either may fail; a consumer here and a worker there run one row without knowing of each
  other; a replay reuses an id that BullMQ may still know. Correct if no QUEUED row is
  forgotten in silence and no PROCESSING row left behind, what is COMPLETED is not run
  again, and every accepted job ends.
* **Intake.** A replayed request races with the first one and with the store of its
  response, which is not awaited; the time-out answers and the handler goes on; the audit
  exists before its job is refused. Correct if a key makes one job unless there is an
  excuse, an answer is true, no scan lacks its recorded consent, and a captcha token pays once.
* **Scan engine.** A scan that has timed out goes on; overlapping scans share analyzers,
  the browser and its lock; browsers die. Correct if a scan that is alone reports what is its own,
  leaks no browser, gives up over crashes only after a second browser, and the lock is
  always released.
* **Analyzers, issues.** One browser page goes through all phases, so a phase sees what
  earlier ones have left: where the page is, what has been clicked, which requests have
  come and been counted; most failures are swallowed, and then count as nothing found.
  Correct if a report accuses a site of nothing it does not do, its evidence is true, and
  it reports what the home page shows, but for named exceptions.

Every hazard is listed at its line in `PROJECT.json`, with the properties that
watch it or the reason why none does.

## Modules

| Module | Models | Uses |
|---|---|---|
| `ScanJobLifecycle` | abstract specification: the life of a `ScanJob` row, one PROCESSING row at a time, at most MaxAttempts executions before FAILED | |
| `BaseQueue` | BaseQueueService over the rows | |
| `PostgresQueue` | PostgresQueueService; refines `ScanJobLifecycle` | `BaseQueue` |
| `ScanWorker` | worker/main.ts, any number of instances, and the HTTP requests to them | `BaseQueue` |
| `RemoteScan` | abstract specification: the one scan of a row that is done elsewhere, its outcome and its report | |
| `CloudRunQueue` | CloudRunQueueService; refines `RemoteScan` | `ScanWorker` |
| `BrokerQueue` | RedisQueueService and HybridQueueService over an external BullMQ | `ScanWorker` |
| `ReportSale` | abstract specification: the sale of reports, orders, prices, books and access | |
| `LaunchPricing` | the slots and the price of PricingService | |
| `Checkout` | PaymentService, its webhook and a nondeterministic Stripe; refines `ReportSale` | `LaunchPricing` |
| `ScanIntake` | POST /scanner/queue: Turnstile, idempotency, time-out, consent, limit, row | |
| `ScanEngine` | scanWebsite and BrowserManagerService: what concurrent scans share | |
| `Verdict` | the issues, the risk, the score and the evidence, as functions of what a scan has found | |
| `SiteScan` | one executeScan: the phases, the analyzers, the request listeners, on an external web site | `Verdict` |
| `PostgresQueueProofs`, `CloudRunQueueProofs`, `BrokerQueueProofs`, `CheckoutProofs`, `ScanIntakeProofs`, `ScanEngineProofs`, `SiteScanProofs` | theorems | TLAPS |
| `MC*` | constants and symmetry for TLC | |

`BaseQueue`, `ScanWorker` and `LaunchPricing` describe only their own variables;
the module that EXTENDS them wraps each operation, adds what the backend does in
the same step, and says what stays unchanged. `ScanIntake` ends where the queue begins:
its `CreateJob`, `EnqueueOnTransport` and `Respond` are the three parts of addJob, and the later
life of the row is in any of the three queues.
`ScanEngine` and `SiteScan` are two views of one function: the first has what several
calls do to each other and one tracker, the second one undisturbed call and all it finds.

Definitions commented *Faulty variant* model a plausible mistake (a dropped test,
an unset flag). No specification uses them: each shows that some property notices
the mistake when the variant takes the place of the definition that follows it.

## Correspondence with the code

**Rows.** `status`, `attempts`, `nextRetryAt`, `queuedAt` are functions from job ids
to column values; `"ABSENT"` is a row not created yet. `nextRetryAt` is kept relative
to now (null, future, past), and `queuedAt` is an order with ties, since rows may be
created in one millisecond. Progress, step texts, errors, URLs and e-mail addresses
decide nothing and are left out. A priority is any integer, as in the DTO.

**PostgresQueue.** A slot `p \in Polls` is one invocation of processNextJob; `pc[p]`
is the awaited call it is at: `count`, `find` (processNextJob), `mark`, `scan`, `save`,
`complete`, `caught` (executeJob). `tries[p]` is the local `attempts` read from the row
before the scan. `Poll` may happen whenever the flag is down, since any of the timer,
start-up, addJob and retryJob may call it. `saveScanResult` is one transaction, rejected
when the audit already has a report. `MarkProcessingFails`, `SaveReportFails`,
`MarkCompletedFails`, `OutcomeWriteFails` are failed calls, with the choice that the
write was applied all the same; `Crash` is the end of the process together with its next
start, as start-up repairs nothing.

**ScanWorker, CloudRunQueue.** `posts[j]` counts the `POST /scan` for row j on their way:
sent once, delivered (`Accept`), answered with 429 or 503 (`TurnAway`), or lost (`Lose`).
The API uses none of the answers. `at[e]` is the awaited call of executeScan; `Accepted`
executions are answered and not in `activeJobs`, `Counted` ones are. `Exit` is both the
end of shutdown (the active jobs are done, or 10 s are over) and a kill, which is `ShutDown`
and `Exit` in a row; another instance takes the place at once. `GrowStale` lets a row become
older than the threshold; a call `k` of checkStaleJobs reads one batch and sends it in order.
`Restart` ends the requests and the calls of the API.

**RemoteScan.** `CloudRunQueue` implements it under `row <- rowOf` (the status; LOST if the row says
PROCESSING and no execution has it, REPEATED once the fallback or a replay has asked for it again),
`scan <- scanOf` (where the one execution of the row is), `asked <- askedOf` (the cancels between
read and write) and `reports <- reported`. Requests, instances and capacity are stutters of it; an
instance that ends is `Stop`. A REPEATED row is not promised an orderly life, since two executions
may write it in any order; it still adds no second report of an audit.

**BrokerQueue.** `queueType` is QUEUE_TYPE, fixed for a behaviour. `bull[j]` is where BullMQ has the
job whose id is row j's: `"none"`, `"waiting"`, `"active"`, or `"kept"` once it has ended, since
finished jobs are kept and an id that is taken is not added again. `stage[x]` is what a submission
or a replay does after its row is written: `"add"` (queue.add), then, for a submission of the hybrid
service, `"probe"` (should the job overflow?). A cancel is `CancelRead`, `CancelOnTransport` (getJob
and remove, which throws for a job that is being run) and `CancelWrite`. `pc[c]` is the awaited call
of processJob of consumer c; only the hybrid service reads the row first. `CheckOverflow` is the
timer, `CheckWorkerHealth` its health probe; what the worker answers (`Accepted202`,
`Answered429or503`, `Unreachable`) sets `workerHealthy`. The worker is that of `ScanWorker`,
unchanged. `ConsumerCallFails` has every database call of the callback, and each write may have been
applied though it is reported as failed. `Restart` ends the consumers; BullMQ hands a job they had
out again once (`stalled`), and ends it as failed the second time, since the services leave
maxStalledCount at 1. `late` are the rows whose job was added after a cancel had looked for it. A
report of these backends is stored without an auditRequestId and cannot be rejected.

**LaunchPricing, Checkout.** A `LaunchPurchase` row is named by its Stripe session, unique in the
schema. Sessions are numbered in order of creation. `step[c]` is the awaited call of a checkout:
`session` (sessions.create) or `record` (the insert); what comes before the first call changes
nothing others can see and is merged with it. P2002 is `Refused`, after which `TryAnotherSlot` or
`GiveUp`. `Pay` needs `offered`: a client learns the address of a session only from the answer.
`stripe`, `Pay` and `Expire` are external. Payments are by card, so a completed session is a paid
one. The webhook's transaction is one action per event; a delivery that throws changes nothing. Its
signature is checked against `JSON.stringify` of the parsed body, as the application is created
without `rawBody` (main.ts:80, payment.controller.ts:130): `bodyKept` is whether that text happens
to be what Stripe signed, and without it every delivery is refused. verifyPayment is one read and
two writes. Reports are taken to exist. Redis is there or not for a whole behaviour (`redis`).
`CurrentPrices` is what getCurrentPricing shows (from COMPLETED rows without Redis), `NextSlots`
what reserveSlot gives (from all rows); `PriceOf` is a slot's number up to `MAX_PRICE`. No
controller calls createLaunchCheckoutSession: the launch flow is modelled as what the service
offers, and its tests exercise, beside the full checkout that POST /payment/checkout calls.

**ReportSale.** `Checkout` implements it under `sale <- saleOf` (a session nobody has been
offered is no sale yet), `report <- reportOf`, `deal <- dealOf` (region and slot of the recorded row, or
`Regular`), `books <- booksOf` (the purchase or payment row, expiry included) and
`access <- unlocked`. Counters, slot retries, races on an insert, duplicated and reordered webhooks,
verify requests and faults are all stutters or steps of it.

**ScanIntake.** `pc[q]` is the awaited call of request q: the guard (siteverify), the idempotency
look-up, then the handler: `validate`, `audit`, `mail`, `limit`, `create`. The guard runs before the
interceptors and the idempotency interceptor is outside the time-out one, as Nest orders an
APP_INTERCEPTOR and what main.ts adds. `record[k]` is the stored response under a key, named by the
job in it; `storing` are the upserts under way. `TimeOut` is the 408 while the handler goes on; its
response is then heard by nobody and stored by nobody. `captcha` is one of the three configurations
of the service. `Throws` is an exception anywhere in the handler, also between the row and the
answer (`enqueue`, `position`): the client is answered 500, nothing is stored, and the row stays
(`failedLate`). A client may send any key, form and token in any request.

**ScanEngine.** `pc[s]` is the awaited call of executeScan; `browser` and `browserLock` are the
fields of BrowserManagerService, `live` the browsers that run, `used[s]` the browser of the context.
The trackers stand for the four analyzers that keep state between calls and are cleared, filled and
read in the same way. `truth[s]` is what the page of s has really requested, `company` the calls
that were in flight together, `lost[s]` the browsers in which s met an error it took for a crash:
history variables. Whether an error is a crash is decided by its words (isBrowserCrashError), so
`CatchCrash` may happen in a browser that lives, and closes it, and `PageFails` in one that does
not. An error while the context is made is outside the try block and is never retried.

**SiteScan, Verdict.** A site is a record of what a visitor would find. `phase` is the awaited call,
`at` the page the browser is on, `found` what the phases have returned. Every page asks its hosts by
a number of requests; `Load` and `LateRequest` pass them through the listeners, which count each one
(`thirdParty`), the reload and the crawl of the home page included. Every call may fail, most
failures are swallowed: what a selector, a click, a count, a link search, a form or a page would
have shown is then not found. A navigation that fails (`LoadFails`) leaves the page where it was,
half loaded or at the browser's error page, with any part of its requests made. The pages for forms
come from sitemap.xml, else from robots.txt, else, when neither offers a URL at all, from the links.
A technology is found by the script requests of hosts with a signature or in the markup of the page
the browser is on, which may not be the home page any more. The issue rules of each analyzer are one
operator each (`CookieIssues`, `ConsentIssues`, ...), `generateIssues` their union. Selectors,
keywords and tables of names are taken to find what they are meant to find; the cases where two
rules of the code treat the same thing differently (a form inside or outside `<form>`, an exact, a
prefix or a pattern match of a cookie name, a certificate on its last day) are fields of the site.
`Admits` says what the site does by the titles of the issues and not by the way the code finds out;
`Misjudged` lists the reasons for which the code is known to accuse wrongly, `Overlooked` what it
then misses of a banner.

**History variables** (`history`, `crowded`, `since`, `orphans`, `late`, `rivals`, `excused`,
`failedLate`, `company`, `truth`, `early`, `firstVisit`, `lost`) are read by no action (but for the
bound on late requests). They name the cause of a race by the overlap that makes it possible
(`pollOverlap`: two invocations between test and pick), never by its effect, so that a property can
say "unless this has happened" without saying "unless it is false".

## Runs

Bounds are constants: `MaxReplays`, `MaxFaults`, `MaxRedisFaults`, `MaxPosts`, `MaxSessions`,
`MaxCounter`, `MaxBrowsers`, `MaxRequests`, and the slots for concurrent calls. Nothing else is bounded.

| Run | Instance | Shows |
|---|---|---|
| `queue_safety` | 2 jobs of one audit and different priority, 2 invocations, 1 submitter, a cancel or a replay, 2 faults, 1 attempt | types; PROCESSING and `isProcessing` have an owner; one job at a time unless polls overlap; one COMPLETED job per audit |
| `queue_lifecycle` | 3 jobs, 2 invocations, 2 submitters, 2 requests, 1 replay, 1 fault; no races | refinement of `ScanJobLifecycle`; the exact overshoot of the per-client limit |
| `queue_settles` | 2 jobs of different priority, 2 invocations, 2 attempts, no fault | every accepted job settles; the position shown is the order of dispatch |
| `worker_safety` | 1 job, 2 instances, 2 executions, 2 requests on their way, cancel or replay, 2 faults | types; PROCESSING has an owner unless an execution was cut short; capacity; one execution per request sent; COMPLETED is final; refinement of `RemoteScan` |
| `worker_settles` | 2 jobs of one audit and different priority, 2 instances, 1 fault, batch of 1 | the fallback makes up for everything but an execution cut short; COMPLETED implies the report, one job per audit |
| `worker_lost` | 1 job, 1 instance, 1 fault | violated: see below |
| `broker` | redis and hybrid: 1 job, 1 submitter, 1 request, 1 replay, 1 consumer, 1 worker, 1 execution, 1 overflow check, 1 fault (3 with redis, enough for a job to stall twice) | no QUEUED row forgotten, no PROCESSING row left behind; cancels final with Redis unless the job is added after them; COMPLETED not repeated; every accepted job ends, with the exceptions named |
| `checkout_slots` | 2 requests, 3 sessions, 2 attempts, counter up to 3, with and without Redis, reset and restore | types; slots distinct; no gaps without Redis; the price shown trails the price charged by pending purchases only |
| `checkout_access` | 1 request, 2 sessions, 2 reports, 2 verifiers, 1 fault | unlocked is paid, paid is recorded, COMPLETED is unlocked; whoever has paid and keeps asking gets access, whether deliveries are accepted or not; refinement of `ReportSale` |
| `engine` | 2 scans, 1 tracker, 3 browsers, 2 faults | a scan alone reports its own trackers, leaks no browser; a scan gives up over crashes only after two browsers; the lock has a holder |
| `intake` | 3 requests, 1 key, 2 forms, 2 tokens, limit of 1, 1 fault; the three captcha configurations | duplicates have an excuse, replies are true, consent is recorded, a token pays for one job |
| `site` | every site that differs from a clean one in one or two of 38 ways, failures in 1 phase, late requests up to 3 requests counted | no false accusation and no untrue evidence; of the offences it lists, none is missed; named exceptions aside |

Why these bounds are enough to be of interest: every race the code has is between two actors (two
invocations, a request and an invocation, two executions, a consumer and a worker, two checkouts, a
webhook and a verify request, two scans), and each run has both; the retry budgets (MaxAttempts 2,
or 1 with a replay, MAX_SLOT_RETRIES 2, one retry after a crash) are reached and exhausted; one slot
taken forces a retry, two force giving up; a batch of 1 with two stale rows leaves one behind; three
requests with one key allow a first, an overlapping and a later one; two crashes and a third browser
exhaust the engine's retry; two differences of a site meet in every pair. A phase that fails may
lose any part of what it looks for. In `broker` the BullMQ queue is per row, so one row shows every
race of its runners; batches of several rows are in `worker_settles`. In `site` the limits that are
10 and 3 in the code are set to 2, 1 and 0, so that a small site exceeds them. Between them the
passing runs fire every action. The theorems remove the bounds for the safety properties they cover.
`CHECK_DEADLOCK FALSE` is set where the work of an instance is finite: for the worker and the broker
when all jobs have settled and the faults are used up, for `engine`, `intake` and `site` when every
call has been answered. In the other models a timer, a request or a repeated webhook always can
happen, and TLC checks that.

Symmetry is used in safety runs only, over slots and requests that no constant tells apart.

## Fairness

* `PostgresQueue`: WF of `Poll` (the interval timer), of each step of an invocation (a database
  call returns, a scan is raced by a time-out), of `Backoff` (time passes). No request and no
  fault is obliged to happen.
* `CloudRunQueue`: WF of the fallback timer's steps, of each step of an execution, of `GrowStale`
  (time passes) and of `Exit` (shutdown has a deadline). SF of `Deliver`: of the requests sent
  again and again for a row while an instance has room, not all are lost. This is an assumption
  about the network and Cloud Run; without it nothing can be promised.
* `BrokerQueue`: WF of what follows a written row (`QueueAdd`, `CancelOnTransport`,
  `CancelWrite`), of `TakeJob` and `Process` (BullMQ hands out what waits, awaited calls return), of
  the steps of the worker, of `CheckWorkerHealth`, `SendOverflow` and `GrowOld` (the timer, time).
  SF of `CheckOverflow`, a timer whose condition comes and goes with the
  health of the worker, and of `Accepted202`, for the reason of `Deliver`.
* `Checkout`: WF of the two writes of a verify request (awaited calls return), and of nothing else.
  That Stripe repeats a delivery promises nothing, as each may be refused for its signature; that a
  client pays, asks or comes back is up to the client, so `PaidUnlocks` has it as a premise: verify
  requests for the session find it paid again and again.

`ScanEngine`, `ScanIntake` and `SiteScan` are checked for safety only.

## Proofs

All statements below are for any sets of jobs, requests, invocations, sessions, scans and sites, any
attempts and bounds, under the named assumptions of the modules: typing of the constants; `NoJob
\notin Jobs` and the like; `Jobs`, `Submitters`, the tables of names and the cookies of a site
finite, since the code counts them. Every invariant and every action property that a run checks, and
the three refinements, are stated by a theorem.

`PostgresQueueProofs`

* `TypeCorrect`; `FlagIsAlwaysHeld` and `ProcessingIsAlwaysOwned` are inductive together with types
  (the flag goes down only in `Finish`, the row leaves PROCESSING in the same path).
* `ExecutesOneAtATime`. OneAtATime is not inductive: `ExclusionInv` adds that an executing invocation
  has the flag up, that one past the count has seen no PROCESSING row, and that the only
  PROCESSING row is the one being executed. It is guarded by "no poll overlap so far", which
  makes it hold of all behaviours.
* `QueueImplementsLifecycle`: `UndisturbedSpec` implements `ScanJobLifecycle`. It needs
  `FreshReadsInv` (`UndisturbedIsInvariant`): whoever is about to write a row finds in it what it
  read, attempts included. The mapping is the identity on `status` and `attempts`; every
  action is a step of the abstract specification or a stutter.
* `OneJobCompletesPerAudit` from `ReportInv`: the audit of a row that is COMPLETED, or that an
  invocation is about to make so, owns a report, and no two rows of one audit are such; the unique
  constraint lets no second one past `save`.
* `FirstInLineIsAlwaysNext`: position 1 is computed by counting who is ahead (`NobodyAhead`), the choice
  by an order, and the two agree.
* `OvershootIsBounded`, of `UndisturbedSpec`, from `LimitInv`, which counts what a client has
  claimed: active rows, rows about to be created, rows about to be queued again. A submission adds
  one when it passes the test, a replay when it reads the row, and the writes add nothing.

`CloudRunQueueProofs`

* `TypeCorrect` and `ProcessingIsAlwaysOwned`, for any number of instances and executions.
* `CompletedIsAlwaysReported` from `ReportInv`: whoever is about to write COMPLETED has stored the
  report, and a report of an audit is of one row.
* `CapacityIsKept` from `CapacityInv`: an instance is over MAX_CONCURRENT only if it is in
  `crowded`, that is, if it accepted a request while another was accepted and not counted yet.
* `OneExecutionForOneTrigger` from `TriggerInv`: a row that does not exist is unknown to requests
  and executions, and one the fallback has not asked for again is on its way once or being executed
  once.
* `CompletedStaysFinal`, an action property, from `FinalInv`: nobody is after a row that has ended
  unless the fallback has asked for it again or the answer to its write was lost.
* `QueueImplementsRemoteScan`, of `Spec` itself with all its faults, from `TriggerInv` and
  `RemoteInv`: a row that was not asked for again is QUEUED or CANCELLED while its request or its
  execution is before the PROCESSING write, and PROCESSING or CANCELLED after it (or COMPLETED, when
  the answer to that write was lost). `ExecutionMoves` says once what a step of an execution is
  under the mapping; every step is then a step of the abstract scan, or a stutter
  (`ExecutionMapped`, `ApiMapped`, `ExitMapped`).

`BrokerQueueProofs`

* `TypeCorrect`. `WorkersDo` says what a step of the workers can do to what the broker knows; each
  part of the invariant is then kept by every other action and by that one step.
* `QueuedIsAlwaysHeld` from `HeldInv`: a row that is QUEUED again under a consumer past its
  PROCESSING write is still to be added, or its addition was in vain. It rests on `ClaimInv` (an
  active job has one consumer) and `KnownInv` (a row that does not exist is known to nobody).
* `ProcessingIsAlwaysRun` from `RunInv`: with Redis alone a PROCESSING row that was not cut short
  has a job that waits or is active, and no cancel is after one that waits.
* `CancelledStays` and `CompletedNotRepeated`, action properties; the first from `CancelInv`: a
  CANCELLED row that is not `late` has no job in BullMQ; the second from `RepeatInv`: only a row a
  worker was asked for has an execution, and a COMPLETED one without has nobody past the test of the
  row.

`CheckoutProofs`

* A lemma classifies every step of `Next` by what it does to the rows (`StepKinds`: a quiet step, a
  new session, an insert, a payment or expiry, a status write), so that each invariant is
  proved per kind and not per action.
* `PaidIsAlwaysRecorded` and `SlotsAreAlwaysDistinct` from `RecordInv`: a row about to be inserted
  is not there yet and belongs to one request; what is offered is recorded; recorded places are
  distinct.
* `UnlockedIsAlwaysPaid`, `RowsAlwaysAgreeWithStripe`, `CompletedIsAlwaysUnlocked` from `AccessInv`,
  which adds that what a verify request has found paid is paid.
* `NeverGapsWithoutRedis` from `LadderInv`: without Redis every slot below a recorded one, and
  below one that a request holds, is recorded. `QuoteAlwaysTrailsPendingOnly` follows: the slots between
  the highest paid one and the one being sold are all recorded, so they are pending.
* `CheckoutImplementsSale`: every step of `Next` is a step of `ReportSale` under the mapping above,
  or a stutter.

`ScanIntakeProofs`, all inductive with types

* `CaptchaPerJobAlways` from `CaptchaInv`: a request past the guard holds a token that is spent and that
  no other request past the guard holds.
* `ReplyIsAlwaysTrue` from `ReplyInv`: what is stored or being stored is a job, and what a request came
  with never changes; the conflict test makes its form that of whom it is replayed to.
* `ConsentIsAlwaysRecorded` from `ConsentInv`: a request with consent comes past `audit` only with
  its row written.
* `DuplicatesAlwaysHaveAnExcuse` from `RivalInv` and `KeptInv`: a job without an excuse is still in
  its request (between its row and the answer), being stored, or under its key, where a later
  request finds it; who does not has been open together with it.

`ScanEngineProofs`

* `TypeCorrect`; `LockAlwaysHasHolder` is inductive with types.
* `AloneInv` carries the rest: a scan goes on only while its caller waits or has timed out, so that
  without a time-out a scan that never had company is the only one that goes on. From it
  `TrackersAreAlwaysOwn` (`OwnInv`: until they are read the shared trackers are its page's),
  `NoBrowserIsEverLeaked` (`BrowserInv`: none runs but the one in the field, and none when it is
  being replaced).
* `AlwaysGivesUpAfterTwoBrowsers` from `LostInv`, with time-outs and overlaps: a browser in which a
  scan met an error it took for a crash has been closed, or is not the one in the field, so the
  retry cannot get it.

`SiteScanProofs`, for any list of sites that satisfy `WebSitesAssumption` (a home page, finitely
many cookies, what is necessary is not known for something else)

* `SiteInvariant`: `SiteInv` says, one conjunct per thing that is looked for (`PageInv`,
  `CookieInv`, `TrackerInv`, `RequestInv`, `CountInv`, `TransportInv`, `BannerInv`, `PolicyInv`,
  `ServerInv`, `FormInv`), what a phase has found in terms of the page it looked at, the clicks, the
  requests and the failures before it (a banner was seen but for what `lost` names; all that is
  counted beyond the first visit comes of a scan without an accept button). The proof has one lemma
  per conjunct, and every one rests on two: `ListenerStep` (what the listeners have heard when the
  page loads, half loads or requests something late) and `BrowserStep` (where a phase can leave the
  page).
* `AccusationsAlwaysTrue`: `AtDone` draws from `SiteInv` what holds when the report is made; then
  one lemma per group of issues (`CookieAccusations`, `ConsentAccusations`, ...) shows that each has
  a cause in the site or a named exception, and `TrueEvidence` that what the report shows for it is
  true.
* `OffencesAlwaysReported` is a converse for the offences its comment lists, one lemma per group
  (`CookieOffences`, `ServerOffences`, ...). It claims nothing of the others: the flags of cookies,
  granular consent, what the policy says, mixed content, late requests, counts of services and
  requests, links and marketing boxes of forms, forms of other pages and those that ask for a
  telephone number alone, weak headers, other certificate faults.
* `FullScoreMeansNoIssue`, `MoreIssuesNeverScoreHigher`, `LevelAndScoreAgree`: of the functions of
  `Verdict` and any finite set of issues. The second is about sets of issues: the fifth missing
  header replaces four issues by one, and a site that sends fewer headers can score higher (see below).

Only model-checked: the liveness properties `Settles`, `SettlesUnlessCutShort`, `PaidUnlocks` and
`AcceptedSettles`, since fairness is out of the prover's reach.

## Where code and docs disagree

With a run: `worker_lost` (`NoScanIsLost`): a row left PROCESSING by a worker that was stopped, or
whose write failed, is never asked for again; the fallback claims no scan is ever lost.

Met while modelling, each visible in a guard or an exception of a property:

Queues
* a crash or a failed write leaves a row PROCESSING; postgres-queue.service.ts:76 counts it for ever
  and picks nothing more, though the retry migration says scans are no longer silently lost;
* two overlapping invocations scan at once (postgres-queue.service.ts:70), with a stated maximum of one;
* a job cancelled between pick and mark runs (base-queue.service.ts:139, queue.interface.ts:43);
* a job cancelled between the row's creation and queue.add is CANCELLED, is then added, and is run
  by the consumer of the Redis service, which does not look at the row (redis-queue.service.ts:132),
  where queue.interface.ts:43 says that a cancel is for jobs that are queued only;
* a crash of the API leaves a row of the hybrid service PROCESSING, whose second run is refused because
  the row is no longer QUEUED; the Redis service runs it again, once.

Payment
* after a reset or restore of the counters a slot is refused for a purchase made long ago, where the
  comment at payment.service.ts:190-194 speaks of a concurrent request;
* the signature of a webhook is checked against `JSON.stringify` of the parsed body
  (payment.controller.ts:130), since the application keeps no raw body (main.ts:80), and what Stripe
  signed are its own bytes; the test of it (payment.controller.spec.ts:107) has the check mocked.
  Deliveries answered 400 unlock nothing, which leaves GET verify;
* POST /payment/checkout (payment.controller.ts:75) is not idempotent: a repeated click makes
  another session.

Intake
* the idempotency migration (20260426120000, lines 1-4) promises that a retry makes no duplicate:
  one that overlaps the first request, or follows one that timed out, or whose row was made before
  enqueueOnTransport or a read of the position threw (base-queue.service.ts:101-117), does;
* a retry with a spent captcha token is refused with 403 before the stored answer is looked up;
* a refusal by the limit leaves an audit that nobody will scan;
* CORS (main.ts) allows neither the header Idempotency-Key nor PATCH.

Scan
* "Retry once if browser crashed" (scanner.service.ts:347) covers what the try block does: a crash
  while the context is made ends the scan at once, and an error of a browser that lives may close it
  for all (browser-manager.service.ts:97-109);
* `consentGiven` is set before the click and whatever comes of it (scanner.service.ts:187), and
  detectGranularConsent may have opened preferences that hide the accept button;
* technologies are looked for on the last page visited (scanner.service.ts:261);
* the Sitemap line of robots.txt is ignored (sitemap.analyzer.ts:215-216);
* every request before consent is counted, those of the reload, of the crawl and of all other pages
  too, if there is no accept button (scanner.service.ts:140), so that EXCESSIVE_THIRD_PARTY may be
  said of a page below the limit;
* a selector, a link search, a click or a count that throws is swallowed and counts as nothing
  found: no banner, no reject button, no categories, no privacy policy (consent.analyzer.ts:147,
  424, 454, privacy-policy.analyzer.ts:172, 194);
* a reload that fails counts as all headers missing (headers.analyzer.ts:99); adding a header can
  lower the score, since five missing ones are one issue and four are four;
* a certificate is "expired", CRITICAL, on its last day (ssl.analyzer.ts:217);
* a form with a telephone number alone is reported without a privacy link though it has one
  (form.analyzer.ts:149, 161, 624);
* a cookie is classified by the first known name its own starts with (cookie.analyzer.ts:49);
* the evidence of PRIVACY_POLICY_INCOMPLETE lists the DPO contact, which is not required, and omits the
  purpose of processing, so that it may be empty (scanner-report.service.ts:232-242,
  privacy-policy.analyzer.ts:297-305);
* ISSUE_CATEGORY_MAP and the estimates know codes no analyzer generates (PRECHECKED_CONSENT,
  COOKIE_WALL_DETECTED, CLOSE_ACCEPTS_ALL, COOKIES_WITHOUT_HTTPONLY), while PRE_CHECKED_BOXES,
  COOKIE_WALL, COOKIES_WITHOUT_SAMESITE and all codes of headers and certificates fall to OTHER.

## Not modelled

* Analytics: sessions and events are written, and read for statistics only. (Two batches of a new
  session may both find none and create it, analytics.service.ts:78; one is lost.)
* E-mail, PDF, templates, translations: one external call each, without a retry or a state that is read.
* Health, geo location, the pricing broadcast, statistics and the other reading endpoints.
* `ScannerQueueService`, the unused predecessor of the PostgreSQL backend: no module provides it.
* Deployment files, scripts and load tests.
* Inside what is modelled: the entries of the tables and the selectors and keywords of the
  analyzers; texts, categories and estimates of issues; amounts and currencies; progress columns;
  the deletion of a report, which nothing in `src/` does.

## Plan

Done: all four queue backends and the worker, pricing and payment, the intake, the engine and the
scan of a site; three abstract specifications and their refinements; theorems for all of them.

Left: what `RemoteScan` would have to give up for `BrokerQueue` to implement it. BullMQ hands a job out
again that was not acknowledged, so a row may be COMPLETED by one consumer and read by another one
without anybody having asked for it again.
