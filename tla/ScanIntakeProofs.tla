-------------------------- MODULE ScanIntakeProofs --------------------------
(***************************************************************************)
(* What POST /scanner/queue keeps, for any requests, keys, forms, tokens   *)
(* and faults.                                                             *)
(***************************************************************************)
EXTENDS ScanIntake, TLAPS

USE DEF InHandler, Queued

LEMMA InitTypeOK == Init => TypeOK
  BY DEF Init, TypeOK

LEMMA NextTypeOK ==
  ASSUME TypeOK, [Next]_vars
  PROVE  TypeOK'
  <1> USE DEF TypeOK, rows, history, Goto, Answer
  <1>1. CASE UNCHANGED vars
    BY <1>1 DEF vars
  <1>2. ASSUME NEW q \in Requests, Send(q)
        PROVE  TypeOK'
    <2>1. rivals' \in [Requests -> SUBSET Requests]
      BY <1>2 DEF Send, Open
    <2>2. QED
      BY <1>2, <2>1 DEF Send
  <1>3. ASSUME NEW q \in Requests, CanActivate(q)
        PROVE  TypeOK'
    <2>1. call[q] \in Calls
      BY <1>3 DEF CanActivate
    <2>2. spent' \in SUBSET Tokens
      BY <1>3, <2>1 DEF CanActivate, Verify, VerifyFails, VerifyUnconfigured, Calls
    <2>3. pc' \in [Requests -> {"new", "guard", "lookup", "done"} \cup InHandler]
            /\ pc'[q] # "new" /\ \A p \in Requests : pc'[p] # pc[p] => p = q
      BY <1>3 DEF CanActivate, Verify, VerifyFails, VerifyUnconfigured
    <2>4. /\ reply' \in [Requests -> {"none", "created", "replayed", "403", "409", "400", "error", "408"}]
          /\ told' \in [Requests -> Requests \cup {NoRequest}]
      BY <1>3 DEF CanActivate, Verify, VerifyFails, VerifyUnconfigured
    <2>5. QED
      BY <1>3, <2>1, <2>2, <2>3, <2>4 DEF CanActivate
  <1>4. ASSUME NEW q \in Requests, Lookup(q)
        PROVE  TypeOK'
    <2>1. Stored(q) \in Requests \cup {NoRequest}
      BY <1>4 DEF Lookup, Stored, Calls
    <2>2. QED
      BY <1>4, <2>1 DEF Lookup
  <1>5. ASSUME NEW q \in Requests, Throws(q) \/ TimeOut(q)
        PROVE  TypeOK'
    BY <1>5 DEF Throws, RowIsThere, TimeOut
  <1>6. ASSUME NEW q \in Requests, Store(q)
        PROVE  TypeOK'
    BY <1>6 DEF Store
  <1>7. ASSUME NEW q \in Requests, StoreFails(q) \/ JobEnds(q)
        PROVE  TypeOK'
    BY <1>7 DEF StoreFails, JobEnds
  <1>8. ASSUME NEW q \in Requests, Validate(q)
        PROVE  TypeOK'
    BY <1>8 DEF Validate
  <1>9. ASSUME NEW q \in Requests, CreateAuditRequest(q) \/ SendMails(q)
        PROVE  TypeOK'
    BY <1>9 DEF CreateAuditRequest, SendMails
  <1>10. ASSUME NEW q \in Requests, AssertWithinLimit(q)
         PROVE  TypeOK'
    BY <1>10 DEF AssertWithinLimit
  <1>11. ASSUME NEW q \in Requests, CreateJob(q) \/ EnqueueOnTransport(q) \/ Respond(q)
         PROVE  TypeOK'
    BY <1>11 DEF CreateJob, EnqueueOnTransport, Respond
  <1>12. ASSUME NEW k \in Keys, Expire(k)
         PROVE  TypeOK'
    BY <1>12 DEF Expire
  <1>13. CASE Crash
    BY <1>13 DEF Crash, Open
  <1> HIDE DEF TypeOK
  <1>14. QED
    BY <1>1, <1>2, <1>3, <1>4, <1>5, <1>6, <1>7, <1>8, <1>9, <1>10, <1>11, <1>12, <1>13
    DEF Next, Handle

(***************************************************************************)
(* Every reachable state is well typed.                                    *)
(***************************************************************************)
THEOREM TypeCorrect == Spec => []TypeOK
  BY InitTypeOK, NextTypeOK, PTL DEF Spec

-----------------------------------------------------------------------------
(***************************************************************************)
(* The captcha.  Who has passed the guard holds a token that is spent and  *)
(* that nobody else who has passed came with.                              *)
(***************************************************************************)
Passed(q) == pc[q] \in {"lookup"} \cup InHandler \/ q \in jobs

CaptchaInv ==
    captcha = "enforced" =>
        \A p, q \in Requests :
            /\ Passed(p) => pc[p] # "new" /\ call[p].token \in spent
            /\ Passed(p) /\ Passed(q) /\ p # q => call[p].token # call[q].token

LEMMA CaptchaStep ==
  ASSUME TypeOK, CaptchaInv, [Next]_vars
  PROVE  CaptchaInv'
  <1> USE DEF TypeOK, CaptchaInv, Passed, rows, history, Goto, Answer
  <1>1. CASE UNCHANGED vars
    BY <1>1 DEF vars
  <1>2. ASSUME NEW q \in Requests, Send(q)
        PROVE  CaptchaInv'
    BY <1>2 DEF Send
  <1>3. ASSUME NEW q \in Requests, CanActivate(q)
        PROVE  CaptchaInv'
    BY <1>3 DEF CanActivate, Verify, VerifyFails, VerifyUnconfigured
  <1>4. ASSUME NEW q \in Requests, Lookup(q) \/ Throws(q) \/ TimeOut(q)
        PROVE  CaptchaInv'
    BY <1>4 DEF Lookup, Throws, RowIsThere, TimeOut
  <1>5. ASSUME NEW q \in Requests, Store(q) \/ StoreFails(q) \/ JobEnds(q)
        PROVE  CaptchaInv'
    BY <1>5 DEF Store, StoreFails, JobEnds
  <1>6. ASSUME NEW q \in Requests, Handle(q)
        PROVE  CaptchaInv'
    BY <1>6 DEF Handle, Validate, CreateAuditRequest, SendMails, AssertWithinLimit, CreateJob,
        EnqueueOnTransport, Respond
  <1>7. ASSUME NEW k \in Keys, Expire(k)
        PROVE  CaptchaInv'
    BY <1>7 DEF Expire
  <1>8. CASE Crash
    BY <1>8 DEF Crash
  <1> HIDE DEF TypeOK, CaptchaInv
  <1>9. QED
    BY <1>1, <1>2, <1>3, <1>4, <1>5, <1>6, <1>7, <1>8 DEF Next

(***************************************************************************)
(* Where the captcha is enforced no two jobs have come from one token,     *)
(* whichever requests race, fail, time out or are repeated.                *)
(***************************************************************************)
THEOREM CaptchaPerJobAlways == Spec => []CaptchaPerJob
  <1>1. Init => CaptchaInv
    BY DEF Init, CaptchaInv, Passed
  <1>2. TypeOK /\ CaptchaInv => CaptchaPerJob
    BY DEF TypeOK, CaptchaInv, CaptchaPerJob, Passed
  <1>3. QED
    BY <1>1, <1>2, CaptchaStep, TypeCorrect, PTL DEF Spec

-----------------------------------------------------------------------------
(***************************************************************************)
(* Replies.  A response under way or stored is of a request that made a    *)
(* job, and what a request came with is never replaced.                    *)
(***************************************************************************)
ReplyInv ==
    /\ storing \subseteq jobs
    /\ \A q \in Requests : pc[q] \in Queued => q \in jobs
    /\ \A k \in Keys : record[k] \in jobs \cup {NoRequest}
    /\ \A q \in Requests : pc[q] = "new" => q \notin jobs /\ reply[q] = "none"
    /\ ReplyIsTrue

LEMMA ReplyStep ==
  ASSUME TypeOK, ReplyInv, [Next]_vars
  PROVE  ReplyInv'
  <1> USE IntakeAssumption DEF TypeOK, ReplyInv, ReplyIsTrue, rows, history, Goto, Answer
  <1>1. CASE UNCHANGED vars
    BY <1>1 DEF vars
  <1>2. ASSUME NEW q \in Requests, Send(q)
        PROVE  ReplyInv'
    BY <1>2 DEF Send
  <1>3. ASSUME NEW q \in Requests, CanActivate(q)
        PROVE  ReplyInv'
    BY <1>3 DEF CanActivate, Verify, VerifyFails, VerifyUnconfigured
  <1>4. ASSUME NEW q \in Requests, Lookup(q)
        PROVE  ReplyInv'
    <2>1. Stored(q) # NoRequest => Stored(q) \in jobs
      BY <1>4 DEF Lookup, Stored, Calls
    <2>2. QED
      BY <1>4, <2>1 DEF Lookup, Conflicts
  <1>5. ASSUME NEW q \in Requests, Throws(q) \/ TimeOut(q)
        PROVE  ReplyInv'
    BY <1>5 DEF Throws, RowIsThere, TimeOut
  <1>6. ASSUME NEW q \in Requests, Store(q) \/ StoreFails(q) \/ JobEnds(q)
        PROVE  ReplyInv'
    BY <1>6 DEF Store, StoreFails, JobEnds
  <1>7. ASSUME NEW q \in Requests, Handle(q)
        PROVE  ReplyInv'
    BY <1>7 DEF Handle, Validate, CreateAuditRequest, SendMails, AssertWithinLimit, CreateJob,
        EnqueueOnTransport, Respond
  <1>8. ASSUME NEW k \in Keys, Expire(k)
        PROVE  ReplyInv'
    BY <1>8 DEF Expire
  <1>9. CASE Crash
    BY <1>9 DEF Crash, Open
  <1> HIDE DEF TypeOK, ReplyInv
  <1>10. QED
    BY <1>1, <1>2, <1>3, <1>4, <1>5, <1>6, <1>7, <1>8, <1>9 DEF Next

LEMMA ReplyInvHolds == Spec => []ReplyInv
  <1>1. Init => ReplyInv
    BY DEF Init, ReplyInv, ReplyIsTrue
  <1>2. QED
    BY <1>1, ReplyStep, TypeCorrect, PTL DEF Spec

(***************************************************************************)
(* No client is told of a job that does not exist, or of one made from     *)
(* another form than its own.                                              *)
(***************************************************************************)
THEOREM ReplyIsAlwaysTrue == Spec => []ReplyIsTrue
  BY ReplyInvHolds, PTL DEF ReplyInv

-----------------------------------------------------------------------------
(***************************************************************************)
(* Consent.  A request that is past the audit has one, and an audit is of  *)
(* a request that has gone that far; an open request has heard nothing but *)
(* a time-out.                                                             *)
(***************************************************************************)
ConsentInv ==
    \A q \in Requests :
        /\ call[q] \in Calls /\ call[q].form \in Consents
           /\ (pc[q] \in {"mail", "limit", "create"} \cup Queued \/ q \in jobs)
           => q \in audits /\ auditOf[q] = q
        /\ q \in audits => pc[q] \in {"mail", "limit", "create", "done"} \cup Queued
        /\ pc[q] # "done" => reply[q] \in {"none", "408"}
        /\ q \in jobs => pc[q] # "new"
        /\ q \in audits \ jobs /\ pc[q] = "done" => reply[q] \notin {"none", "created", "replayed"}

LEMMA ConsentStep ==
  ASSUME TypeOK, ReplyInv, ConsentInv, [Next]_vars
  PROVE  ConsentInv'
  <1> USE DEF TypeOK, ConsentInv, rows, history, Goto, Answer
  <1>1. CASE UNCHANGED vars
    BY <1>1 DEF vars
  <1>2. ASSUME NEW q \in Requests, Send(q)
        PROVE  ConsentInv'
    BY <1>2 DEF Send
  <1>3. ASSUME NEW q \in Requests, CanActivate(q)
        PROVE  ConsentInv'
    BY <1>3 DEF CanActivate, Verify, VerifyFails, VerifyUnconfigured
  <1>4. ASSUME NEW q \in Requests, Lookup(q) \/ Throws(q) \/ TimeOut(q)
        PROVE  ConsentInv'
    BY <1>4 DEF Lookup, Throws, RowIsThere, TimeOut
  <1>5. ASSUME NEW q \in Requests, Store(q) \/ StoreFails(q) \/ JobEnds(q)
        PROVE  ConsentInv'
    BY <1>5 DEF Store, StoreFails, JobEnds
  <1>6. ASSUME NEW q \in Requests, Validate(q) \/ AssertWithinLimit(q)
        PROVE  ConsentInv'
    BY <1>6 DEF Validate, AssertWithinLimit
  <1>7. ASSUME NEW q \in Requests, CreateAuditRequest(q) \/ SendMails(q)
        PROVE  ConsentInv'
    BY <1>7 DEF CreateAuditRequest, SendMails
  <1>8. ASSUME NEW q \in Requests, CreateJob(q) \/ EnqueueOnTransport(q) \/ Respond(q)
        PROVE  ConsentInv'
    <2>1. CASE CreateJob(q)
      BY <2>1 DEF CreateJob
    <2>2. CASE EnqueueOnTransport(q)
      BY <2>2 DEF EnqueueOnTransport
    <2>3. CASE Respond(q)
      BY <2>3 DEF Respond, ReplyInv
    <2>4. QED
      BY <1>8, <2>1, <2>2, <2>3
  <1>9. ASSUME NEW k \in Keys, Expire(k)
        PROVE  ConsentInv'
    BY <1>9 DEF Expire
  <1>10. CASE Crash
    <2>1. /\ UNCHANGED <<call, audits, auditOf, jobs>>
          /\ \A q \in Requests :
                /\ pc'[q] = IF pc[q] = "new" THEN "new" ELSE "done"
                /\ reply'[q] = IF q \in Open /\ reply[q] = "none" THEN "error" ELSE reply[q]
      BY <1>10 DEF Crash
    <2>2. \A q \in Requests : pc[q] \notin {"new", "done"} => q \in Open
      BY DEF Open
    <2>3. ASSUME NEW q \in Requests, q \in audits \ jobs
          PROVE  reply'[q] \notin {"none", "created", "replayed"}
      BY <2>1, <2>2, <2>3
    <2>4. ASSUME NEW q \in Requests
          PROVE  /\ pc'[q] # "done" => reply'[q] \in {"none", "408"}
                 /\ q \in audits => pc'[q] = "done"
                 /\ q \in jobs => pc'[q] # "new"
      <3>1. CASE pc[q] = "new"
        BY <2>1, <3>1 DEF Open, ReplyInv
      <3>2. CASE pc[q] # "new"
        BY <2>1, <3>2
      <3>3. QED
        BY <3>1, <3>2
    <2>5. QED
      BY <2>1, <2>3, <2>4
  <1> HIDE DEF TypeOK, ConsentInv
  <1>11. QED
    BY <1>1, <1>2, <1>3, <1>4, <1>5, <1>6, <1>7, <1>8, <1>9, <1>10 DEF Next, Handle

(***************************************************************************)
(* Whatever crashes, times out or is refused, the consent is recorded      *)
(* before its scan is queued, and an audit without a scan is one its       *)
(* client knows to have failed, or whose request is still open.            *)
(***************************************************************************)
THEOREM ConsentIsAlwaysRecorded == Spec => []ConsentIsRecorded
  <1>1. Init => ConsentInv
    BY DEF Init, ConsentInv
  <1>2. TypeOK /\ ConsentInv => ConsentIsRecorded
    BY DEF TypeOK, ConsentInv, ConsentIsRecorded, Open
  <1>3. QED
    BY <1>1, <1>2, ConsentStep, TypeCorrect, ReplyInvHolds, PTL DEF Spec

-----------------------------------------------------------------------------
(***************************************************************************)
(* Duplicates.  Of two requests that are open with one key the later one   *)
(* has found the other open.  A job whose response is not lost has it      *)
(* under way or stored, so that a request that gets past the lookup was    *)
(* open at the same time.                                                  *)
(***************************************************************************)
OneKey(p, q) == p # q /\ call[p].key = call[q].key /\ call[p].key # NoKey
Rivals(p, q) == p \in rivals[q] \/ q \in rivals[p]

RivalInv ==
    /\ \A q \in jobs : pc[q] \in Queued \cup {"done"}
    /\ \A p, q \in Open : OneKey(p, q) => Rivals(p, q)

KeptInv ==
    \A p \in jobs \ (excused \cup failedLate) :
        /\ call[p].key # NoKey => pc[p] \in Queued \/ p \in storing \/ record[call[p].key] # NoRequest
        /\ \A q \in Requests : pc[q] \in InHandler /\ OneKey(p, q) => Rivals(p, q)

LEMMA RivalStep ==
  ASSUME TypeOK, ReplyInv, RivalInv, [Next]_vars
  PROVE  RivalInv'
  <1> USE DEF TypeOK, ReplyInv, RivalInv, OneKey, Rivals, Open, rows, history, Goto, Answer
  <1>1. CASE UNCHANGED vars
    BY <1>1 DEF vars
  <1>2. ASSUME NEW q \in Requests, Send(q)
        PROVE  RivalInv'
    BY <1>2 DEF Send
  <1>3. ASSUME NEW q \in Requests, CanActivate(q)
        PROVE  RivalInv'
    BY <1>3 DEF CanActivate, Verify, VerifyFails, VerifyUnconfigured
  <1>4. ASSUME NEW q \in Requests, Lookup(q) \/ Throws(q) \/ TimeOut(q)
        PROVE  RivalInv'
    BY <1>4 DEF Lookup, Throws, RowIsThere, TimeOut
  <1>5. ASSUME NEW q \in Requests, Store(q) \/ StoreFails(q) \/ JobEnds(q)
        PROVE  RivalInv'
    BY <1>5 DEF Store, StoreFails, JobEnds
  <1>6. ASSUME NEW q \in Requests, Validate(q) \/ AssertWithinLimit(q)
        PROVE  RivalInv'
    BY <1>6 DEF Validate, AssertWithinLimit
  <1>7. ASSUME NEW q \in Requests, CreateAuditRequest(q) \/ SendMails(q)
        PROVE  RivalInv'
    BY <1>7 DEF CreateAuditRequest, SendMails
  <1>8. ASSUME NEW q \in Requests, CreateJob(q) \/ EnqueueOnTransport(q) \/ Respond(q)
        PROVE  RivalInv'
    BY <1>8 DEF CreateJob, EnqueueOnTransport, Respond
  <1>9. ASSUME NEW k \in Keys, Expire(k)
        PROVE  RivalInv'
    BY <1>9 DEF Expire
  <1>10. CASE Crash
    BY <1>10 DEF Crash
  <1> HIDE DEF TypeOK, ReplyInv, RivalInv
  <1>11. QED
    BY <1>1, <1>2, <1>3, <1>4, <1>5, <1>6, <1>7, <1>8, <1>9, <1>10 DEF Next, Handle

LEMMA KeptStep ==
  ASSUME TypeOK, ReplyInv, RivalInv, KeptInv, [Next]_vars
  PROVE  KeptInv'
  <1> USE IntakeAssumption DEF TypeOK, KeptInv, OneKey, Rivals, rows, history, Goto, Answer
  <1>1. CASE UNCHANGED vars
    BY <1>1 DEF vars
  <1>2. ASSUME NEW q \in Requests, Send(q)
        PROVE  KeptInv'
    BY <1>2 DEF Send, ReplyInv
  <1>3. ASSUME NEW q \in Requests, CanActivate(q)
        PROVE  KeptInv'
    BY <1>3 DEF CanActivate, Verify, VerifyFails, VerifyUnconfigured
  <1>4. ASSUME NEW q \in Requests, Lookup(q)
        PROVE  KeptInv'
    <2>1. ASSUME NEW p \in jobs \ (excused \cup failedLate), OneKey(p, q), pc'[q] \in InHandler
          PROVE  Rivals(p, q)
      <3>1. Stored(q) = NoRequest
        BY <1>4, <2>1 DEF Lookup
      <3>2. pc[p] \in Queued \/ p \in storing
        BY <2>1, <3>1 DEF Stored
      <3>3. p \in Open /\ q \in Open
        BY <1>4, <3>2 DEF Lookup, Open
      <3>4. QED
        BY <2>1, <3>3 DEF RivalInv
    <2>2. QED
      BY <1>4, <2>1 DEF Lookup
  <1>5. ASSUME NEW q \in Requests, Throws(q) \/ TimeOut(q)
        PROVE  KeptInv'
    BY <1>5 DEF Throws, RowIsThere, TimeOut
  <1>6. ASSUME NEW q \in Requests, Store(q) \/ StoreFails(q) \/ JobEnds(q)
        PROVE  KeptInv'
    BY <1>6 DEF Store, StoreFails, JobEnds, ReplyInv, Calls
  <1>7. ASSUME NEW q \in Requests, Validate(q) \/ AssertWithinLimit(q)
        PROVE  KeptInv'
    BY <1>7 DEF Validate, AssertWithinLimit
  <1>8. ASSUME NEW q \in Requests, CreateAuditRequest(q) \/ SendMails(q)
        PROVE  KeptInv'
    BY <1>8 DEF CreateAuditRequest, SendMails
  <1>9. ASSUME NEW q \in Requests, CreateJob(q) \/ EnqueueOnTransport(q) \/ Respond(q)
        PROVE  KeptInv'
    <2>1. pc[q] \in InHandler /\ q \in Open
      BY <1>9 DEF CreateJob, EnqueueOnTransport, Respond, Open
    <2>2. \A p \in Requests : pc[p] \in InHandler /\ OneKey(q, p) => Rivals(q, p)
      BY <2>1 DEF RivalInv, Open
    <2>3. CASE CreateJob(q)
      BY <2>2, <2>3 DEF CreateJob
    <2>4. CASE EnqueueOnTransport(q)
      BY <2>2, <2>4 DEF EnqueueOnTransport
    <2>5. CASE Respond(q)
      BY <2>2, <2>5 DEF Respond, Stores
    <2>6. QED
      BY <1>9, <2>3, <2>4, <2>5
  <1>10. ASSUME NEW k \in Keys, Expire(k)
         PROVE  KeptInv'
    BY <1>10 DEF Expire, ReplyInv
  <1>11. CASE Crash
    BY <1>11 DEF Crash, Open
  <1> HIDE DEF TypeOK, KeptInv
  <1>12. QED
    BY <1>1, <1>2, <1>3, <1>4, <1>5, <1>6, <1>7, <1>8, <1>9, <1>10, <1>11 DEF Next, Handle

LEMMA DuplicateStep ==
  ASSUME TypeOK, ReplyInv, RivalInv, KeptInv, DuplicatesHaveAnExcuse, [Next]_vars
  PROVE  DuplicatesHaveAnExcuse'
  <1> USE DEF TypeOK, DuplicatesHaveAnExcuse, rows, history, Goto, Answer
  <1>1. ASSUME NEW q \in Requests, CreateJob(q)
        PROVE  DuplicatesHaveAnExcuse'
    <2>1. pc[q] \in InHandler
      BY <1>1 DEF CreateJob
    <2>2. \A p \in jobs : OneKey(p, q) => Rivals(p, q) \/ p \in excused \cup failedLate
      BY <2>1 DEF KeptInv
    <2>3. UNCHANGED <<call, rivals, excused, failedLate>> /\ jobs' = jobs \cup {q}
      BY <1>1 DEF CreateJob
    <2>4. QED
      BY <2>2, <2>3 DEF OneKey, Rivals
  <1>2. ASSUME jobs' \subseteq jobs \cup failedLate',
               \A q \in jobs : call'[q] = call[q] /\ rivals'[q] = rivals[q],
               excused \subseteq excused', failedLate \subseteq failedLate'
        PROVE  DuplicatesHaveAnExcuse'
    BY <1>2
  <1>3. CASE UNCHANGED vars
    BY <1>2, <1>3 DEF vars
  <1>4. ASSUME NEW q \in Requests, Send(q)
        PROVE  DuplicatesHaveAnExcuse'
    BY <1>2, <1>4 DEF Send, ReplyInv
  <1>5. ASSUME NEW q \in Requests,
               CanActivate(q) \/ Lookup(q) \/ TimeOut(q) \/ EnqueueOnTransport(q)
        PROVE  DuplicatesHaveAnExcuse'
    BY <1>2, <1>5 DEF CanActivate, Lookup, TimeOut, EnqueueOnTransport
  <1>6. ASSUME NEW q \in Requests, Throws(q)
         PROVE  DuplicatesHaveAnExcuse'
    BY <1>2, <1>6 DEF Throws, RowIsThere
  <1>7. ASSUME NEW q \in Requests, Respond(q)
         PROVE  DuplicatesHaveAnExcuse'
    BY <1>2, <1>7 DEF Respond
  <1>8. ASSUME NEW q \in Requests, Store(q) \/ StoreFails(q) \/ JobEnds(q)
        PROVE  DuplicatesHaveAnExcuse'
    BY <1>2, <1>8 DEF Store, StoreFails, JobEnds
  <1>9. ASSUME NEW q \in Requests,
               Validate(q) \/ CreateAuditRequest(q) \/ SendMails(q) \/ AssertWithinLimit(q)
        PROVE  DuplicatesHaveAnExcuse'
    BY <1>2, <1>9 DEF Validate, CreateAuditRequest, SendMails, AssertWithinLimit
  <1>10. ASSUME NEW k \in Keys, Expire(k)
        PROVE  DuplicatesHaveAnExcuse'
    BY <1>2, <1>10 DEF Expire
  <1>11. CASE Crash
    BY <1>2, <1>11 DEF Crash
  <1> HIDE DEF TypeOK, DuplicatesHaveAnExcuse
  <1>12. QED
    BY <1>1, <1>3, <1>4, <1>5, <1>6, <1>7, <1>8, <1>9, <1>10, <1>11 DEF Next, Handle

(***************************************************************************)
(* One key makes one job, unless the requests overlapped, a response was   *)
(* never kept, or a request failed with its row made: for any number of    *)
(* requests, keys and faults.                                              *)
(***************************************************************************)
THEOREM DuplicatesAlwaysHaveAnExcuse == Spec => []DuplicatesHaveAnExcuse
  <1>1. Init => RivalInv /\ KeptInv /\ DuplicatesHaveAnExcuse
    BY DEF Init, RivalInv, KeptInv, DuplicatesHaveAnExcuse, Open
  <1>2. Spec => []RivalInv
    BY <1>1, RivalStep, TypeCorrect, ReplyInvHolds, PTL DEF Spec
  <1>3. Spec => []KeptInv
    BY <1>1, <1>2, KeptStep, TypeCorrect, ReplyInvHolds, PTL DEF Spec
  <1>4. QED
    BY <1>1, <1>2, <1>3, DuplicateStep, TypeCorrect, ReplyInvHolds, PTL DEF Spec

=============================================================================
