------------------------------ MODULE Checkout ------------------------------
(***************************************************************************)
(* PaymentService: buying the full report, at the launch price or at the   *)
(* regular one.  A checkout request creates a Stripe session first and its *)
(* row (LaunchPurchase or Payment) second, and only then gives the client  *)
(* the address of the session.  The report is unlocked by the webhook, in  *)
(* one transaction, or by GET /payment/verify, in two writes.              *)
(*                                                                         *)
(* Stripe is external: it takes the client's payment or expires a session, *)
(* and delivers the corresponding event late, in any order, and as often   *)
(* as it likes.  It signs the bytes it sends; the controller has only the  *)
(* parsed body and checks the signature against its JSON.stringify.        *)
(* Sessions are numbered in the order of their creation.                   *)
(***************************************************************************)
EXTENDS LaunchPricing

CONSTANTS
    Requests,          \* checkout requests that may be in flight at once
    Verifiers,         \* GET /payment/verify requests that may be in flight at once
    Reports,           \* ids of AuditReport rows
    NoReport,          \* no id
    MaxSessions,       \* BOUND on the Stripe sessions created
    MAX_SLOT_RETRIES,  \* attempts at a launch slot
    MaxFaults          \* BOUND on failed writes and deaths of the process

Sessions == 1..MaxSessions

ASSUME CheckoutAssumption ==
    /\ NoReport \notin Reports
    /\ MaxSessions \in Nat
    /\ Purchases = Sessions
    /\ MAX_SLOT_RETRIES \in Nat \ {0}
    /\ MaxFaults \in Nat

VARIABLES
    step,       \* step[c]: "idle", or the call request c is about to make
    asked,      \* asked[c]: [flow, report, region] of the request; the regular price
                \* has no region
    attempt,    \* attempt[c]: its attempt at a launch slot
    slot,       \* slot[c]: the slot reserved for it
    made,       \* made[c]: the session it has created
    created,    \* the Stripe sessions created so far are 1..created
    stripe,     \* stripe[s]: state of session s at Stripe
    metadata,   \* metadata[s]: the order, as stored in the session
    bodyKept,   \* the JSON.stringify of a parsed event is byte for byte what Stripe
                \* signed: its choice of layout, the same for every event
    payment,    \* payment[s]: status of the Payment row of s, or "ABSENT"
    offered,    \* sessions whose address a client has been given
    unlocked,   \* reports whose fullReportUnlocked is TRUE
    verifyStep, \* verifyStep[v]: "idle", or the write verify request v is about to make
    verifying,  \* verifying[v]: the session it has found paid
    faults      \* faults so far

requestVars == <<step, asked, attempt, slot, made>>
stripeVars == <<created, stripe, metadata, bodyKept>>
accessVars == <<payment, offered, unlocked>>
verifyVars == <<verifyStep, verifying>>
vars == <<pricingVars, requestVars, stripeVars, accessVars, verifyVars, faults>>

NoSession == 0

Orders ==
    [flow : {"launch"}, report : Reports, region : Regions]
        \cup [flow : {"full"}, report : Reports \cup {NoReport}, region : {NoRegion}]
NoOrder == [flow |-> "full", report |-> NoReport, region |-> NoRegion]

TypeOK ==
    /\ PricingTypeOK
    /\ step \in [Requests -> {"idle", "session", "record"}]
    /\ asked \in [Requests -> Orders]
    /\ \A c \in Requests : step[c] # "idle" => asked[c].report \in Reports
    /\ attempt \in [Requests -> 1..MAX_SLOT_RETRIES]
    /\ slot \in [Requests -> Nat]
    /\ made \in [Requests -> Sessions \cup {NoSession}]
    /\ \A c \in Requests : step[c] = "record" => made[c] \in 1..created
    /\ created \in 0..MaxSessions
    /\ stripe \in [Sessions -> {"ABSENT", "open", "paid", "expired"}]
    /\ \A s \in Sessions : s \in 1..created <=> stripe[s] # "ABSENT"
    /\ metadata \in [Sessions -> Orders]
    /\ \A s \in 1..created : metadata[s].report \in Reports
    /\ bodyKept \in BOOLEAN
    /\ payment \in [Sessions -> {"ABSENT", "PENDING", "COMPLETED", "EXPIRED"}]
    /\ offered \in SUBSET (1..created)
    /\ unlocked \in SUBSET Reports
    /\ verifyStep \in [Verifiers -> {"idle", "row", "unlock"}]
    /\ verifying \in [Verifiers -> Sessions \cup {NoSession}]
    /\ \A v \in Verifiers : verifyStep[v] # "idle" => verifying[v] \in 1..created
    /\ faults \in Nat

Init ==
    /\ PricingInit
    /\ step = [c \in Requests |-> "idle"]
    /\ asked = [c \in Requests |-> NoOrder]
    /\ attempt = [c \in Requests |-> 1]
    /\ slot = [c \in Requests |-> 0]
    /\ made = [c \in Requests |-> NoSession]
    /\ created = 0
    /\ stripe = [s \in Sessions |-> "ABSENT"]
    /\ metadata = [s \in Sessions |-> NoOrder]
    /\ bodyKept \in BOOLEAN
    /\ payment = [s \in Sessions |-> "ABSENT"]
    /\ offered = {}
    /\ unlocked = {}
    /\ verifyStep = [v \in Verifiers |-> "idle"]
    /\ verifying = [v \in Verifiers |-> NoSession]
    /\ faults = 0

-----------------------------------------------------------------------------
(***************************************************************************)
(* createLaunchCheckoutSession and createCheckoutSession                   *)
(***************************************************************************)
(* reserveSlot for request c, whose slots are of region g *)
Reserve(c, g) ==
    /\ \E n \in NextSlots(g) :
        /\ ReserveSlot(n, g)
        /\ slot' = [slot EXCEPT ![c] = n]
    /\ step' = [step EXCEPT ![c] = "session"]
    /\ UNCHANGED <<redis, restoring, place, purchase>>

(* Faulty variant: the session created is not remembered. *)
NewSessionForgotten(c, order) ==
    /\ created < MaxSessions
    /\ created' = created + 1
    /\ stripe' = [stripe EXCEPT ![created + 1] = "open"]
    /\ metadata' = [metadata EXCEPT ![created + 1] = order]
    /\ step' = [step EXCEPT ![c] = "record"]
    /\ UNCHANGED <<made, bodyKept>>

(* sessions.create for request c *)
NewSession(c, order) ==
    /\ created < MaxSessions
    /\ created' = created + 1
    /\ stripe' = [stripe EXCEPT ![created + 1] = "open"]
    /\ metadata' = [metadata EXCEPT ![created + 1] = order]
    /\ made' = [made EXCEPT ![c] = created + 1]
    /\ step' = [step EXCEPT ![c] = "record"]
    /\ UNCHANGED bodyKept

(* A request does nothing that others can see before its first call, which
   is therefore part of its beginning. *)
BeginLaunch(c, r, g) ==
    /\ step[c] = "idle"
    /\ Reserve(c, g)
    /\ asked' = [asked EXCEPT ![c] = [flow |-> "launch", report |-> r, region |-> g]]
    /\ UNCHANGED <<attempt, made, stripeVars, accessVars, verifyVars, faults>>

BeginFull(c, r) ==
    /\ step[c] = "idle"
    /\ asked' = [asked EXCEPT ![c] = [flow |-> "full", report |-> r, region |-> NoRegion]]
    /\ NewSession(c, asked'[c])
    /\ UNCHANGED <<pricingVars, attempt, slot, accessVars, verifyVars, faults>>

(* Faulty variant: the client is given the address before the row is written. *)
CreateSessionAndOffer(c) ==
    /\ step[c] = "session"
    /\ NewSession(c, asked[c])
    /\ offered' = offered \cup {created + 1}
    /\ UNCHANGED <<pricingVars, asked, attempt, slot, payment, unlocked, verifyVars, faults>>

CreateSession(c) ==
    /\ step[c] = "session"
    /\ NewSession(c, asked[c])
    /\ UNCHANGED <<pricingVars, asked, attempt, slot, accessVars, verifyVars, faults>>

EndRequest(c) ==
    /\ step' = [step EXCEPT ![c] = "idle"]
    /\ asked' = [asked EXCEPT ![c] = NoOrder]
    /\ attempt' = [attempt EXCEPT ![c] = 1]
    /\ slot' = [slot EXCEPT ![c] = 0]
    /\ made' = [made EXCEPT ![c] = NoSession]

(* the call to Stripe throws *)
SessionFails(c) ==
    /\ step[c] = "session"
    /\ EndRequest(c)
    /\ UNCHANGED <<pricingVars, stripeVars, accessVars, verifyVars, faults>>

Insert(c) ==
    IF asked[c].flow = "launch"
    THEN /\ RecordPurchase(made[c], slot[c], asked[c].region)
         /\ UNCHANGED payment
    ELSE /\ payment' = [payment EXCEPT ![made[c]] = "PENDING"]
         /\ UNCHANGED <<place, purchase>>

Record(c) ==
    /\ step[c] = "record"
    /\ Insert(c)
    /\ offered' = offered \cup {made[c]}
    /\ EndRequest(c)
    /\ UNCHANGED <<redis, counter, restoring, stripeVars, unlocked, verifyVars, faults>>

Refused(c) ==
    /\ step[c] = "record"
    /\ asked[c].flow = "launch"
    /\ SlotTaken(slot[c], asked[c].region)

(* P2002: the session is abandoned and another slot is tried *)
TryAnotherSlot(c) ==
    /\ Refused(c)
    /\ attempt[c] < MAX_SLOT_RETRIES
    /\ attempt' = [attempt EXCEPT ![c] = @ + 1]
    /\ made' = [made EXCEPT ![c] = NoSession]
    /\ Reserve(c, asked[c].region)
    /\ UNCHANGED <<asked, stripeVars, accessVars, verifyVars, faults>>

GiveUp(c) ==
    /\ Refused(c)
    /\ attempt[c] = MAX_SLOT_RETRIES
    /\ EndRequest(c)
    /\ UNCHANGED <<pricingVars, stripeVars, accessVars, verifyVars, faults>>

-----------------------------------------------------------------------------
(***************************************************************************)
(* Stripe                                                                  *)
(***************************************************************************)
Pay(s) ==
    /\ s \in offered
    /\ stripe[s] = "open"
    /\ stripe' = [stripe EXCEPT ![s] = "paid"]
    /\ UNCHANGED <<pricingVars, requestVars, created, metadata, bodyKept, accessVars,
                   verifyVars, faults>>

Expire(s) ==
    /\ stripe[s] = "open"
    /\ stripe' = [stripe EXCEPT ![s] = "expired"]
    /\ UNCHANGED <<pricingVars, requestVars, created, metadata, bodyKept, accessVars,
                   verifyVars, faults>>

-----------------------------------------------------------------------------
(***************************************************************************)
(* The webhook.  A delivery whose signature does not fit is answered 400;  *)
(* no raw body is kept for the check (main.ts creates the app without      *)
(* rawBody), so every delivery is, unless the body happens to survive      *)
(* parsing.  An event is handled in one transaction or in a single write,  *)
(* which fails when there is no row; a delivery that fails changes nothing *)
(* and may be repeated.                                                    *)
(***************************************************************************)
HasRow(s) ==
    IF metadata[s].flow = "launch" THEN purchase[s] # "ABSENT" ELSE payment[s] # "ABSENT"

SetRow(s, st) ==
    IF metadata[s].flow = "launch"
    THEN purchase' = [purchase EXCEPT ![s] = st] /\ UNCHANGED payment
    ELSE payment' = [payment EXCEPT ![s] = st] /\ UNCHANGED purchase

(* Faulty variant: the report is not unlocked in the transaction. *)
HandleCheckoutCompletedRowOnly(s) ==
    /\ bodyKept
    /\ stripe[s] = "paid"
    /\ HasRow(s)
    /\ SetRow(s, "COMPLETED")
    /\ UNCHANGED <<redis, counter, restoring, place, requestVars, stripeVars, offered, unlocked,
                   verifyVars, faults>>

HandleCheckoutCompleted(s) ==
    /\ bodyKept
    /\ stripe[s] = "paid"
    /\ HasRow(s)
    /\ SetRow(s, "COMPLETED")
    /\ unlocked' = unlocked \cup {metadata[s].report}
    /\ UNCHANGED <<redis, counter, restoring, place, requestVars, stripeVars, offered,
                   verifyVars, faults>>

(* A LaunchPurchase is left PENDING. *)
HandleCheckoutExpired(s) ==
    /\ bodyKept
    /\ stripe[s] = "expired"
    /\ metadata[s].flow = "full"
    /\ HasRow(s)
    /\ SetRow(s, "EXPIRED")
    /\ UNCHANGED <<redis, counter, restoring, place, requestVars, stripeVars, offered, unlocked,
                   verifyVars, faults>>

-----------------------------------------------------------------------------
(***************************************************************************)
(* verifyPayment: reads the session, then writes the Payment row (there is *)
(* no such write for a launch purchase), then the report.                  *)
(***************************************************************************)
SetVerify(v, at, s) ==
    /\ verifyStep' = [verifyStep EXCEPT ![v] = at]
    /\ verifying' = [verifying EXCEPT ![v] = s]

(* Faulty variant: payment_status is not tested. *)
VerifyRetrieveUnpaid(v, s) ==
    /\ verifyStep[v] = "idle"
    /\ s \in offered
    /\ SetVerify(v, IF metadata[s].flow = "full" THEN "row" ELSE "unlock", s)
    /\ UNCHANGED <<pricingVars, requestVars, stripeVars, accessVars, faults>>

VerifyRetrieve(v, s) ==
    /\ verifyStep[v] = "idle"
    /\ s \in offered
    /\ stripe[s] = "paid"
    /\ SetVerify(v, IF metadata[s].flow = "full" THEN "row" ELSE "unlock", s)
    /\ UNCHANGED <<pricingVars, requestVars, stripeVars, accessVars, faults>>

(* Faulty variant: a payment that says COMPLETED needs nothing more. *)
VerifyRowOnce(v) ==
    /\ verifyStep[v] = "row"
    /\ HasRow(verifying[v])
    /\ SetRow(verifying[v], "COMPLETED")
    /\ IF payment[verifying[v]] = "COMPLETED"
       THEN SetVerify(v, "idle", NoSession)
       ELSE SetVerify(v, "unlock", verifying[v])
    /\ UNCHANGED <<redis, counter, restoring, place, requestVars, stripeVars, offered, unlocked,
                   faults>>

(* The update throws when there is no row, which PaidIsRecorded excludes. *)
VerifyRow(v) ==
    /\ verifyStep[v] = "row"
    /\ HasRow(verifying[v])
    /\ SetRow(verifying[v], "COMPLETED")
    /\ SetVerify(v, "unlock", verifying[v])
    /\ UNCHANGED <<redis, counter, restoring, place, requestVars, stripeVars, offered, unlocked,
                   faults>>

VerifyUnlock(v) ==
    /\ verifyStep[v] = "unlock"
    /\ unlocked' = unlocked \cup {metadata[verifying[v]].report}
    /\ SetVerify(v, "idle", NoSession)
    /\ UNCHANGED <<pricingVars, requestVars, stripeVars, payment, offered, faults>>

-----------------------------------------------------------------------------
(***************************************************************************)
(* Faults                                                                  *)
(***************************************************************************)
Fault ==
    /\ faults < MaxFaults
    /\ faults' = faults + 1

(* The write of the row fails, or is applied and reported as failed: the
   client sees an error and never learns the address of the session. *)
RecordFails(c) ==
    /\ step[c] = "record"
    /\ Fault
    /\ UNCHANGED <<place, purchase, payment>> \/ Insert(c)
    /\ EndRequest(c)
    /\ UNCHANGED <<redis, counter, restoring, stripeVars, offered, unlocked, verifyVars>>

(* A write of verifyPayment fails: the client is told so, and what was
   written before stays. *)
VerifyFails(v) ==
    /\ verifyStep[v] # "idle"
    /\ Fault
    /\ SetVerify(v, "idle", NoSession)
    /\ UNCHANGED <<pricingVars, requestVars, stripeVars, accessVars>>

(* The process dies: its requests end where they are; Redis, the tables and
   Stripe keep what they have. *)
Crash ==
    /\ Fault
    /\ step' = [c \in Requests |-> "idle"]
    /\ asked' = [c \in Requests |-> NoOrder]
    /\ attempt' = [c \in Requests |-> 1]
    /\ slot' = [c \in Requests |-> 0]
    /\ made' = [c \in Requests |-> NoSession]
    /\ restoring' = [g \in Regions |-> 0]
    /\ verifyStep' = [v \in Verifiers |-> "idle"]
    /\ verifying' = [v \in Verifiers |-> NoSession]
    /\ UNCHANGED <<redis, counter, place, purchase, stripeVars, accessVars>>

-----------------------------------------------------------------------------
Operator(g) ==
    /\ ResetCounter(g) \/ ReadMaxCompleted(g) \/ SetCounter(g)
    /\ UNCHANGED <<requestVars, stripeVars, accessVars, verifyVars, faults>>

Request(c) ==
    \/ \E r \in Reports : BeginFull(c, r) \/ \E g \in Regions : BeginLaunch(c, r, g)
    \/ CreateSession(c) \/ SessionFails(c)
    \/ Record(c) \/ TryAnotherSlot(c) \/ GiveUp(c)

Verify(v) ==
    \/ \E s \in Sessions : VerifyRetrieve(v, s)
    \/ VerifyRow(v) \/ VerifyUnlock(v)

Failure ==
    \/ \E c \in Requests : RecordFails(c)
    \/ \E v \in Verifiers : VerifyFails(v)
    \/ Crash

Next ==
    \/ \E g \in Regions : Operator(g)
    \/ \E c \in Requests : Request(c)
    \/ \E s \in Sessions : \/ Pay(s) \/ Expire(s)
                           \/ HandleCheckoutCompleted(s) \/ HandleCheckoutExpired(s)
    \/ \E v \in Verifiers : Verify(v)
    \/ Failure

Spec == Init /\ [][Next]_vars

(***************************************************************************)
(* The calls a verify request awaits return.  Nothing else is certain: a   *)
(* client may never pay, ask or come back, and a delivery of Stripe's may  *)
(* be refused every time.                                                  *)
(***************************************************************************)
FairSpec == Spec /\ \A v \in Verifiers : WF_vars(VerifyRow(v)) /\ WF_vars(VerifyUnlock(v))

-----------------------------------------------------------------------------
(***************************************************************************)
(* Properties                                                              *)
(***************************************************************************)

(* No report is unlocked that nobody has paid for, whichever of the webhook
   and verifyPayment comes first, is repeated, or stops half-way. *)
UnlockedIsPaid ==
    \A r \in unlocked : \E s \in 1..created : stripe[s] = "paid" /\ metadata[s].report = r

(* A client can only pay where the row is already written, so that the
   webhook finds what it has to update. *)
PaidIsRecorded == \A s \in 1..created : stripe[s] = "paid" => HasRow(s)

(* The rows never contradict Stripe: COMPLETED only when the money is taken,
   EXPIRED only when it no longer can be. *)
RowsAgreeWithStripe ==
    \A s \in Sessions :
        /\ purchase[s] = "COMPLETED" \/ payment[s] = "COMPLETED" => stripe[s] = "paid"
        /\ payment[s] = "EXPIRED" => stripe[s] = "expired"

(* No two clients are offered one slot of a region, whatever the counters
   have gone through and however many requests were given it. *)
SlotsAreDistinct ==
    \A s, t \in offered :
        /\ metadata[s].flow = "launch" /\ metadata[t].flow = "launch"
        /\ place[s] = place[t]
        => s = t

(* Without Redis the launch price climbs by one slot at a time: below a slot
   that is recorded every slot is recorded, though several requests are given
   the same slot, are refused, fail, or abandon what they were given. *)
NoGapsWithoutRedis ==
    ~redis => \A g \in Regions : \A n \in Slots(g, Recorded) : 1..n \subseteq Slots(g, Recorded)

(* The price shown is never above the price a request would be charged now,
   and every euro between the two is the price of a slot that is recorded and
   not paid for: it may rise by what others have not paid yet, by no more. *)
QuoteTrailsPendingOnly ==
    \A g \in Regions : \A shown \in CurrentPrices(g), n \in NextSlots(g) :
        /\ shown <= PriceOf(n)
        /\ \A euro \in shown..(PriceOf(n) - 1) :
              \E p \in Purchases : /\ purchase[p] = "PENDING"
                                   /\ place[p] = [region |-> g, slotNumber |-> euro]

(* "must be applied atomically": a purchase that says COMPLETED has its
   report unlocked, or a verifyPayment is about to do it, or died doing it. *)
CompletedIsUnlocked ==
    faults = 0 =>
        \A s \in 1..created :
            purchase[s] = "COMPLETED" \/ payment[s] = "COMPLETED" =>
                \/ metadata[s].report \in unlocked
                \/ \E v \in Verifiers : verifyStep[v] = "unlock" /\ verifying[v] = s

(* Who has paid, and keeps asking GET verify, gets the report: the webhook
   may have been refused throughout, and any of these requests may have been
   cut short between its two writes. *)
PaidUnlocks ==
    \A s \in Sessions :
        []<>(\E v \in Verifiers : verifying[v] = s) =>
            (stripe[s] = "paid" ~> metadata[s].report \in unlocked)

(***************************************************************************)
(* The sale this comes to.  An order exists for the world when its address *)
(* has been given to a client: what the process makes and abandons before  *)
(* is its own affair.                                                      *)
(***************************************************************************)
Regular == [region |-> NoRegion, slotNumber |-> 0]

saleOf == [s \in Sessions |-> IF s \in offered THEN stripe[s] ELSE "none"]
reportOf == [s \in Sessions |-> IF s \in offered THEN metadata[s].report ELSE NoReport]
dealOf ==
    [s \in Sessions |-> IF s \in offered /\ metadata[s].flow = "launch" THEN place[s] ELSE Regular]
booksOf ==
    [s \in Sessions |->
        IF s \notin offered THEN "open"
        ELSE IF purchase[s] = "COMPLETED" \/ payment[s] = "COMPLETED" THEN "completed"
        ELSE IF payment[s] = "EXPIRED" THEN "expired" ELSE "open"]

Sale == INSTANCE ReportSale WITH
    Sales <- Sessions, sale <- saleOf, report <- reportOf, deal <- dealOf, books <- booksOf,
    access <- unlocked

(* Whatever is retried, refused, repeated, delivered late or cut short by a crash, the clients see a sale:
   access, books and launch slots change only as ReportSale allows. *)
ImplementsSale == Sale!SaleSpec

=============================================================================
