--------------------------- MODULE CheckoutProofs ---------------------------
(***************************************************************************)
(* Theorems about Checkout, for every set of requests, verify requests,    *)
(* reports and regions, and every bound.                                   *)
(***************************************************************************)
EXTENDS Checkout, TLAPS

LEMMA InitTypeOK == Init => TypeOK
  <1> SUFFICES ASSUME Init
               PROVE  TypeOK
    OBVIOUS
  <1> USE DEF Init, Orders, NoOrder, Sessions, NoSession
  <1>1. PricingTypeOK
    BY PricingAssumption DEF PricingInit, PricingTypeOK, PaymentStatuses, Places
  <1>2. /\ step \in [Requests -> {"idle", "session", "record"}]
        /\ asked \in [Requests -> Orders]
        /\ attempt \in [Requests -> 1..MAX_SLOT_RETRIES]
        /\ slot \in [Requests -> Nat]
        /\ made \in [Requests -> Sessions \cup {NoSession}]
    BY CheckoutAssumption
  <1>3. /\ created \in 0..MaxSessions
        /\ stripe \in [Sessions -> {"ABSENT", "open", "paid", "expired"}]
        /\ metadata \in [Sessions -> Orders]
        /\ \A s \in Sessions : stripe[s] = "ABSENT"
        /\ payment \in [Sessions -> {"ABSENT", "PENDING", "COMPLETED", "EXPIRED"}]
        /\ faults \in Nat
    BY CheckoutAssumption
  <1>4. /\ verifyStep \in [Verifiers -> {"idle", "row", "unlock"}]
        /\ verifying \in [Verifiers -> Sessions \cup {NoSession}]
    OBVIOUS
  <1>5. /\ \A c \in Requests : step[c] = "idle"
        /\ \A v \in Verifiers : verifyStep[v] = "idle"
        /\ 1..created = {}
    OBVIOUS
  <1>6. QED
    BY <1>1, <1>2, <1>3, <1>4, <1>5 DEF TypeOK

(***************************************************************************)
(* What the parts of an action do to the types.                            *)
(***************************************************************************)
LEMMA NextSlotsType ==
  ASSUME PricingTypeOK, NEW g \in Regions
  PROVE  NextSlots(g) \subseteq Nat \ {0}
  <1>1. Slots(g, Recorded) \subseteq Nat
    BY DEF PricingTypeOK, Slots, Places
  <1>2. QED
    BY <1>1 DEF NextSlots, PricingTypeOK

(* what requests have, whatever they are doing *)
RequestTypeOK ==
    /\ step \in [Requests -> {"idle", "session", "record"}]
    /\ asked \in [Requests -> Orders]
    /\ \A c \in Requests : step[c] # "idle" => asked[c].report \in Reports
    /\ attempt \in [Requests -> 1..MAX_SLOT_RETRIES]
    /\ slot \in [Requests -> Nat]
    /\ made \in [Requests -> Sessions \cup {NoSession}]
    /\ \A c \in Requests : step[c] = "record" => made[c] \in 1..created

(* what the outside, and the database, have *)
StoreTypeOK ==
    /\ created \in 0..MaxSessions
    /\ stripe \in [Sessions -> {"ABSENT", "open", "paid", "expired"}]
    /\ \A s \in Sessions : s \in 1..created <=> stripe[s] # "ABSENT"
    /\ metadata \in [Sessions -> Orders]
    /\ \A s \in 1..created : metadata[s].report \in Reports
    /\ bodyKept \in BOOLEAN
    /\ payment \in [Sessions -> {"ABSENT", "PENDING", "COMPLETED", "EXPIRED"}]
    /\ offered \in SUBSET (1..created)
    /\ unlocked \in SUBSET Reports

LEMMA EndRequestType ==
  ASSUME TypeOK, NEW c \in Requests, EndRequest(c), UNCHANGED created
  PROVE  RequestTypeOK'
  <1> USE DEF EndRequest, TypeOK, RequestTypeOK
  <1>1. NoOrder \in Orders /\ 1 \in 1..MAX_SLOT_RETRIES /\ NoSession \in Sessions \cup {NoSession}
    BY CheckoutAssumption DEF NoOrder, Orders
  <1>2. QED
    BY <1>1

LEMMA ReserveType ==
  ASSUME TypeOK, NEW c \in Requests, NEW g \in Regions, Reserve(c, g)
  PROVE  /\ PricingTypeOK'
         /\ slot' \in [Requests -> Nat]
         /\ step' = [step EXCEPT ![c] = "session"]
  <1>1. PricingTypeOK
    BY DEF TypeOK
  <1>2. PICK n \in NextSlots(g) : ReserveSlot(n, g) /\ slot' = [slot EXCEPT ![c] = n]
    BY DEF Reserve
  <1>3. n \in Nat
    BY <1>1, NextSlotsType
  <1>4. counter' \in [Regions -> Nat]
    BY <1>1, <1>2, <1>3 DEF ReserveSlot, PricingTypeOK
  <1>5. PricingTypeOK'
    BY <1>1, <1>4 DEF Reserve, PricingTypeOK
  <1>6. QED
    BY <1>2, <1>3, <1>5 DEF Reserve, TypeOK

LEMMA InsertType ==
  ASSUME TypeOK, NEW c \in Requests, step[c] = "record", Insert(c),
         UNCHANGED <<redis, counter, restoring>>
  PROVE  /\ PricingTypeOK'
         /\ payment' \in [Sessions -> {"ABSENT", "PENDING", "COMPLETED", "EXPIRED"}]
  <1>1. made[c] \in Sessions
    BY CheckoutAssumption DEF TypeOK, Sessions
  <1>2. asked[c] \in Orders /\ slot[c] \in Nat
    BY DEF TypeOK
  <1>3. [region |-> asked[c].region, slotNumber |-> slot[c]] \in Places
    BY <1>2 DEF Orders, Places
  <1>4. CASE asked[c].flow = "launch"
    <2>1. place \in [Sessions -> Places] /\ purchase \in [Sessions -> PaymentStatuses]
      BY CheckoutAssumption DEF TypeOK, PricingTypeOK
    <2>2. place' \in [Sessions -> Places] /\ purchase' \in [Sessions -> PaymentStatuses]
      BY <1>1, <1>3, <1>4, <2>1 DEF Insert, RecordPurchase, PaymentStatuses
    <2>3. UNCHANGED payment
      BY <1>4 DEF Insert
    <2>4. QED
      BY <2>2, <2>3, CheckoutAssumption DEF TypeOK, PricingTypeOK
  <1>5. CASE asked[c].flow # "launch"
    BY <1>1, <1>5 DEF Insert, TypeOK, PricingTypeOK
  <1>6. QED
    BY <1>4, <1>5

LEMMA SetRowType ==
  ASSUME TypeOK, NEW s \in Sessions, NEW st \in {"COMPLETED", "EXPIRED"}, SetRow(s, st),
         metadata[s].flow = "launch" => st = "COMPLETED",
         UNCHANGED <<redis, counter, restoring, place>>
  PROVE  /\ PricingTypeOK'
         /\ payment' \in [Sessions -> {"ABSENT", "PENDING", "COMPLETED", "EXPIRED"}]
  BY CheckoutAssumption DEF SetRow, TypeOK, PricingTypeOK, PaymentStatuses

LEMMA NewSessionType ==
  ASSUME TypeOK, NEW c \in Requests, NEW order \in Orders, order.report \in Reports,
         NewSession(c, order), UNCHANGED <<accessVars, attempt, slot>>,
         asked' \in [Requests -> Orders], \A d \in Requests \ {c} : asked'[d] = asked[d],
         asked'[c] = order
  PROVE  RequestTypeOK' /\ StoreTypeOK' /\ 1..created \subseteq 1..created'
  <1>1. /\ created + 1 \in Sessions /\ created' = created + 1 /\ created \in Nat
        /\ 1..created \subseteq 1..created'
    BY CheckoutAssumption DEF NewSession, TypeOK, Sessions
  <1>2. /\ created' \in 0..MaxSessions
        /\ stripe' \in [Sessions -> {"ABSENT", "open", "paid", "expired"}]
        /\ \A s \in Sessions : s \in 1..created' <=> stripe'[s] # "ABSENT"
        /\ metadata' \in [Sessions -> Orders]
        /\ \A s \in 1..created' : metadata'[s].report \in Reports
    BY <1>1, CheckoutAssumption DEF NewSession, TypeOK, Sessions
  <1>3. StoreTypeOK'
    BY <1>1, <1>2 DEF NewSession, TypeOK, StoreTypeOK, accessVars
  <1>4. /\ step' \in [Requests -> {"idle", "session", "record"}]
        /\ made' \in [Requests -> Sessions \cup {NoSession}]
        /\ attempt' \in [Requests -> 1..MAX_SLOT_RETRIES]
        /\ slot' \in [Requests -> Nat]
    BY <1>1 DEF NewSession, TypeOK
  <1>5. \A d \in Requests : step'[d] # "idle" => asked'[d].report \in Reports
    BY DEF NewSession, TypeOK
  <1>6. \A d \in Requests : step'[d] = "record" => made'[d] \in 1..created'
    BY <1>1 DEF NewSession, TypeOK
  <1>7. RequestTypeOK'
    BY <1>4, <1>5, <1>6 DEF RequestTypeOK
  <1>8. QED
    BY <1>1, <1>3, <1>7

-----------------------------------------------------------------------------
(***************************************************************************)
(* One lemma for each kind of step.                                        *)
(***************************************************************************)
LEMMA OperatorTypeOK ==
  ASSUME TypeOK, NEW g \in Regions, Operator(g)
  PROVE  TypeOK'
  <1> USE DEF Operator, requestVars, stripeVars, accessVars, verifyVars
  <1>1. PricingTypeOK
    BY DEF TypeOK
  <1>2. PricingTypeOK'
    <2>1. CASE ResetCounter(g)
      BY <1>1, <2>1 DEF ResetCounter, PricingTypeOK
    <2>2. CASE ReadMaxCompleted(g)
      <3>1. Slots(g, {"COMPLETED"}) \subseteq Nat
        BY <1>1 DEF PricingTypeOK, Slots, Places
      <3>2. QED
        BY <1>1, <2>2, <3>1 DEF ReadMaxCompleted, PricingTypeOK
    <2>3. CASE SetCounter(g)
      BY <1>1, <2>3 DEF SetCounter, PricingTypeOK
    <2>4. QED
      BY <2>1, <2>2, <2>3
  <1>3. QED
    BY <1>2 DEF TypeOK

LEMMA RequestStepTypeOK ==
  ASSUME TypeOK, NEW c \in Requests, Request(c)
  PROVE  TypeOK'
  <1> USE DEF stripeVars, accessVars, verifyVars
  <1>1. ASSUME NEW r \in Reports, NEW g \in Regions, BeginLaunch(c, r, g)
        PROVE  TypeOK'
    <2>1. /\ PricingTypeOK' /\ slot' \in [Requests -> Nat]
          /\ step' = [step EXCEPT ![c] = "session"]
      BY <1>1, ReserveType DEF BeginLaunch
    <2>2. [flow |-> "launch", report |-> r, region |-> g] \in Orders
      BY DEF Orders
    <2>3. RequestTypeOK'
      BY <1>1, <2>1, <2>2 DEF BeginLaunch, TypeOK, RequestTypeOK
    <2>4. QED
      BY <1>1, <2>1, <2>3
      DEF BeginLaunch, RequestTypeOK, TypeOK
  <1>2. ASSUME NEW r \in Reports, BeginFull(c, r)
        PROVE  TypeOK'
    <2> DEFINE order == [flow |-> "full", report |-> r, region |-> NoRegion]
    <2>1. order \in Orders /\ order.report \in Reports
      BY DEF Orders
    <2>2. /\ asked' \in [Requests -> Orders] /\ asked'[c] = order
          /\ \A d \in Requests \ {c} : asked'[d] = asked[d]
      BY <1>2, <2>1 DEF BeginFull, TypeOK
    <2>3. RequestTypeOK' /\ StoreTypeOK' /\ 1..created \subseteq 1..created'
      BY <1>2, <2>1, <2>2, NewSessionType DEF BeginFull
    <2>4. QED
      BY <1>2, <2>3
      DEF BeginFull, RequestTypeOK, StoreTypeOK, TypeOK, PricingTypeOK, pricingVars
  <1>3. CASE CreateSession(c)
    <2>1. asked[c] \in Orders /\ asked[c].report \in Reports
      BY <1>3 DEF CreateSession, TypeOK
    <2>2. asked \in [Requests -> Orders]
      BY DEF TypeOK
    <2>3. RequestTypeOK' /\ StoreTypeOK' /\ 1..created \subseteq 1..created'
      BY <1>3, <2>1, <2>2, NewSessionType DEF CreateSession
    <2>4. QED
      BY <1>3, <2>3
      DEF CreateSession, RequestTypeOK, StoreTypeOK, TypeOK, PricingTypeOK, pricingVars
  <1>4. CASE SessionFails(c) \/ GiveUp(c)
    <2>1. RequestTypeOK'
      BY <1>4, EndRequestType DEF SessionFails, GiveUp
    <2>2. CASE SessionFails(c)
      BY <2>1, <2>2 DEF SessionFails, RequestTypeOK, TypeOK, PricingTypeOK, pricingVars
    <2>3. CASE GiveUp(c)
      BY <2>1, <2>3 DEF GiveUp, RequestTypeOK, TypeOK, PricingTypeOK, pricingVars
    <2>4. QED
      BY <1>4, <2>2, <2>3
  <1>5. CASE Record(c)
    <2>1. made[c] \in 1..created /\ made[c] \in Sessions
      BY <1>5, CheckoutAssumption DEF Record, TypeOK, Sessions
    <2>2. RequestTypeOK'
      BY <1>5, EndRequestType DEF Record
    <2>3. /\ PricingTypeOK'
          /\ payment' \in [Sessions -> {"ABSENT", "PENDING", "COMPLETED", "EXPIRED"}]
      BY <1>5, InsertType DEF Record
    <2>4. StoreTypeOK'
      BY <1>5, <2>1, <2>3 DEF Record, StoreTypeOK, TypeOK
    <2>5. QED
      BY <1>5, <2>2, <2>3, <2>4
      DEF Record, RequestTypeOK, StoreTypeOK, TypeOK
  <1>6. CASE TryAnotherSlot(c)
    <2>1. asked[c].region \in Regions
      BY <1>6 DEF TryAnotherSlot, Refused, TypeOK, Orders
    <2>2. /\ PricingTypeOK' /\ slot' \in [Requests -> Nat]
          /\ step' = [step EXCEPT ![c] = "session"]
      BY <1>6, <2>1, ReserveType DEF TryAnotherSlot
    <2>3. attempt[c] + 1 \in 1..MAX_SLOT_RETRIES
      BY <1>6, CheckoutAssumption DEF TryAnotherSlot, TypeOK
    <2>4. RequestTypeOK'
      BY <1>6, <2>2, <2>3 DEF TryAnotherSlot, Refused, TypeOK, RequestTypeOK
    <2>5. QED
      BY <1>6, <2>2, <2>4
      DEF TryAnotherSlot, RequestTypeOK, TypeOK
  <1>7. QED
    BY <1>1, <1>2, <1>3, <1>4, <1>5, <1>6 DEF Request

LEMMA StripeStepTypeOK ==
  ASSUME TypeOK, NEW s \in Sessions,
         Pay(s) \/ Expire(s) \/ HandleCheckoutCompleted(s) \/ HandleCheckoutExpired(s)
  PROVE  TypeOK'
  <1> USE DEF pricingVars, requestVars, stripeVars, accessVars, verifyVars
  <1>1. CASE Pay(s) \/ Expire(s)
    BY <1>1 DEF Pay, Expire, TypeOK, PricingTypeOK
  <1>2. CASE HandleCheckoutCompleted(s)
    <2>1. /\ PricingTypeOK'
          /\ payment' \in [Sessions -> {"ABSENT", "PENDING", "COMPLETED", "EXPIRED"}]
      BY <1>2, SetRowType DEF HandleCheckoutCompleted
    <2>2. metadata[s].report \in Reports
      BY <1>2 DEF HandleCheckoutCompleted, TypeOK
    <2>3. unlocked' \in SUBSET Reports
      BY <1>2, <2>2 DEF HandleCheckoutCompleted, TypeOK
    <2>4. QED
      BY <1>2, <2>1, <2>3 DEF HandleCheckoutCompleted, TypeOK
  <1>3. CASE HandleCheckoutExpired(s)
    <2>1. /\ PricingTypeOK'
          /\ payment' \in [Sessions -> {"ABSENT", "PENDING", "COMPLETED", "EXPIRED"}]
      BY <1>3, SetRowType DEF HandleCheckoutExpired
    <2>2. QED
      BY <1>3, <2>1 DEF HandleCheckoutExpired, TypeOK
  <1>4. QED
    BY <1>1, <1>2, <1>3

LEMMA VerifyStepTypeOK ==
  ASSUME TypeOK, NEW v \in Verifiers, Verify(v)
  PROVE  TypeOK'
  <1> USE DEF pricingVars, requestVars, stripeVars, accessVars, SetVerify, NoSession
  <1>1. ASSUME NEW s \in Sessions, VerifyRetrieve(v, s)
        PROVE  TypeOK'
    BY <1>1 DEF VerifyRetrieve, TypeOK, PricingTypeOK
  <1>2. CASE VerifyRow(v)
    <2>1. verifying[v] \in Sessions /\ verifying[v] \in 1..created
      BY <1>2, CheckoutAssumption DEF VerifyRow, TypeOK, Sessions
    <2>2. /\ PricingTypeOK'
          /\ payment' \in [Sessions -> {"ABSENT", "PENDING", "COMPLETED", "EXPIRED"}]
      BY <1>2, <2>1, SetRowType DEF VerifyRow
    <2>3. QED
      BY <1>2, <2>1, <2>2 DEF VerifyRow, TypeOK
  <1>3. CASE VerifyUnlock(v)
    <2>1. metadata[verifying[v]].report \in Reports
      BY <1>3 DEF VerifyUnlock, TypeOK
    <2>2. unlocked' \in SUBSET Reports
      BY <1>3, <2>1 DEF VerifyUnlock, TypeOK
    <2>3. QED
      BY <1>3, <2>2 DEF VerifyUnlock, TypeOK, PricingTypeOK
  <1>4. QED
    BY <1>1, <1>2, <1>3 DEF Verify

LEMMA FailureTypeOK ==
  ASSUME TypeOK, Failure
  PROVE  TypeOK'
  <1> USE DEF Fault, pricingVars, requestVars, stripeVars, accessVars, verifyVars, NoSession
  <1>1. ASSUME NEW c \in Requests, RecordFails(c)
        PROVE  TypeOK'
    <2>1. made[c] \in Sessions
      BY <1>1, CheckoutAssumption DEF RecordFails, TypeOK, Sessions
    <2>2. RequestTypeOK'
      BY <1>1, EndRequestType DEF RecordFails
    <2>3. /\ PricingTypeOK'
          /\ payment' \in [Sessions -> {"ABSENT", "PENDING", "COMPLETED", "EXPIRED"}]
      <3>1. CASE UNCHANGED <<place, purchase, payment>>
        BY <1>1, <3>1 DEF RecordFails, TypeOK, PricingTypeOK
      <3>2. CASE Insert(c)
        BY <1>1, <3>2, InsertType DEF RecordFails
      <3>3. QED
        BY <1>1, <3>1, <3>2 DEF RecordFails
    <2>4. QED
      BY <1>1, <2>2, <2>3 DEF RecordFails, RequestTypeOK, TypeOK
  <1>2. ASSUME NEW v \in Verifiers, VerifyFails(v)
        PROVE  TypeOK'
    BY <1>2 DEF VerifyFails, SetVerify, TypeOK, PricingTypeOK
  <1>3. CASE Crash
    <2>1. NoOrder \in Orders /\ 1 \in 1..MAX_SLOT_RETRIES
      BY CheckoutAssumption DEF NoOrder, Orders
    <2>2. QED
      BY <1>3, <2>1 DEF Crash, TypeOK, PricingTypeOK
  <1>4. QED
    BY <1>1, <1>2, <1>3 DEF Failure

(***************************************************************************)
(* Every reachable state of Checkout is well typed; the sessions, requests *)
(* and rows that refer to each other are there.                            *)
(***************************************************************************)
LEMMA NextTypeOK == TypeOK /\ [Next]_vars => TypeOK'
  <1> SUFFICES ASSUME TypeOK, [Next]_vars
               PROVE  TypeOK'
    OBVIOUS
  <1>1. CASE UNCHANGED vars
    BY <1>1 DEF vars, pricingVars, requestVars, stripeVars, accessVars, verifyVars,
                TypeOK, PricingTypeOK
  <1>2. CASE Next
    BY <1>2, OperatorTypeOK, RequestStepTypeOK, StripeStepTypeOK, VerifyStepTypeOK, FailureTypeOK
    DEF Next
  <1>3. QED
    BY <1>1, <1>2

THEOREM TypeCorrect == Spec => []TypeOK
  BY InitTypeOK, NextTypeOK, PTL DEF Spec

-----------------------------------------------------------------------------
(***************************************************************************)
(* Which rows there are.  A session has no row before its request inserts  *)
(* it, no two requests are about to insert the row of one session, and a   *)
(* session that is offered has its row.                                    *)
(***************************************************************************)
InsertIsFresh ==
    \A c \in Requests : step[c] = "record" =>
        /\ metadata[made[c]] = asked[c]
        /\ purchase[made[c]] = "ABSENT"
        /\ payment[made[c]] = "ABSENT"

MadeIsOwn ==
    \A c, d \in Requests : step[c] = "record" /\ step[d] = "record" /\ made[c] = made[d] => c = d

RowsHaveSessions ==
    \A s \in Sessions : s \notin 1..created => purchase[s] = "ABSENT" /\ payment[s] = "ABSENT"

OfferedIsRecorded == \A s \in offered : HasRow(s)

PaidIsOffered == \A s \in Sessions : stripe[s] = "paid" => s \in offered

PlacesAreDistinct ==
    \A s, t \in Sessions :
        purchase[s] # "ABSENT" /\ purchase[t] # "ABSENT" /\ place[s] = place[t] => s = t

RecordInv ==
    /\ InsertIsFresh /\ MadeIsOwn /\ RowsHaveSessions
    /\ OfferedIsRecorded /\ PaidIsOffered /\ PlacesAreDistinct

(* For RecordInv a step is one of five. *)
recordVars == <<place, purchase, payment>>

QuietStep ==
    /\ UNCHANGED <<recordVars, stripeVars, offered>>
    /\ \A c \in Requests : step'[c] = "record" =>
            step[c] = "record" /\ made'[c] = made[c] /\ asked'[c] = asked[c]

NewStep(c) ==
    /\ step[c] # "record"
    /\ NewSession(c, asked'[c])
    /\ \A d \in Requests \ {c} : asked'[d] = asked[d]
    /\ UNCHANGED <<recordVars, offered>>

InsertStep(c) ==
    /\ step[c] = "record"
    /\ Insert(c)
    /\ EndRequest(c)
    /\ offered' \in {offered, offered \cup {made[c]}}
    /\ UNCHANGED stripeVars

MoneyStep(s) ==
    /\ stripe[s] = "open"
    /\ \E st \in {"paid", "expired"} :
          /\ stripe' = [stripe EXCEPT ![s] = st]
          /\ st = "paid" => s \in offered
    /\ UNCHANGED <<recordVars, requestVars, created, metadata, offered>>

RowStep(s) ==
    /\ HasRow(s)
    /\ \E st \in {"COMPLETED", "EXPIRED"} : SetRow(s, st)
    /\ UNCHANGED <<place, requestVars, stripeVars, offered>>

LEMMA StepKinds ==
  ASSUME TypeOK, [Next]_vars
  PROVE  \/ QuietStep
         \/ \E c \in Requests : NewStep(c) \/ InsertStep(c)
         \/ \E s \in Sessions : MoneyStep(s) \/ RowStep(s)
  <1> USE DEF TypeOK, recordVars, pricingVars, requestVars, stripeVars, accessVars, verifyVars
  <1>1. CASE UNCHANGED vars
    BY <1>1 DEF vars, QuietStep
  <1>2. ASSUME NEW g \in Regions, Operator(g)
        PROVE  QuietStep
    BY <1>2 DEF QuietStep, Operator, ResetCounter, ReadMaxCompleted, SetCounter
  <1>3. ASSUME NEW c \in Requests, NEW r \in Reports, NEW g \in Regions, BeginLaunch(c, r, g)
        PROVE  QuietStep
    BY <1>3 DEF QuietStep, BeginLaunch, Reserve
  <1>4. ASSUME NEW c \in Requests, NEW r \in Reports, BeginFull(c, r)
        PROVE  NewStep(c)
    BY <1>4 DEF NewStep, BeginFull
  <1>5. ASSUME NEW c \in Requests, CreateSession(c)
        PROVE  NewStep(c)
    BY <1>5 DEF NewStep, CreateSession
  <1>6. ASSUME NEW c \in Requests, SessionFails(c) \/ GiveUp(c)
        PROVE  QuietStep
    BY <1>6 DEF QuietStep, SessionFails, GiveUp, EndRequest
  <1>7. ASSUME NEW c \in Requests, Record(c)
        PROVE  InsertStep(c)
    BY <1>7 DEF InsertStep, Record
  <1>8. ASSUME NEW c \in Requests, TryAnotherSlot(c)
        PROVE  QuietStep
    BY <1>8 DEF QuietStep, TryAnotherSlot, Reserve
  <1>9. ASSUME NEW s \in Sessions, Pay(s) \/ Expire(s)
        PROVE  MoneyStep(s)
    BY <1>9 DEF MoneyStep, Pay, Expire
  <1>10. ASSUME NEW s \in Sessions, HandleCheckoutCompleted(s) \/ HandleCheckoutExpired(s)
         PROVE  RowStep(s)
    BY <1>10 DEF RowStep, HandleCheckoutCompleted, HandleCheckoutExpired
  <1>11. ASSUME NEW v \in Verifiers, VerifyRow(v)
         PROVE  verifying[v] \in Sessions /\ RowStep(verifying[v])
    BY <1>11, CheckoutAssumption DEF RowStep, VerifyRow, Sessions
  <1>12. ASSUME NEW v \in Verifiers,
                VerifyUnlock(v) \/ VerifyFails(v) \/ \E s \in Sessions : VerifyRetrieve(v, s)
         PROVE  QuietStep
    BY <1>12 DEF QuietStep, VerifyUnlock, VerifyFails, VerifyRetrieve
  <1>13. ASSUME NEW c \in Requests, RecordFails(c)
         PROVE  QuietStep \/ InsertStep(c)
    BY <1>13 DEF QuietStep, InsertStep, RecordFails, EndRequest
  <1>14. CASE Crash
    BY <1>14 DEF QuietStep, Crash
  <1> HIDE DEF TypeOK
  <1>15. QED
    BY <1>1, <1>2, <1>3, <1>4, <1>5, <1>6, <1>7, <1>8, <1>9, <1>10, <1>11, <1>12, <1>13, <1>14
    DEF Next, Request, Verify, Failure

LEMMA NewStepRecordInv ==
  ASSUME TypeOK, RecordInv, NEW c \in Requests, NewStep(c)
  PROVE  RecordInv'
  <1> USE DEF NewStep, NewSession, recordVars, TypeOK
  <1>1. /\ created \in Nat /\ created' = created + 1
        /\ created + 1 \in Sessions /\ created + 1 \notin 1..created
        /\ 1..created \subseteq Sessions
    BY CheckoutAssumption DEF Sessions
  <1>2. \A s \in 1..created : metadata'[s] = metadata[s] /\ stripe'[s] = stripe[s]
    BY <1>1
  <1>3. /\ made'[c] = created + 1 /\ metadata'[created + 1] = asked'[c]
        /\ \A d \in Requests \ {c} : step'[d] = step[d] /\ made'[d] = made[d]
    BY <1>1
  <1>4. InsertIsFresh'
    BY <1>1, <1>2, <1>3 DEF RecordInv, InsertIsFresh, RowsHaveSessions
  <1>5. MadeIsOwn'
    BY <1>1, <1>3 DEF RecordInv, MadeIsOwn
  <1>6. RowsHaveSessions'
    BY <1>1 DEF RecordInv, RowsHaveSessions
  <1>7. OfferedIsRecorded'
    BY <1>2 DEF RecordInv, OfferedIsRecorded, HasRow
  <1>8. PaidIsOffered'
    BY <1>1, <1>2 DEF RecordInv, PaidIsOffered
  <1>9. PlacesAreDistinct'
    BY DEF RecordInv, PlacesAreDistinct
  <1>10. QED
    BY <1>4, <1>5, <1>6, <1>7, <1>8, <1>9 DEF RecordInv

LEMMA InsertStepRecordInv ==
  ASSUME TypeOK, RecordInv, NEW c \in Requests, InsertStep(c)
  PROVE  RecordInv'
  <1> USE DEF InsertStep, stripeVars
  <1>1. made[c] \in Sessions /\ made[c] \in 1..created
    BY CheckoutAssumption DEF TypeOK, Sessions
  <1>2. purchase \in [Sessions -> PaymentStatuses] /\ place \in [Sessions -> Places]
    BY CheckoutAssumption DEF TypeOK, PricingTypeOK
  <1>3. /\ metadata[made[c]] = asked[c]
        /\ purchase[made[c]] = "ABSENT" /\ payment[made[c]] = "ABSENT"
    BY DEF RecordInv, InsertIsFresh
  <1>4. /\ \A s \in Sessions \ {made[c]} :
              purchase'[s] = purchase[s] /\ payment'[s] = payment[s] /\ place'[s] = place[s]
        /\ IF asked[c].flow = "launch"
           THEN /\ purchase'[made[c]] = "PENDING" /\ UNCHANGED payment
                /\ place'[made[c]] = [region |-> asked[c].region, slotNumber |-> slot[c]]
                /\ ~SlotTaken(slot[c], asked[c].region)
           ELSE payment'[made[c]] = "PENDING" /\ UNCHANGED <<place, purchase>>
    BY <1>1, <1>2 DEF Insert, RecordPurchase, TypeOK
  <1>5. /\ step'[c] = "idle"
        /\ \A d \in Requests \ {c} :
              step'[d] = step[d] /\ made'[d] = made[d] /\ asked'[d] = asked[d]
    BY DEF EndRequest, TypeOK
  <1>6. \A d \in Requests \ {c} : step[d] = "record" => made[d] # made[c] /\ made[d] \in Sessions
    BY CheckoutAssumption DEF RecordInv, MadeIsOwn, TypeOK, Sessions
  <1>7. InsertIsFresh'
    BY <1>4, <1>5, <1>6 DEF RecordInv, InsertIsFresh
  <1>8. MadeIsOwn'
    BY <1>5 DEF RecordInv, MadeIsOwn
  <1>9. RowsHaveSessions'
    BY <1>1, <1>4 DEF RecordInv, RowsHaveSessions
  <1>10. OfferedIsRecorded'
    <2>1. offered \subseteq Sessions
      BY CheckoutAssumption DEF TypeOK, Sessions
    <2>2. \A s \in offered : HasRow(s)'
      BY <1>3, <1>4, <2>1 DEF RecordInv, OfferedIsRecorded, HasRow
    <2>3. \A s \in Sessions : s = made[c] => HasRow(s)'
      BY <1>3, <1>4 DEF HasRow
    <2>4. QED
      BY <1>1, <2>2, <2>3 DEF OfferedIsRecorded
  <1>11. PaidIsOffered'
    BY DEF RecordInv, PaidIsOffered
  <1>12. PlacesAreDistinct'
    <2>1. CASE asked[c].flow = "launch"
      <3>1. \A s \in Sessions : purchase[s] # "ABSENT" =>
               place[s] # [region |-> asked[c].region, slotNumber |-> slot[c]]
        BY <1>2, <1>4, <2>1, CheckoutAssumption DEF SlotTaken, Slots, Recorded
      <3>2. QED
        BY <1>1, <1>4, <2>1, <3>1 DEF RecordInv, PlacesAreDistinct
    <2>2. CASE asked[c].flow # "launch"
      BY <1>4, <2>2 DEF RecordInv, PlacesAreDistinct
    <2>3. QED
      BY <2>1, <2>2
  <1>13. QED
    BY <1>7, <1>8, <1>9, <1>10, <1>11, <1>12 DEF RecordInv

LEMMA MoneyStepRecordInv ==
  ASSUME TypeOK, RecordInv, NEW s \in Sessions, MoneyStep(s)
  PROVE  RecordInv'
  BY DEF MoneyStep, TypeOK, recordVars, requestVars, RecordInv, InsertIsFresh, MadeIsOwn,
         RowsHaveSessions, OfferedIsRecorded, HasRow, PaidIsOffered, PlacesAreDistinct

LEMMA RowStepRecordInv ==
  ASSUME TypeOK, RecordInv, NEW s \in Sessions, RowStep(s)
  PROVE  RecordInv'
  <1> USE DEF RowStep, requestVars, stripeVars
  <1>1. purchase \in [Sessions -> PaymentStatuses]
    BY CheckoutAssumption DEF TypeOK, PricingTypeOK
  <1>2. \A t \in Sessions : /\ purchase'[t] = "ABSENT" <=> purchase[t] = "ABSENT"
                            /\ payment'[t] = "ABSENT" <=> payment[t] = "ABSENT"
    BY <1>1 DEF SetRow, HasRow, TypeOK
  <1>3. offered \subseteq Sessions /\ \A c \in Requests : step[c] = "record" => made[c] \in Sessions
    BY CheckoutAssumption DEF TypeOK, Sessions
  <1>4. QED
    BY <1>2, <1>3 DEF RecordInv, InsertIsFresh, MadeIsOwn, RowsHaveSessions, OfferedIsRecorded,
                      HasRow, PaidIsOffered, PlacesAreDistinct

LEMMA RecordInvHolds == Spec => []RecordInv
  <1>1. Init => RecordInv
    BY CheckoutAssumption
    DEF Init, PricingInit, RecordInv, InsertIsFresh, MadeIsOwn, RowsHaveSessions,
        OfferedIsRecorded, PaidIsOffered, PlacesAreDistinct
  <1>2. TypeOK /\ RecordInv /\ [Next]_vars => RecordInv'
    <2> SUFFICES ASSUME TypeOK, RecordInv, [Next]_vars
                 PROVE  RecordInv'
      OBVIOUS
    <2>1. CASE QuietStep
      BY <2>1 DEF QuietStep, recordVars, stripeVars, RecordInv, InsertIsFresh, MadeIsOwn,
                  RowsHaveSessions, OfferedIsRecorded, HasRow, PaidIsOffered, PlacesAreDistinct
    <2>2. QED
      BY <2>1, StepKinds, NewStepRecordInv, InsertStepRecordInv, MoneyStepRecordInv,
         RowStepRecordInv
  <1>3. QED
    BY <1>1, <1>2, TypeCorrect, PTL DEF Spec

(***************************************************************************)
(* Whatever requests, webhooks and faults have gone through, a session     *)
(* that is paid has its row: the webhook finds what it updates.            *)
(***************************************************************************)
THEOREM PaidIsAlwaysRecorded == Spec => []PaidIsRecorded
  <1>1. TypeOK /\ RecordInv => PaidIsRecorded
    BY CheckoutAssumption
    DEF TypeOK, Sessions, RecordInv, PaidIsOffered, OfferedIsRecorded, PaidIsRecorded
  <1>2. QED
    BY <1>1, TypeCorrect, RecordInvHolds, PTL

(***************************************************************************)
(* No slot is sold twice, however often the counters are reset, restored   *)
(* or lost, and with or without Redis.                                     *)
(***************************************************************************)
THEOREM SlotsAreAlwaysDistinct == Spec => []SlotsAreDistinct
  <1>1. TypeOK /\ RecordInv => SlotsAreDistinct
    BY CheckoutAssumption
    DEF TypeOK, Sessions, RecordInv, OfferedIsRecorded, HasRow, PlacesAreDistinct, SlotsAreDistinct
  <1>2. QED
    BY <1>1, TypeCorrect, RecordInvHolds, PTL

-----------------------------------------------------------------------------
(***************************************************************************)
(* Who has access.  A verify request acts on a session that is paid, and   *)
(* stays so.                                                               *)
(***************************************************************************)
VerifyingIsPaid ==
    \A v \in Verifiers : verifyStep[v] # "idle" => stripe[verifying[v]] = "paid"

AccessInv ==
    /\ VerifyingIsPaid /\ RowsAgreeWithStripe /\ UnlockedIsPaid /\ CompletedIsUnlocked

LEMMA RequestStepAccessInv ==
  ASSUME TypeOK, RecordInv, AccessInv, UNCHANGED <<unlocked, verifyVars>>,
         faults' = faults \/ faults' # 0,
         NEW c \in Requests, NewStep(c) \/ InsertStep(c)
  PROVE  AccessInv'
  <1> USE DEF stripeVars, recordVars, verifyVars
  <1>1. /\ created \in Nat /\ 1..created \subseteq Sessions
        /\ \A v \in Verifiers : verifyStep[v] # "idle" => verifying[v] \in 1..created
    BY CheckoutAssumption DEF TypeOK, Sessions
  <1>2. CASE NewStep(c)
    <2>1. /\ created + 1 \in Sessions /\ created + 1 \notin 1..created
          /\ 1..created' = 1..created \cup {created + 1}
      BY <1>1, <1>2, CheckoutAssumption DEF NewStep, NewSession, Sessions
    <2>2. /\ created + 1 \in Sessions /\ created + 1 \notin 1..created
          /\ 1..created' = 1..created \cup {created + 1}
          /\ \A s \in 1..created : metadata'[s] = metadata[s] /\ stripe'[s] = stripe[s]
          /\ \A s \in Sessions \ {created + 1} : stripe'[s] = stripe[s]
          /\ UNCHANGED <<purchase, payment>>
      BY <1>1, <1>2, <2>1 DEF NewStep, NewSession, TypeOK
    <2>3. purchase[created + 1] = "ABSENT" /\ payment[created + 1] = "ABSENT"
      BY <2>2 DEF RecordInv, RowsHaveSessions
    <2>4. VerifyingIsPaid'
      BY <1>1, <2>2 DEF AccessInv, VerifyingIsPaid
    <2>5. RowsAgreeWithStripe'
      BY <2>2, <2>3 DEF AccessInv, RowsAgreeWithStripe
    <2>6. UnlockedIsPaid'
      BY <2>2 DEF AccessInv, UnlockedIsPaid
    <2>7. CompletedIsUnlocked'
      BY <2>2, <2>3 DEF AccessInv, CompletedIsUnlocked
    <2>8. QED
      BY <2>4, <2>5, <2>6, <2>7 DEF AccessInv
  <1>3. CASE InsertStep(c)
    <2>1. purchase \in [Sessions -> PaymentStatuses] /\ made[c] \in Sessions
      BY <1>1, <1>3, CheckoutAssumption DEF TypeOK, PricingTypeOK, InsertStep
    <2>2. \A s \in Sessions : /\ purchase'[s] \in {purchase[s], "PENDING"}
                              /\ payment'[s] \in {payment[s], "PENDING"}
      BY <1>3, <2>1 DEF InsertStep, Insert, RecordPurchase, TypeOK
    <2>3. VerifyingIsPaid' /\ UnlockedIsPaid'
      BY <1>3 DEF InsertStep, AccessInv, VerifyingIsPaid, UnlockedIsPaid
    <2>4. RowsAgreeWithStripe'
      BY <1>3, <2>2 DEF InsertStep, AccessInv, RowsAgreeWithStripe
    <2>5. CompletedIsUnlocked'
      BY <1>1, <1>3, <2>2 DEF InsertStep, AccessInv, CompletedIsUnlocked
    <2>6. QED
      BY <2>3, <2>4, <2>5 DEF AccessInv
  <1>4. QED
    BY <1>2, <1>3

LEMMA StripeStepAccessInv ==
  ASSUME TypeOK, AccessInv, NEW s \in Sessions,
         Pay(s) \/ Expire(s) \/ HandleCheckoutCompleted(s) \/ HandleCheckoutExpired(s)
  PROVE  AccessInv'
  <1> USE DEF pricingVars, stripeVars, accessVars, verifyVars
  <1>1. /\ 1..created \subseteq Sessions
        /\ \A v \in Verifiers : verifyStep[v] # "idle" => verifying[v] \in Sessions
        /\ purchase \in [Sessions -> PaymentStatuses]
    BY CheckoutAssumption DEF TypeOK, Sessions, PricingTypeOK
  <1>2. CASE Pay(s) \/ Expire(s)
    <2>1. /\ stripe[s] = "open"
          /\ \A t \in Sessions \ {s} : stripe'[t] = stripe[t]
          /\ UNCHANGED <<purchase, payment, created, metadata, unlocked, verifyVars, faults>>
      BY <1>2 DEF Pay, Expire, TypeOK
    <2>2. VerifyingIsPaid' /\ RowsAgreeWithStripe'
      BY <1>1, <2>1 DEF AccessInv, VerifyingIsPaid, RowsAgreeWithStripe
    <2>3. UnlockedIsPaid' /\ CompletedIsUnlocked'
      BY <1>1, <2>1 DEF AccessInv, UnlockedIsPaid, CompletedIsUnlocked
    <2>4. QED
      BY <2>2, <2>3 DEF AccessInv
  <1>3. CASE HandleCheckoutCompleted(s)
    <2>1. /\ stripe[s] = "paid" /\ s \in 1..created
          /\ unlocked' = unlocked \cup {metadata[s].report}
          /\ UNCHANGED <<stripe, metadata, created, verifyVars, faults>>
      BY <1>3 DEF HandleCheckoutCompleted, TypeOK
    <2>2. /\ \A t \in Sessions \ {s} : purchase'[t] = purchase[t] /\ payment'[t] = payment[t]
          /\ payment'[s] \in {payment[s], "COMPLETED"}
      BY <1>1, <1>3 DEF HandleCheckoutCompleted, SetRow, TypeOK
    <2>3. VerifyingIsPaid' /\ RowsAgreeWithStripe'
      BY <2>1, <2>2 DEF AccessInv, VerifyingIsPaid, RowsAgreeWithStripe
    <2>4. UnlockedIsPaid'
      BY <2>1 DEF AccessInv, UnlockedIsPaid
    <2>5. CompletedIsUnlocked'
      BY <1>1, <2>1, <2>2 DEF AccessInv, CompletedIsUnlocked
    <2>6. QED
      BY <2>3, <2>4, <2>5 DEF AccessInv
  <1>4. CASE HandleCheckoutExpired(s)
    <2>1. /\ stripe[s] = "expired"
          /\ UNCHANGED <<purchase, stripe, metadata, created, unlocked, verifyVars, faults>>
          /\ \A t \in Sessions \ {s} : payment'[t] = payment[t]
          /\ payment'[s] = "EXPIRED"
      BY <1>4 DEF HandleCheckoutExpired, SetRow, TypeOK
    <2>2. VerifyingIsPaid' /\ RowsAgreeWithStripe'
      BY <2>1 DEF AccessInv, VerifyingIsPaid, RowsAgreeWithStripe
    <2>3. UnlockedIsPaid' /\ CompletedIsUnlocked'
      BY <1>1, <2>1 DEF AccessInv, UnlockedIsPaid, CompletedIsUnlocked
    <2>4. QED
      BY <2>2, <2>3 DEF AccessInv
  <1>5. QED
    BY <1>2, <1>3, <1>4

LEMMA VerifyStepAccessInv ==
  ASSUME TypeOK, AccessInv, NEW v \in Verifiers, Verify(v)
  PROVE  AccessInv'
  <1> USE DEF pricingVars, stripeVars, accessVars, SetVerify
  <1>1. /\ 1..created \subseteq Sessions
        /\ verifyStep[v] # "idle" => verifying[v] \in 1..created
        /\ purchase \in [Sessions -> PaymentStatuses]
    BY CheckoutAssumption DEF TypeOK, Sessions, PricingTypeOK
  <1>2. ASSUME NEW s \in Sessions, VerifyRetrieve(v, s)
        PROVE  AccessInv'
    <2>1. VerifyingIsPaid'
      BY <1>2 DEF VerifyRetrieve, TypeOK, AccessInv, VerifyingIsPaid
    <2>2. RowsAgreeWithStripe' /\ UnlockedIsPaid'
      BY <1>2 DEF VerifyRetrieve, AccessInv, RowsAgreeWithStripe, UnlockedIsPaid
    <2>3. \A u \in Verifiers : verifyStep[u] = "unlock" =>
             verifyStep'[u] = "unlock" /\ verifying'[u] = verifying[u]
      BY <1>2 DEF VerifyRetrieve, TypeOK
    <2>4. CompletedIsUnlocked'
      BY <1>2, <2>3 DEF VerifyRetrieve, AccessInv, CompletedIsUnlocked
    <2>5. QED
      BY <2>1, <2>2, <2>4 DEF AccessInv
  <1>3. CASE VerifyRow(v)
    <2>1. /\ stripe[verifying[v]] = "paid"
          /\ UNCHANGED <<stripe, metadata, created, unlocked, verifying, faults>>
          /\ verifyStep' = [verifyStep EXCEPT ![v] = "unlock"]
      BY <1>3 DEF VerifyRow, AccessInv, VerifyingIsPaid, TypeOK
    <2>2. /\ \A t \in Sessions \ {verifying[v]} :
                purchase'[t] = purchase[t] /\ payment'[t] = payment[t]
          /\ payment'[verifying[v]] \in {payment[verifying[v]], "COMPLETED"}
      BY <1>1, <1>3 DEF VerifyRow, SetRow, TypeOK
    <2>3. VerifyingIsPaid'
      BY <1>3, <2>1 DEF VerifyRow, TypeOK, AccessInv, VerifyingIsPaid
    <2>4. RowsAgreeWithStripe' /\ UnlockedIsPaid'
      BY <2>1, <2>2 DEF AccessInv, RowsAgreeWithStripe, UnlockedIsPaid
    <2>5. CompletedIsUnlocked'
      <3>1. /\ verifyStep'[v] = "unlock" /\ verifying'[v] = verifying[v]
            /\ \A u \in Verifiers : verifyStep[u] = "unlock" => verifyStep'[u] = "unlock"
        BY <2>1 DEF TypeOK
      <3>2. QED
        BY <1>1, <2>1, <2>2, <3>1 DEF AccessInv, CompletedIsUnlocked
    <2>6. QED
      BY <2>3, <2>4, <2>5 DEF AccessInv
  <1>4. CASE VerifyUnlock(v)
    <2>1. /\ stripe[verifying[v]] = "paid" /\ verifying[v] \in 1..created
          /\ unlocked' = unlocked \cup {metadata[verifying[v]].report}
          /\ UNCHANGED <<purchase, payment, stripe, metadata, created, faults>>
      BY <1>1, <1>4 DEF VerifyUnlock, AccessInv, VerifyingIsPaid
    <2>2. /\ verifyStep'[v] = "idle"
          /\ \A u \in Verifiers \ {v} :
                verifyStep'[u] = verifyStep[u] /\ verifying'[u] = verifying[u]
      BY <1>4 DEF VerifyUnlock, TypeOK
    <2>3. VerifyingIsPaid'
      BY <2>1, <2>2 DEF AccessInv, VerifyingIsPaid
    <2>4. RowsAgreeWithStripe' /\ UnlockedIsPaid'
      BY <2>1 DEF AccessInv, RowsAgreeWithStripe, UnlockedIsPaid
    <2>5. CompletedIsUnlocked'
      BY <2>1, <2>2 DEF AccessInv, CompletedIsUnlocked
    <2>6. QED
      BY <2>3, <2>4, <2>5 DEF AccessInv
  <1>5. QED
    BY <1>2, <1>3, <1>4 DEF Verify

LEMMA FaultAccessInv ==
  ASSUME TypeOK, AccessInv, Crash \/ \E v \in Verifiers : VerifyFails(v)
  PROVE  AccessInv'
  <1>1. /\ UNCHANGED <<purchase, payment, stripe, metadata, created, unlocked>>
        /\ faults' # 0
    BY DEF Crash, VerifyFails, Fault, TypeOK, pricingVars, stripeVars, accessVars
  <1>2. \A v \in Verifiers : verifyStep'[v] # "idle" =>
           verifyStep[v] # "idle" /\ verifying'[v] = verifying[v]
    BY DEF Crash, VerifyFails, SetVerify, TypeOK
  <1>3. QED
    BY <1>1, <1>2 DEF AccessInv, VerifyingIsPaid, RowsAgreeWithStripe, UnlockedIsPaid,
                      CompletedIsUnlocked

LEMMA AccessInvHolds == Spec => []AccessInv
  <1>1. Init => AccessInv
    BY CheckoutAssumption
    DEF Init, PricingInit, AccessInv, VerifyingIsPaid, RowsAgreeWithStripe, UnlockedIsPaid,
        CompletedIsUnlocked
  <1>2. TypeOK /\ RecordInv /\ AccessInv /\ [Next]_vars => AccessInv'
    <2> SUFFICES ASSUME TypeOK, RecordInv, AccessInv, [Next]_vars
                 PROVE  AccessInv'
      OBVIOUS
    <2> USE DEF pricingVars, stripeVars, accessVars, verifyVars
    <2>1. ASSUME UNCHANGED <<purchase, payment, stripeVars, unlocked, verifyVars>>,
                 faults' = faults \/ faults' # 0
          PROVE  AccessInv'
      BY <2>1 DEF AccessInv, VerifyingIsPaid, RowsAgreeWithStripe, UnlockedIsPaid,
                  CompletedIsUnlocked
    <2>2. CASE UNCHANGED vars
      BY <2>1, <2>2 DEF vars
    <2>3. CASE \E g \in Regions : Operator(g)
      BY <2>1, <2>3 DEF Operator, ResetCounter, ReadMaxCompleted, SetCounter
    <2>4. ASSUME NEW c \in Requests, Request(c)
          PROVE  AccessInv'
      <3>1. ASSUME NEW r \in Reports, NEW g \in Regions, BeginLaunch(c, r, g)
            PROVE  AccessInv'
        BY <2>1, <3>1 DEF BeginLaunch, Reserve
      <3>2. ASSUME NEW r \in Reports, BeginFull(c, r)
            PROVE  AccessInv'
        <4>1. NewStep(c)
          BY <3>2 DEF NewStep, BeginFull, recordVars, TypeOK
        <4>2. QED
          BY <3>2, <4>1, RequestStepAccessInv DEF BeginFull
      <3>3. CASE CreateSession(c)
        <4>1. NewStep(c)
          BY <3>3 DEF NewStep, CreateSession, recordVars
        <4>2. QED
          BY <3>3, <4>1, RequestStepAccessInv DEF CreateSession
      <3>4. CASE SessionFails(c) \/ GiveUp(c)
        BY <2>1, <3>4 DEF SessionFails, GiveUp
      <3>5. CASE Record(c)
        <4>1. InsertStep(c)
          BY <3>5 DEF InsertStep, Record
        <4>2. QED
          BY <3>5, <4>1, RequestStepAccessInv DEF Record
      <3>6. CASE TryAnotherSlot(c)
        BY <2>1, <3>6 DEF TryAnotherSlot, Reserve
      <3>7. QED
        BY <2>4, <3>1, <3>2, <3>3, <3>4, <3>5, <3>6 DEF Request
    <2>5. ASSUME NEW c \in Requests, RecordFails(c)
          PROVE  AccessInv'
      <3>1. faults' # 0 /\ UNCHANGED <<unlocked, verifyVars, stripeVars>>
        BY <2>5 DEF RecordFails, Fault, TypeOK
      <3>2. CASE UNCHANGED <<place, purchase, payment>>
        BY <2>1, <3>1, <3>2
      <3>3. CASE Insert(c)
        <4>1. InsertStep(c)
          BY <2>5, <3>3 DEF InsertStep, RecordFails
        <4>2. QED
          BY <3>1, <4>1, RequestStepAccessInv
      <3>4. QED
        BY <2>5, <3>2, <3>3 DEF RecordFails
    <2>6. QED
      BY <2>2, <2>3, <2>4, <2>5, StripeStepAccessInv, VerifyStepAccessInv, FaultAccessInv
      DEF Next, Failure
  <1>3. QED
    BY <1>1, <1>2, TypeCorrect, RecordInvHolds, PTL DEF Spec

(***************************************************************************)
(* Webhooks and verify requests, in any order, repeated, failing half-way: *)
(* no report is unlocked without a payment for it.                         *)
(***************************************************************************)
THEOREM UnlockedIsAlwaysPaid == Spec => []UnlockedIsPaid
  BY AccessInvHolds, PTL DEF AccessInv

(***************************************************************************)
(* The rows never say COMPLETED or EXPIRED against Stripe.                 *)
(***************************************************************************)
THEOREM RowsAlwaysAgreeWithStripe == Spec => []RowsAgreeWithStripe
  BY AccessInvHolds, PTL DEF AccessInv

(***************************************************************************)
(* Until something fails, a COMPLETED row comes with its report unlocked,  *)
(* or with a verify request that is about to unlock it.                    *)
(***************************************************************************)
THEOREM CompletedIsAlwaysUnlocked == Spec => []CompletedIsUnlocked
  BY AccessInvHolds, PTL DEF AccessInv

-----------------------------------------------------------------------------
(***************************************************************************)
(* The launch price without Redis.  What a request has reserved lies at    *)
(* most one above the slots that are recorded without a gap.               *)
(***************************************************************************)
Below(n, g) == \A m \in 1..n : m \in Slots(g, Recorded)

LadderInv ==
    ~redis =>
        /\ \A g \in Regions : \A n \in Slots(g, Recorded) : Below(n, g)
        /\ \A c \in Requests :
              step[c] # "idle" /\ asked[c].flow = "launch" =>
                  slot[c] \in Nat \ {0} /\ Below(slot[c] - 1, asked[c].region)

LEMMA SlotsAreNat ==
  ASSUME PricingTypeOK, NEW g
  PROVE  Slots(g, Recorded) \subseteq Nat
  BY DEF PricingTypeOK, Slots, Places

(* Rows are never removed and never move. *)
LEMMA SlotsGrow ==
  ASSUME TypeOK, RecordInv, [Next]_vars
  PROVE  \A g : Slots(g, Recorded) \subseteq Slots(g, Recorded)'
  <1>1. Purchases = Sessions /\ purchase \in [Sessions -> PaymentStatuses]
    BY CheckoutAssumption DEF TypeOK, PricingTypeOK
  <1>2. \A s \in Sessions : purchase[s] \in Recorded =>
           purchase'[s] \in Recorded /\ place'[s] = place[s]
    <2>1. CASE QuietStep \/ \E s \in Sessions : MoneyStep(s)
      BY <2>1 DEF QuietStep, MoneyStep, recordVars
    <2>2. ASSUME NEW c \in Requests, NewStep(c)
          PROVE  UNCHANGED <<place, purchase>>
      BY <2>2 DEF NewStep, recordVars
    <2>3. ASSUME NEW c \in Requests, InsertStep(c), NEW s \in Sessions, purchase[s] \in Recorded
          PROVE  purchase'[s] = purchase[s] /\ place'[s] = place[s]
      <3>1. made[c] # s
        BY <2>3 DEF RecordInv, InsertIsFresh, InsertStep, Recorded
      <3>2. place \in [Sessions -> Places]
        BY CheckoutAssumption DEF TypeOK, PricingTypeOK
      <3>3. QED
        BY <1>1, <2>3, <3>1, <3>2 DEF InsertStep, Insert, RecordPurchase
    <2>4. ASSUME NEW t \in Sessions, RowStep(t), NEW s \in Sessions, purchase[s] \in Recorded
          PROVE  purchase'[s] \in Recorded /\ place'[s] = place[s]
      <3>1. PricingTypeOK'
        BY <2>4, NextTypeOK DEF TypeOK
      <3>2. purchase'[s] \in {purchase[s], "COMPLETED", "EXPIRED"} /\ place' = place
        BY <1>1, <2>4 DEF RowStep, SetRow
      <3>3. purchase'[s] \in PaymentStatuses
        BY <3>1, CheckoutAssumption DEF PricingTypeOK
      <3>4. QED
        BY <2>4, <3>2, <3>3 DEF Recorded, PaymentStatuses
    <2>5. QED
      BY <2>1, <2>2, <2>3, <2>4, StepKinds
  <1>3. QED
    BY <1>1, <1>2 DEF Slots

LEMMA ReserveLadder ==
  ASSUME TypeOK, LadderInv, ~redis, NEW c \in Requests, NEW g \in Regions, Reserve(c, g)
  PROVE  slot'[c] \in Nat \ {0} /\ Below(slot'[c] - 1, g)
  <1>1. Slots(g, Recorded) \subseteq Nat
    BY SlotsAreNat DEF TypeOK
  <1>2. PICK m \in Slots(g, Recorded) \cup {0} : slot' = [slot EXCEPT ![c] = m + 1]
    BY DEF Reserve, NextSlots
  <1>3. m \in Nat /\ slot'[c] = m + 1
    BY <1>1, <1>2 DEF TypeOK
  <1>4. Below(m, g)
    BY <1>1, <1>2 DEF LadderInv, Below
  <1>5. QED
    BY <1>3, <1>4

LEMMA RedisIsFixed ==
  ASSUME [Next]_vars
  PROVE  UNCHANGED redis
  <1> USE DEF pricingVars
  <1>1. CASE UNCHANGED vars
    BY <1>1 DEF vars
  <1>2. CASE Failure
    BY <1>2 DEF Failure, RecordFails, VerifyFails, Crash
  <1>3. ASSUME NEW c \in Requests, Request(c)
        PROVE  UNCHANGED redis
    BY <1>3 DEF Request, BeginFull, BeginLaunch, Reserve, CreateSession, SessionFails, Record,
                TryAnotherSlot, GiveUp
  <1>4. ASSUME NEW v \in Verifiers, Verify(v)
        PROVE  UNCHANGED redis
    BY <1>4 DEF Verify, VerifyRetrieve, VerifyRow, VerifyUnlock
  <1>5. ASSUME NEW s \in Sessions,
               Pay(s) \/ Expire(s) \/ HandleCheckoutCompleted(s) \/ HandleCheckoutExpired(s)
        PROVE  UNCHANGED redis
    BY <1>5 DEF Pay, Expire, HandleCheckoutCompleted, HandleCheckoutExpired
  <1>6. ASSUME NEW g \in Regions, Operator(g)
        PROVE  UNCHANGED redis
    BY <1>6 DEF Operator, ResetCounter, ReadMaxCompleted, SetCounter
  <1>7. QED
    BY <1>1, <1>2, <1>3, <1>4, <1>5, <1>6 DEF Next

(* A slot is recorded only for the request that holds it. *)
LEMMA NewSlots ==
  ASSUME TypeOK, [Next]_vars, NEW g, NEW n, n \in Slots(g, Recorded)'
  PROVE  \/ n \in Slots(g, Recorded)
         \/ \E c \in Requests : /\ step[c] = "record" /\ asked[c].flow = "launch"
                                /\ n = slot[c] /\ g = asked[c].region
  <1>1. Purchases = Sessions /\ purchase \in [Sessions -> PaymentStatuses]
                            /\ place \in [Sessions -> Places]
    BY CheckoutAssumption DEF TypeOK, PricingTypeOK
  <1>2. PICK s \in Sessions :
            purchase'[s] \in Recorded /\ place'[s].region = g /\ n = place'[s].slotNumber
    BY <1>1 DEF Slots
  <1>3. CASE purchase[s] \in Recorded /\ place'[s] = place[s]
    BY <1>1, <1>2, <1>3 DEF Slots
  <1>4. CASE QuietStep \/ (\E t \in Sessions : MoneyStep(t)) \/ (\E c \in Requests : NewStep(c))
    BY <1>2, <1>3, <1>4 DEF QuietStep, MoneyStep, NewStep, recordVars
  <1>5. ASSUME NEW t \in Sessions, RowStep(t)
        PROVE  purchase[s] \in Recorded /\ place'[s] = place[s]
    <2>1. purchase[s] # "ABSENT"
      BY <1>1, <1>2, <1>5 DEF RowStep, SetRow, HasRow, Recorded
    <2>2. QED
      BY <1>1, <1>5, <2>1 DEF RowStep, Recorded
  <1>6. ASSUME NEW c \in Requests, InsertStep(c)
        PROVE  \/ purchase[s] \in Recorded /\ place'[s] = place[s]
               \/ /\ step[c] = "record" /\ asked[c].flow = "launch"
                  /\ n = slot[c] /\ g = asked[c].region
    <2>1. CASE asked[c].flow = "launch" /\ made[c] = s
      <3>1. place'[s] = [region |-> asked[c].region, slotNumber |-> slot[c]]
        BY <1>1, <1>6, <2>1 DEF InsertStep, Insert, RecordPurchase
      <3>2. QED
        BY <1>2, <1>6, <2>1, <3>1 DEF InsertStep
    <2>2. CASE ~(asked[c].flow = "launch" /\ made[c] = s)
      <3>1. purchase'[s] = purchase[s] /\ place'[s] = place[s]
        BY <1>1, <1>6, <2>2 DEF InsertStep, Insert, RecordPurchase
      <3>2. QED
        BY <1>2, <3>1
    <2>3. QED
      BY <2>1, <2>2
  <1>7. QED
    BY <1>3, <1>4, <1>5, <1>6, StepKinds

(* A request holds the slot it had, or one it reserves now. *)
LEMMA HeldSlots ==
  ASSUME TypeOK, [Next]_vars, NEW c \in Requests, step'[c] # "idle", asked'[c].flow = "launch"
  PROVE  \/ step[c] # "idle" /\ slot'[c] = slot[c] /\ asked'[c] = asked[c]
         \/ asked'[c].region \in Regions /\ Reserve(c, asked'[c].region)
  <1> USE DEF requestVars, TypeOK
  <1> DEFINE Same == step[c] # "idle" /\ slot'[c] = slot[c] /\ asked'[c] = asked[c]
  <1>1. CASE UNCHANGED vars
    BY <1>1 DEF vars
  <1>2. ASSUME NEW g \in Regions, Operator(g)
        PROVE  Same
    BY <1>2 DEF Operator
  <1>3. ASSUME NEW s \in Sessions,
               Pay(s) \/ Expire(s) \/ HandleCheckoutCompleted(s) \/ HandleCheckoutExpired(s)
        PROVE  Same
    BY <1>3 DEF Pay, Expire, HandleCheckoutCompleted, HandleCheckoutExpired
  <1>4. ASSUME NEW v \in Verifiers, Verify(v) \/ VerifyFails(v)
        PROVE  Same
    BY <1>4 DEF Verify, VerifyRetrieve, VerifyRow, VerifyUnlock, VerifyFails
  <1>5. ~Crash
    BY DEF Crash
  <1>6. ASSUME NEW d \in Requests, SessionFails(d) \/ GiveUp(d) \/ Record(d) \/ RecordFails(d)
        PROVE  Same
    BY <1>6 DEF SessionFails, GiveUp, Record, RecordFails, EndRequest
  <1>7. ASSUME NEW d \in Requests, CreateSession(d)
        PROVE  Same
    BY <1>7 DEF CreateSession, NewSession
  <1>8. ASSUME NEW d \in Requests, NEW r \in Reports, BeginFull(d, r)
        PROVE  Same
    BY <1>8 DEF BeginFull, NewSession
  <1>9. ASSUME NEW d \in Requests, NEW r \in Reports, NEW g \in Regions, BeginLaunch(d, r, g)
        PROVE  Same \/ (asked'[c].region = g /\ Reserve(c, g))
    BY <1>9 DEF BeginLaunch, Reserve
  <1>10. ASSUME NEW d \in Requests, TryAnotherSlot(d)
         PROVE  Same \/ (asked'[c].region \in Regions /\ Reserve(c, asked'[c].region))
    BY <1>10 DEF TryAnotherSlot, Refused, Reserve, Orders
  <1> HIDE DEF Same, TypeOK
  <1>11. CASE Next
    BY <1>11, <1>2, <1>3, <1>4, <1>5, <1>6, <1>7, <1>8, <1>9, <1>10
    DEF Next, Request, Failure, Same
  <1>12. QED
    BY <1>1, <1>11 DEF Same, vars, TypeOK

LEMMA LadderStep ==
  ASSUME TypeOK, RecordInv, LadderInv, [Next]_vars
  PROVE  LadderInv'
  <1> SUFFICES ASSUME ~redis'
               PROVE  LadderInv'
    BY DEF LadderInv
  <1>1. ~redis
    BY RedisIsFixed
  <1>2. \A n, g : Below(n, g) => \A m \in 1..n : m \in Slots(g, Recorded)'
    BY SlotsGrow DEF Below
  <1>3. ASSUME NEW g \in Regions, NEW n \in Slots(g, Recorded)'
        PROVE  \A m \in 1..n : m \in Slots(g, Recorded)'
    <2>1. CASE n \in Slots(g, Recorded)
      BY <1>1, <1>2, <2>1 DEF LadderInv
    <2>2. CASE n \notin Slots(g, Recorded)
      <3>1. PICK c \in Requests : /\ step[c] = "record" /\ asked[c].flow = "launch"
                                  /\ n = slot[c] /\ g = asked[c].region
        BY <1>3, <2>2, NewSlots
      <3>2. n \in Nat \ {0} /\ Below(n - 1, g)
        BY <1>1, <3>1 DEF LadderInv
      <3>3. \A m \in 1..n : m = n \/ m \in 1..(n - 1)
        BY <3>2
      <3>4. QED
        BY <1>2, <1>3, <3>2, <3>3
    <2>3. QED
      BY <2>1, <2>2
  <1>4. ASSUME NEW c \in Requests, step'[c] # "idle", asked'[c].flow = "launch",
               NEW g, g = asked'[c].region
        PROVE  /\ slot'[c] \in Nat \ {0}
               /\ \A m \in 1..(slot'[c] - 1) : m \in Slots(g, Recorded)'
    <2>1. slot'[c] \in Nat \ {0} /\ Below(slot'[c] - 1, asked'[c].region)
      <3>1. CASE step[c] # "idle" /\ slot'[c] = slot[c] /\ asked'[c] = asked[c]
        BY <1>1, <1>4, <3>1 DEF LadderInv
      <3>2. CASE asked'[c].region \in Regions /\ Reserve(c, asked'[c].region)
        BY <1>1, <3>2, ReserveLadder
      <3>3. QED
        BY <1>4, <3>1, <3>2, HeldSlots
    <2>2. QED
      BY <1>2, <1>4, <2>1
  <1>5. QED
    BY <1>3, <1>4 DEF LadderInv, Below

LEMMA LadderInvHolds == Spec => []LadderInv
  <1>1. Init => LadderInv
    BY DEF Init, PricingInit, LadderInv, Slots, Recorded
  <1>2. QED
    BY <1>1, LadderStep, TypeCorrect, RecordInvHolds, PTL DEF Spec

(***************************************************************************)
(* Without Redis no slot is skipped, however many requests share a slot,   *)
(* are refused, fail or die with what they have reserved.                  *)
(***************************************************************************)
THEOREM NeverGapsWithoutRedis == Spec => []NoGapsWithoutRedis
  <1>1. TypeOK /\ LadderInv => NoGapsWithoutRedis
    BY DEF LadderInv, Below, NoGapsWithoutRedis
  <1>2. QED
    BY <1>1, TypeCorrect, LadderInvHolds, PTL

(***************************************************************************)
(* Since no slot is skipped, what lies between the slot that is shown and  *)
(* the next one to be given is recorded, and has not been paid for.        *)
(***************************************************************************)
LEMMA PendingBetween ==
  ASSUME TypeOK, NoGapsWithoutRedis, ~redis, NEW g \in Regions,
         NEW a \in Slots(g, {"COMPLETED"}) \cup {0}, IsMaxSlot(a, g, {"COMPLETED"}),
         NEW b \in Slots(g, Recorded) \cup {0}, IsMaxSlot(b, g, Recorded)
  PROVE  /\ a \in Nat /\ b \in Nat /\ a <= b
         /\ \A n \in (a + 1)..b :
               \E p \in Purchases : /\ purchase[p] = "PENDING"
                                    /\ place[p] = [region |-> g, slotNumber |-> n]
  <1>1. Slots(g, {"COMPLETED"}) \subseteq Slots(g, Recorded)
    BY DEF Slots, Recorded, PaymentStatuses
  <1>2. Slots(g, Recorded) \subseteq Nat
    BY SlotsAreNat DEF TypeOK
  <1>3. a \in Nat /\ b \in Nat /\ a <= b
    BY <1>1, <1>2 DEF IsMaxSlot
  <1>4. ASSUME NEW n \in (a + 1)..b
        PROVE  \E p \in Purchases : /\ purchase[p] = "PENDING"
                                    /\ place[p] = [region |-> g, slotNumber |-> n]
    <2>1. b \in Slots(g, Recorded) /\ n \in 1..b /\ n > a
      BY <1>3, <1>4
    <2>2. n \in Slots(g, Recorded)
      BY <2>1 DEF NoGapsWithoutRedis
    <2>3. PICK p \in Purchases : /\ purchase[p] \in Recorded
                                /\ place[p].region = g /\ place[p].slotNumber = n
      BY <2>2 DEF Slots
    <2>4. purchase[p] # "COMPLETED"
      <3>1. SUFFICES ASSUME purchase[p] = "COMPLETED"
                     PROVE  FALSE
        OBVIOUS
      <3>2. n \in Slots(g, {"COMPLETED"})
        BY <2>3, <3>1 DEF Slots
      <3>3. n <= a
        BY <3>2 DEF IsMaxSlot
      <3>4. QED
        BY <1>3, <1>4, <3>3
    <2>5. purchase[p] = "PENDING"
      BY <2>3, <2>4 DEF Recorded, PaymentStatuses
    <2>6. place[p] = [region |-> g, slotNumber |-> n]
      BY <2>3 DEF TypeOK, PricingTypeOK, Places
    <2>7. QED
      BY <2>5, <2>6
  <1>5. QED
    BY <1>3, <1>4

(***************************************************************************)
(* The price shown trails the price charged by pending purchases only,     *)
(* with Redis and without, whatever the counters go through.               *)
(***************************************************************************)
THEOREM QuoteAlwaysTrailsPendingOnly == Spec => []QuoteTrailsPendingOnly
  <1>1. ASSUME TypeOK, NoGapsWithoutRedis
        PROVE  QuoteTrailsPendingOnly
    <2>1. SUFFICES ASSUME NEW g \in Regions,
                          NEW shown \in CurrentPrices(g), NEW n \in NextSlots(g)
                   PROVE  /\ shown <= PriceOf(n)
                          /\ \A euro \in shown..(PriceOf(n) - 1) :
                                \E p \in Purchases :
                                    /\ purchase[p] = "PENDING"
                                    /\ place[p] = [region |-> g, slotNumber |-> euro]
      BY DEF QuoteTrailsPendingOnly
    <2>2. MAX_PRICE \in Nat
      BY PricingAssumption
    <2>3. CASE redis
      <3>1. n = counter[g] + 1 /\ shown = PriceOf(counter[g] + 1) /\ counter[g] \in Nat
        BY <2>1, <2>3, <1>1 DEF CurrentPrices, CurrentSlots, NextSlots, TypeOK, PricingTypeOK
      <3>2. PriceOf(n) \in Nat
        BY <2>2, <3>1 DEF PriceOf
      <3>3. QED
        BY <3>1, <3>2
    <2>4. CASE ~redis
      <3>1. PICK a \in Slots(g, {"COMPLETED"}) \cup {0} :
                IsMaxSlot(a, g, {"COMPLETED"}) /\ shown = PriceOf(a + 1)
        BY <2>1, <2>4 DEF CurrentPrices, CurrentSlots
      <3>2. PICK b \in Slots(g, Recorded) \cup {0} :
                IsMaxSlot(b, g, Recorded) /\ n = b + 1
        BY <2>1, <2>4 DEF NextSlots
      <3>3. /\ a \in Nat /\ b \in Nat /\ a <= b
            /\ \A m \in (a + 1)..b :
                  \E p \in Purchases : /\ purchase[p] = "PENDING"
                                       /\ place[p] = [region |-> g, slotNumber |-> m]
        BY <1>1, <2>4, <3>1, <3>2, PendingBetween
      <3>4. shown <= PriceOf(n) /\ shown..(PriceOf(n) - 1) \subseteq (a + 1)..b
        BY <2>2, <3>1, <3>2, <3>3 DEF PriceOf
      <3>5. QED
        BY <3>3, <3>4
    <2>5. QED
      BY <2>3, <2>4
  <1>2. QED
    BY <1>1, TypeCorrect, NeverGapsWithoutRedis, PTL

-----------------------------------------------------------------------------
(***************************************************************************)
(* The refinement: for ReportSale a step is nothing, or one of its own.    *)
(***************************************************************************)
SaleStutter == UNCHANGED <<saleOf, reportOf, dealOf, booksOf, unlocked>>

(* What ReportSale sees of a session is decided by what is offered, and by the session's own entries. *)
LEMMA SameView ==
  ASSUME NEW s \in Sessions, s \in offered <=> s \in offered',
         s \in offered => /\ stripe'[s] = stripe[s] /\ metadata'[s] = metadata[s]
                         /\ place'[s] = place[s]
                         /\ purchase'[s] = purchase[s] /\ payment'[s] = payment[s]
  PROVE  /\ saleOf'[s] = saleOf[s] /\ reportOf'[s] = reportOf[s]
         /\ dealOf'[s] = dealOf[s] /\ booksOf'[s] = booksOf[s]
  BY DEF saleOf, reportOf, dealOf, booksOf

LEMMA Extensional ==
  ASSUME \A s \in Sessions : /\ saleOf'[s] = saleOf[s] /\ reportOf'[s] = reportOf[s]
                             /\ dealOf'[s] = dealOf[s] /\ booksOf'[s] = booksOf[s],
         UNCHANGED unlocked
  PROVE  SaleStutter
  <1>1. saleOf' = saleOf
    BY DEF saleOf
  <1>2. reportOf' = reportOf
    BY DEF reportOf
  <1>3. dealOf' = dealOf
    BY DEF dealOf
  <1>4. booksOf' = booksOf
    BY DEF booksOf
  <1>5. QED
    BY <1>1, <1>2, <1>3, <1>4 DEF SaleStutter

(* A request makes a session, of which nobody is told. *)
LEMMA NewStepSale ==
  ASSUME TypeOK, NEW c \in Requests, NewStep(c), UNCHANGED unlocked
  PROVE  SaleStutter
  <1>1. /\ created \in Nat /\ created + 1 \notin 1..created /\ offered \subseteq 1..created
        /\ 1..created \subseteq Sessions
    BY CheckoutAssumption DEF TypeOK, Sessions
  <1>2. \A s \in offered : stripe'[s] = stripe[s] /\ metadata'[s] = metadata[s]
    BY <1>1 DEF NewStep, NewSession, TypeOK
  <1>3. QED
    BY <1>2, SameView, Extensional DEF NewStep, recordVars

(* The row is written: for ReportSale that is an offer, if the client is told. *)
LEMMA InsertStepSale ==
  ASSUME TypeOK, RecordInv, RecordInv', NEW c \in Requests, InsertStep(c), UNCHANGED unlocked
  PROVE  SaleStutter \/ Sale!Offer(made[c])
  <1> DEFINE m == made[c]
  <1> USE DEF InsertStep, stripeVars
  <1>1. /\ m \in Sessions /\ m \in 1..created /\ offered \subseteq Sessions
        /\ metadata[m] = asked[c] /\ metadata[m].report \in Reports
        /\ purchase[m] = "ABSENT" /\ payment[m] = "ABSENT"
    BY CheckoutAssumption DEF TypeOK, Sessions, RecordInv, InsertIsFresh
  <1>2. m \notin offered
    BY <1>1 DEF RecordInv, OfferedIsRecorded, HasRow
  <1>3. /\ \A s \in Sessions \ {m} :
              purchase'[s] = purchase[s] /\ payment'[s] = payment[s] /\ place'[s] = place[s]
        /\ purchase'[m] \in {"ABSENT", "PENDING"} /\ payment'[m] \in {"ABSENT", "PENDING"}
    <2>1. purchase \in [Sessions -> PaymentStatuses] /\ place \in [Sessions -> Places]
      BY CheckoutAssumption DEF TypeOK, PricingTypeOK
    <2>2. QED
      BY <1>1, <2>1 DEF Insert, RecordPurchase, TypeOK
  <1>4. \A s \in Sessions \ {m} : /\ saleOf'[s] = saleOf[s] /\ reportOf'[s] = reportOf[s]
                                  /\ dealOf'[s] = dealOf[s] /\ booksOf'[s] = booksOf[s]
    BY <1>3, SameView
  <1>5. CASE offered' = offered
    <2>1. /\ saleOf'[m] = saleOf[m] /\ reportOf'[m] = reportOf[m]
          /\ dealOf'[m] = dealOf[m] /\ booksOf'[m] = booksOf[m]
      BY <1>1, <1>2, <1>5, SameView
    <2>2. QED
      BY <1>4, <2>1, Extensional
  <1>6. CASE offered' = offered \cup {m}
    <2>1. saleOf[m] = "none" /\ saleOf'[m] = stripe[m] /\ stripe[m] \in {"open", "expired"}
      <3>1. stripe[m] \in {"open", "paid", "expired"}
        BY <1>1 DEF TypeOK
      <3>2. stripe[m] # "paid"
        BY <1>1, <1>2 DEF RecordInv, PaidIsOffered
      <3>3. QED
        BY <1>1, <1>2, <1>6, <3>1, <3>2 DEF saleOf
    <2>2. saleOf' = [saleOf EXCEPT ![m] = stripe[m]]
      BY <1>1, <1>4, <2>1 DEF saleOf
    <2>3. reportOf'[m] \in Reports
      BY <1>1, <1>6 DEF reportOf
    <2>4. booksOf' = booksOf
      <3>1. booksOf'[m] = booksOf[m]
        BY <1>1, <1>2, <1>3 DEF booksOf
      <3>2. QED
        BY <1>4, <3>1 DEF booksOf
    <2>5. ASSUME dealOf'[m] # Regular, NEW t \in Sessions \ {m}
          PROVE  dealOf'[t] # dealOf'[m]
      <3>1. dealOf'[m] = place'[m] /\ metadata'[m].flow = "launch" /\ m \in offered'
        BY <1>1, <1>6, <2>5 DEF dealOf
      <3>2. CASE dealOf'[t] = Regular
        BY <2>5, <3>2
      <3>3. CASE t \in offered' /\ metadata'[t].flow = "launch"
        <4>1. purchase'[t] # "ABSENT" /\ purchase'[m] # "ABSENT"
          BY <3>1, <3>3 DEF RecordInv, OfferedIsRecorded, HasRow
        <4>2. place'[t] # place'[m]
          BY <1>1, <4>1 DEF RecordInv, PlacesAreDistinct
        <4>3. dealOf'[t] = place'[t]
          BY <3>3 DEF dealOf
        <4>4. QED
          BY <3>1, <4>2, <4>3
      <3>4. QED
        BY <3>2, <3>3 DEF dealOf
    <2>6. QED
      BY <1>4, <2>1, <2>2, <2>3, <2>4, <2>5 DEF Sale!Offer
  <1>7. QED
    BY <1>5, <1>6

(* Money is taken, or the session expires; one that nobody was told of expires unseen. *)
LEMMA MoneyStepSale ==
  ASSUME TypeOK, NEW s \in Sessions, MoneyStep(s), UNCHANGED unlocked
  PROVE  SaleStutter \/ Sale!Settle(s)
  <1> USE DEF MoneyStep, recordVars
  <1>1. \A t \in Sessions \ {s} : stripe'[t] = stripe[t]
    BY DEF TypeOK
  <1>2. /\ reportOf' = reportOf /\ dealOf' = dealOf /\ booksOf' = booksOf
    BY DEF reportOf, dealOf, booksOf
  <1>3. CASE s \notin offered
    BY <1>1, <1>2, <1>3 DEF saleOf, SaleStutter
  <1>4. CASE s \in offered
    <2>1. PICK st \in {"paid", "expired"} : stripe' = [stripe EXCEPT ![s] = st]
      OBVIOUS
    <2>2. saleOf[s] = "open" /\ saleOf' = [saleOf EXCEPT ![s] = st]
      BY <1>4, <2>1 DEF saleOf, TypeOK
    <2>3. QED
      BY <1>2, <2>2 DEF Sale!Settle
  <1>5. QED
    BY <1>3, <1>4

(* The row of a paid session is completed, its report unlocked, or both. *)
LEMMA FulfilStepSale ==
  ASSUME TypeOK, RecordInv, NEW s \in Sessions, stripe[s] = "paid",
         \/ SetRow(s, "COMPLETED")
         \/ UNCHANGED <<purchase, payment>>,
         unlocked' \in {unlocked, unlocked \cup {metadata[s].report}},
         UNCHANGED <<place, stripeVars, offered>>
  PROVE  Sale!Fulfil(s)
  <1> USE DEF stripeVars
  <1>1. s \in offered
    BY DEF RecordInv, PaidIsOffered
  <1>2. saleOf' = saleOf /\ reportOf' = reportOf /\ dealOf' = dealOf
    BY DEF saleOf, reportOf, dealOf
  <1>3. saleOf[s] = "paid" /\ reportOf[s] = metadata[s].report
    BY <1>1 DEF saleOf, reportOf
  <1>4. booksOf' \in {booksOf, [booksOf EXCEPT ![s] = "completed"]}
    <2>1. CASE UNCHANGED <<purchase, payment>>
      BY <2>1 DEF booksOf
    <2>2. CASE SetRow(s, "COMPLETED")
      <3>1. purchase \in [Sessions -> PaymentStatuses]
        BY CheckoutAssumption DEF TypeOK, PricingTypeOK
      <3>2. /\ purchase'[s] = "COMPLETED" \/ payment'[s] = "COMPLETED"
            /\ \A t \in Sessions \ {s} : purchase'[t] = purchase[t] /\ payment'[t] = payment[t]
        BY <2>2, <3>1 DEF SetRow, TypeOK
      <3>3. booksOf'[s] = "completed" /\ \A t \in Sessions \ {s} : booksOf'[t] = booksOf[t]
        BY <1>1, <3>2 DEF booksOf
      <3>4. QED
        BY <3>3 DEF booksOf
    <2>3. QED
      BY <2>1, <2>2
  <1>5. QED
    BY <1>2, <1>3, <1>4 DEF Sale!Fulfil

LEMMA ExpiredStepSale ==
  ASSUME TypeOK, RecordInv, AccessInv, NEW s \in Sessions, HandleCheckoutExpired(s)
  PROVE  SaleStutter \/ Sale!WriteOff(s)
  <1> USE DEF HandleCheckoutExpired, stripeVars
  <1>1. saleOf' = saleOf /\ reportOf' = reportOf /\ dealOf' = dealOf
    BY DEF saleOf, reportOf, dealOf
  <1>2. /\ payment'[s] = "EXPIRED" /\ purchase' = purchase /\ purchase[s] # "COMPLETED"
        /\ \A t \in Sessions \ {s} : payment'[t] = payment[t]
    BY DEF SetRow, TypeOK, AccessInv, RowsAgreeWithStripe
  <1>3. CASE s \notin offered
    BY <1>1, <1>2, <1>3 DEF booksOf, SaleStutter
  <1>4. CASE s \in offered
    <2>1. booksOf' = [booksOf EXCEPT ![s] = "expired"]
      BY <1>2, <1>4 DEF booksOf
    <2>2. saleOf[s] = "expired"
      BY <1>4 DEF saleOf
    <2>3. QED
      BY <1>1, <2>1, <2>2 DEF Sale!WriteOff
  <1>5. QED
    BY <1>3, <1>4

LEMMA QuietSale ==
  ASSUME QuietStep, UNCHANGED unlocked
  PROVE  SaleStutter
  BY DEF QuietStep, recordVars, stripeVars, SaleStutter, saleOf, reportOf, dealOf, booksOf

LEMMA NextSale ==
  ASSUME TypeOK, RecordInv, RecordInv', AccessInv, [Next]_vars
  PROVE  SaleStutter \/ Sale!SaleNext
  <1> USE DEF pricingVars, requestVars, stripeVars, accessVars, verifyVars
  <1>1. ASSUME NEW c \in Requests, NewStep(c) \/ InsertStep(c), UNCHANGED unlocked
        PROVE  SaleStutter \/ Sale!SaleNext
    <2>1. step[c] = "record" => made[c] \in Sessions
      BY CheckoutAssumption DEF TypeOK, Sessions
    <2>2. QED
      BY <1>1, <2>1, NewStepSale, InsertStepSale DEF Sale!SaleNext, InsertStep
  <1>2. ASSUME NEW s \in Sessions, Pay(s) \/ Expire(s)
        PROVE  SaleStutter \/ Sale!SaleNext
    <2>1. MoneyStep(s) /\ UNCHANGED unlocked
      BY <1>2 DEF Pay, Expire, MoneyStep, recordVars
    <2>2. QED
      BY <2>1, MoneyStepSale DEF Sale!SaleNext
  <1>3. ASSUME NEW s \in Sessions, HandleCheckoutCompleted(s)
        PROVE  Sale!SaleNext
    <2>1. Sale!Fulfil(s)
      BY <1>3, FulfilStepSale DEF HandleCheckoutCompleted
    <2>2. QED
      BY <2>1 DEF Sale!SaleNext
  <1>4. ASSUME NEW s \in Sessions, HandleCheckoutExpired(s)
        PROVE  SaleStutter \/ Sale!SaleNext
    BY <1>4, ExpiredStepSale DEF Sale!SaleNext
  <1>5. ASSUME NEW v \in Verifiers, VerifyRow(v) \/ VerifyUnlock(v)
        PROVE  Sale!SaleNext
    <2>1. verifying[v] \in Sessions /\ stripe[verifying[v]] = "paid"
      BY <1>5, CheckoutAssumption
      DEF VerifyRow, VerifyUnlock, TypeOK, Sessions, AccessInv, VerifyingIsPaid
    <2>2. Sale!Fulfil(verifying[v])
      BY <1>5, <2>1, FulfilStepSale DEF VerifyRow, VerifyUnlock
    <2>3. QED
      BY <2>1, <2>2 DEF Sale!SaleNext
  <1>6. CASE UNCHANGED vars
    BY <1>6, QuietSale DEF vars, QuietStep, recordVars
  <1>7. ASSUME NEW g \in Regions, Operator(g)
        PROVE  SaleStutter
    BY <1>7, QuietSale DEF QuietStep, recordVars, Operator, ResetCounter, ReadMaxCompleted, SetCounter
  <1>8. ASSUME NEW c \in Requests, Request(c)
        PROVE  SaleStutter \/ Sale!SaleNext
    <2>1. ASSUME NEW r \in Reports, NEW g \in Regions, BeginLaunch(c, r, g)
          PROVE  SaleStutter
      BY <2>1, QuietSale DEF QuietStep, recordVars, BeginLaunch, Reserve, TypeOK
    <2>2. CASE SessionFails(c) \/ GiveUp(c)
      BY <2>2, QuietSale DEF QuietStep, recordVars, SessionFails, GiveUp, EndRequest, TypeOK
    <2>3. CASE TryAnotherSlot(c)
      BY <2>3, QuietSale DEF QuietStep, recordVars, TryAnotherSlot, Reserve, TypeOK
    <2>4. ASSUME NEW r \in Reports, BeginFull(c, r)
          PROVE  NewStep(c) /\ UNCHANGED unlocked
      BY <2>4 DEF NewStep, BeginFull, recordVars, TypeOK
    <2>5. CASE CreateSession(c)
      BY <1>1, <2>5 DEF NewStep, CreateSession, recordVars
    <2>6. CASE Record(c)
      BY <1>1, <2>6 DEF InsertStep, Record
    <2>7. QED
      BY <1>1, <1>8, <2>1, <2>2, <2>3, <2>4, <2>5, <2>6 DEF Request
  <1>9. ASSUME NEW v \in Verifiers, VerifyFails(v) \/ \E s \in Sessions : VerifyRetrieve(v, s)
        PROVE  SaleStutter
    BY <1>9, QuietSale DEF QuietStep, recordVars, VerifyFails, VerifyRetrieve
  <1>10. ASSUME NEW c \in Requests, RecordFails(c)
         PROVE  SaleStutter \/ Sale!SaleNext
    <2>1. CASE UNCHANGED <<place, purchase, payment>>
      BY <1>10, <2>1, QuietSale DEF QuietStep, recordVars, RecordFails, EndRequest, TypeOK
    <2>2. CASE Insert(c)
      BY <1>1, <1>10, <2>2 DEF InsertStep, RecordFails
    <2>3. QED
      BY <1>10, <2>1, <2>2 DEF RecordFails
  <1>11. CASE Crash
    BY <1>11, QuietSale DEF QuietStep, recordVars, Crash
  <1>12. QED
    BY <1>2, <1>3, <1>4, <1>5, <1>6, <1>7, <1>8, <1>9, <1>10, <1>11 DEF Next, Verify, Failure

(***************************************************************************)
(* Checkout implements ReportSale: whatever requests, counters, webhooks,  *)
(* verify calls and faults do, clients see reports sold, each launch slot  *)
(* once, the books following the money and access following both.          *)
(***************************************************************************)
THEOREM CheckoutImplementsSale == Spec => ImplementsSale
  <1>1. Init => Sale!SaleInit
    BY DEF Init, Sale!SaleInit, saleOf, booksOf
  <1>2. TypeOK /\ RecordInv /\ RecordInv' /\ AccessInv /\ [Next]_vars => [Sale!SaleNext]_(Sale!saleVars)
    BY NextSale DEF SaleStutter, Sale!saleVars
  <1>3. QED
    BY <1>1, <1>2, TypeCorrect, RecordInvHolds, AccessInvHolds, PTL
    DEF Spec, ImplementsSale, Sale!SaleSpec

=============================================================================
